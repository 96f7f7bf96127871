---------------------------- MODULE UnchainedTable ----------------------------
(***************************************************************************)
(* UnchainedHashTable as JoinAlgorithm::run uses it on small build sides:  *)
(* reserve, one insert per row whose key is not NULL, and finalize, whose  *)
(* three passes turn one directory array from counts into start addresses  *)
(* and from start addresses into end addresses.                            *)
(*                                                                         *)
(* A HashEntry is named by its row.  Addresses are counted in HashEntry    *)
(* units from Base.                                                        *)
(***************************************************************************)
EXTENDS Integers, Sequences, FiniteSets

CONSTANTS
  BuildSize,       (* rows of the build column                                *)
  JoinKeys, NullKey, (* int32 keys, and the sentinel that stands for NULL   *)
  HashSize, Hash,  (* [JoinKeys -> 0 .. HashSize-1], 2^64 hashes in all       *)
  TagBits, Tag,    (* bloom bits, and compute_tag: the bits of a hash         *)
  DirectorySizes,  (* powers of two a directory may have, 2^10 the smallest   *)
  Base,            (* address of tuple_storage                                *)
  Nil, Zeroed      (* no table yet; the entry new HashEntry[n]() leaves       *)

Rows   == 0 .. BuildSize - 1
Hashes == 0 .. HashSize - 1

DirectoryAssumption ==
  /\ BuildSize \in Nat /\ HashSize \in Nat /\ Base \in Nat
  /\ DirectorySizes \subseteq Nat
  /\ \A c \in DirectorySizes : \E l \in 1 .. HashSize : HashSize = l * c
  /\ \E c \in DirectorySizes : c >= BuildSize
ASSUME DirectoryAssumption

KeysAssumption ==
  /\ Hash \in [JoinKeys -> Hashes]
  /\ Tag \in [Hashes -> SUBSET TagBits]
  /\ NullKey \notin JoinKeys /\ Zeroed \notin Rows
ASSUME KeysAssumption

VARIABLES
  column,    (* the build column                                  *)
  loop,      (* which loop runs                                   *)
  pos,       (* its index: a row, an entry or a directory slot    *)
  entries,   (* temp_entries                                      *)
  capacity,  (* directory slots                                   *)
  dir,       (* directory, -1 .. capacity-1: pointer (or count) and bloom *)
  storage,   (* tuple_storage                                     *)
  cur        (* the address the prefix sum has reached            *)

tableVars == <<capacity, dir, storage>>
buildVars == <<column, loop, pos, entries, tableVars, cur>>

SlotOf(h)  == h \div (HashSize \div capacity)
RowSlot(r) == SlotOf(Hash[column[r]])

-----------------------------------------------------------------------------
(* reserve(build_size): the smallest directory with a slot per row; the    *)
(* entry before slot 0 holds the start of the storage.                     *)
Reserve ==
  /\ column \in [Rows -> JoinKeys \cup {NullKey}]
  /\ capacity \in {c \in DirectorySizes :
                     c >= BuildSize /\ \A d \in DirectorySizes : d >= BuildSize => c <= d}
  /\ dir = [s \in -1 .. capacity - 1 |-> [ptr |-> IF s = -1 THEN Base ELSE 0, bloom |-> {}]]
  /\ storage = [c \in 0 .. BuildSize - 1 |-> Zeroed]
  /\ loop = "insert" /\ pos = 0
  /\ entries = <<>>
  /\ cur = Base

(* One turn of the loop over the build column. *)
Insert ==
  /\ loop = "insert" /\ pos < BuildSize
  /\ entries' = IF column[pos] = NullKey THEN entries ELSE Append(entries, pos)
  /\ pos' = pos + 1
  /\ UNCHANGED <<column, loop, tableVars, cur>>

(* finalize, phase 1: count the entry in its slot, add its bloom bits. *)
CountOnly(entry, r) == [entry EXCEPT !.ptr = @ + 1]   \* mutant: no tag is added
CountIn(entry, r) == [ptr |-> entry.ptr + 1, bloom |-> entry.bloom \cup Tag[Hash[column[r]]]]
Count ==
  /\ loop = "count" /\ pos < Len(entries)
  /\ LET r == entries[pos + 1]
     IN  dir' = [dir EXCEPT ![RowSlot(r)] = CountIn(@, r)]
  /\ pos' = pos + 1
  /\ UNCHANGED <<column, loop, entries, capacity, storage, cur>>

(* finalize, phase 2: the start address of every slot. *)
CurPast(count) == cur + count + 1   \* mutant: an entry of room between slots
CurAfter(count) == cur + count
Prefix ==
  /\ loop = "prefix" /\ pos < capacity
  /\ dir' = [dir EXCEPT ![pos].ptr = cur]
  /\ cur' = CurAfter(dir[pos].ptr)
  /\ pos' = pos + 1
  /\ UNCHANGED <<column, loop, entries, capacity, storage>>

(* finalize, phase 3: put the entry at its slot's address, advance that.   *)
PlacedOver(address) == address   \* mutant: the address is not advanced
PlacedAt(address) == address + 1
Place ==
  /\ loop = "place" /\ pos < Len(entries)
  /\ LET r == entries[pos + 1]
         s == RowSlot(r)
     IN  /\ storage' = [storage EXCEPT ![dir[s].ptr - Base] = r]
         /\ dir' = [dir EXCEPT ![s].ptr = PlacedAt(@)]
  /\ pos' = pos + 1
  /\ UNCHANGED <<column, loop, entries, capacity, cur>>

(* The end of a loop; temp_entries is cleared after the last one. *)
LoopEnd(from, length, to) ==
  /\ loop = from /\ pos = length
  /\ loop' = to /\ pos' = 0
  /\ entries' = IF to = "built" THEN <<>> ELSE entries
  /\ UNCHANGED <<column, tableVars, cur>>

NextLoop ==
  \/ LoopEnd("insert", BuildSize, "count")
  \/ LoopEnd("count", Len(entries), "prefix")
  \/ LoopEnd("prefix", capacity, "place")
  \/ LoopEnd("place", Len(entries), "built")

Finalized == loop = "built" /\ UNCHANGED buildVars

BuildStep == Insert \/ Count \/ Prefix \/ Place \/ NextLoop \/ Finalized
BuildSpec == Reserve /\ [][BuildStep]_buildVars

-----------------------------------------------------------------------------
(* find_range. *)
CouldContain(k) == Tag[Hash[k]] \subseteq dir[SlotOf(Hash[k])].bloom
FindRange(k) ==
  IF CouldContain(k)
  THEN dir[SlotOf(Hash[k]) - 1].ptr .. dir[SlotOf(Hash[k])].ptr - 1
  ELSE {}

-----------------------------------------------------------------------------
(* Every variable has its type, and the prefix sum stays in the storage:   *)
(* it ends where the last entry does.                                      *)
BuildTypeOK ==
  /\ column \in [Rows -> JoinKeys \cup {NullKey}]
  /\ loop \in {"insert", "count", "prefix", "place", "built"}
  /\ pos \in 0 .. (IF loop = "prefix" THEN capacity ELSE BuildSize)
  /\ entries \in Seq(Rows) /\ Len(entries) <= BuildSize
  /\ capacity \in DirectorySizes
  /\ dir \in [-1 .. capacity - 1 -> [ptr : Nat, bloom : SUBSET TagBits]]
  /\ storage \in [0 .. BuildSize - 1 -> Rows \cup {Zeroed}]
  /\ cur \in Base .. Base + Len(entries) + (IF loop = "built" THEN BuildSize ELSE 0)

(* While entries are placed, a slot's address is the number of entries of   *)
(* the slots before it and of its own entries placed so far: no entry is    *)
(* put over another one or into the range of another slot, and the address  *)
(* that is a start address now will be the end of the slot at the end,      *)
(* which is the start of the next one.                                      *)
EntriesOfSlot(S, n) == {j \in 1 .. n : RowSlot(entries[j]) \in S}
PlacementExact ==
  loop = "place" =>
    \A s \in 0 .. capacity - 1 :
      LET start == Base + Cardinality(EntriesOfSlot(0 .. s - 1, Len(entries)))
          placed == EntriesOfSlot({s}, pos)
      IN  /\ dir[s].ptr = start + Cardinality(placed)
          /\ {storage[a - Base] : a \in start .. dir[s].ptr - 1} = {entries[j] : j \in placed}

(* What a probe for every key meets among the entries of its range. *)
Lookups ==
  IF \E k \in JoinKeys : \E a \in FindRange(k) :
       a - Base \notin DOMAIN storage \/ storage[a - Base] = Zeroed
  THEN Zeroed
  ELSE [k \in JoinKeys |-> [r \in Rows |->
          Cardinality({a \in FindRange(k) : storage[a - Base] = r /\ column[r] = k})]]

Index == INSTANCE JoinIndex WITH
           Keys <- JoinKeys, Null <- NullKey, NotBuilt <- Nil,
           index <- IF loop = "built" THEN Lookups ELSE Nil

(* The finished table answers every lookup as the abstract index does. *)
ImplementsIndex == Index!Spec
-----------------------------------------------------------------------------
(* Why the lookups are exact.  temp_entries gets the rows whose key is not  *)
(* NULL, each once.                                                         *)
Slots   == 0 .. capacity - 1
Indexes == 1 .. Len(entries)

EntriesExact ==
  /\ \A j \in Indexes : column[entries[j]] # NullKey
  /\ \A i, j \in Indexes : entries[i] = entries[j] => i = j
  /\ loop = "insert" => \A j \in Indexes : entries[j] < pos
  /\ loop # "built" =>
       \A r \in Rows : column[r] # NullKey /\ (loop = "insert" => r < pos) =>
         \E j \in Indexes : entries[j] = r

(* Every loop index stays in its loop, and no array is too small. *)
LoopsBounded ==
  /\ loop = "insert" => pos <= BuildSize /\ Len(entries) <= pos
  /\ loop \in {"count", "place"} => pos <= Len(entries)
  /\ loop = "prefix" => pos <= capacity
  /\ loop = "built" => pos = 0 /\ entries = <<>>

(* The directory: zero, counts, counts after start addresses, and start     *)
(* addresses that become end addresses; cur is where the next slot starts.  *)
Start(s) == Base + Cardinality(EntriesOfSlot(0 .. s - 1, Len(entries)))
EntriesIn(s, n) == Cardinality(EntriesOfSlot({s}, n))

DirectoryExact ==
  /\ dir[-1].ptr = Base
  /\ loop \in {"insert", "count"} => cur = Base
  /\ loop = "insert" => \A s \in Slots : dir[s].ptr = 0
  /\ loop = "count"  => \A s \in Slots : dir[s].ptr = EntriesIn(s, pos)
  /\ loop = "prefix" =>
       /\ cur = Start(pos)
       /\ \A s \in Slots : dir[s].ptr = IF s < pos THEN Start(s) ELSE EntriesIn(s, Len(entries))
  /\ loop = "place"  =>
       /\ cur = Base + Len(entries)
       /\ \A s \in Slots : dir[s].ptr = Start(s) + EntriesIn(s, pos)

(* The part of the storage a slot has filled: its entries placed so far,    *)
(* one cell each.                                                           *)
Filled(s) == Start(s) .. dir[s].ptr - 1
StorageExact ==
  loop = "place" =>
    \A s \in Slots :
      /\ \A j \in EntriesOfSlot({s}, pos) : \E a \in Filled(s) : storage[a - Base] = entries[j]
      /\ \A a \in Filled(s) : \E j \in EntriesOfSlot({s}, pos) : storage[a - Base] = entries[j]
      /\ \A a, b \in Filled(s) : storage[a - Base] = storage[b - Base] => a = b

(* The bloom bits of a slot cover the tags of the entries counted in it. *)
BloomsCover ==
  \A j \in Indexes : (loop # "insert" /\ (loop = "count" => j <= pos)) =>
    Tag[Hash[column[entries[j]]]] \subseteq dir[RowSlot(entries[j])].bloom

IInv == BuildTypeOK /\ EntriesExact /\ LoopsBounded /\ DirectoryExact /\ StorageExact /\ BloomsCover
=============================================================================
