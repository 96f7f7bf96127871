--------------------------- MODULE InnerJoinProofs ---------------------------
(***************************************************************************)
(* Theorems about an inner join: UnchainedHashTable, the index of a small  *)
(* build side, and the probe that follows on either table.                 *)
(*                                                                         *)
(* Part 1, for every number of rows, every set of keys, every hash and     *)
(* every tag: no entry is placed over another one or outside its slot's    *)
(* range, and the finished table answers every lookup as the abstract      *)
(* index does.                                                             *)
(*                                                                         *)
(* Part 2, for every pair of columns, every table that is complete, every  *)
(* number of threads and all sizes of chunks and pages: what the probe     *)
(* claims, collects, counts and writes.                                    *)
(***************************************************************************)
EXTENDS UnchainedTable, ProbeMaterialize, Arithmetic, FiniteSetTheorems

-----------------------------------------------------------------------------
(* Counting the entries of slots.                                           *)

(* The first n entries of some slots are a finite set. *)
LEMMA OfFinite ==
  ASSUME NEW S, NEW n \in Nat
  PROVE  /\ IsFiniteSet(EntriesOfSlot(S, n))
         /\ Cardinality(EntriesOfSlot(S, n)) \in 0 .. n
<1>1. IsFiniteSet(1 .. n) /\ Cardinality(1 .. n) = n
  BY FS_Interval
<1>2. EntriesOfSlot(S, n) \in SUBSET (1 .. n)
  BY DEF EntriesOfSlot
<1>3. IsFiniteSet(EntriesOfSlot(S, n)) /\ Cardinality(EntriesOfSlot(S, n)) <= n
  BY <1>1, <1>2, FS_Subset
<1> QED
  BY <1>3, FS_CardinalityType

(* One entry more. *)
LEMMA OfNext ==
  ASSUME NEW S, NEW n \in Nat
  PROVE  /\ EntriesOfSlot(S, n + 1) =
              IF RowSlot(entries[n + 1]) \in S THEN EntriesOfSlot(S, n) \cup {n + 1}
                                               ELSE EntriesOfSlot(S, n)
         /\ Cardinality(EntriesOfSlot(S, n + 1)) =
              Cardinality(EntriesOfSlot(S, n)) + IF RowSlot(entries[n + 1]) \in S THEN 1 ELSE 0
<1>1. EntriesOfSlot(S, n + 1) =
        IF RowSlot(entries[n + 1]) \in S THEN EntriesOfSlot(S, n) \cup {n + 1}
                                         ELSE EntriesOfSlot(S, n)
  BY DEF EntriesOfSlot
<1>2. n + 1 \notin EntriesOfSlot(S, n)
  BY DEF EntriesOfSlot
<1> QED
  BY <1>1, <1>2, OfFinite, FS_AddElement

(* No entry at all. *)
LEMMA OfNone ==
  ASSUME NEW S
  PROVE  /\ EntriesOfSlot(S, 0) = {} /\ Cardinality(EntriesOfSlot(S, 0)) = 0
         /\ \A n : Cardinality(EntriesOfSlot({}, n)) = 0
<1>1. EntriesOfSlot(S, 0) = {} /\ \A n : EntriesOfSlot({}, n) = {}
  BY DEF EntriesOfSlot
<1> QED BY <1>1, FS_EmptySet

(* One slot more. *)
LEMMA OfSum ==
  ASSUME NEW s \in Nat, NEW n \in Nat
  PROVE  Cardinality(EntriesOfSlot(0 .. s, n)) =
           Cardinality(EntriesOfSlot(0 .. s - 1, n)) + Cardinality(EntriesOfSlot({s}, n))
<1>1. EntriesOfSlot(0 .. s, n) = EntriesOfSlot(0 .. s - 1, n) \cup EntriesOfSlot({s}, n)
  BY DEF EntriesOfSlot
<1>2. EntriesOfSlot(0 .. s - 1, n) \cap EntriesOfSlot({s}, n) = {}
  BY DEF EntriesOfSlot
<1>3. Cardinality(EntriesOfSlot(0 .. s - 1, n) \cap EntriesOfSlot({s}, n)) = 0
  BY <1>2, FS_EmptySet
<1> DEFINE A == EntriesOfSlot(0 .. s - 1, n)
           B == EntriesOfSlot({s}, n)
<1>4. IsFiniteSet(A) /\ IsFiniteSet(B) /\ Cardinality(A) \in Nat /\ Cardinality(B) \in Nat
  BY OfFinite
<1> HIDE DEF A, B
<1>5. Cardinality(A \cup B) = Cardinality(A) + Cardinality(B) - Cardinality(A \cap B)
  BY <1>4, FS_Union
<1>6. Cardinality(A \cap B) = 0  BY <1>3 DEF A, B
<1>7. Cardinality(A \cup B) = Cardinality(A) + Cardinality(B)  BY <1>4, <1>5, <1>6
<1> QED
  BY <1>1, <1>7 DEF A, B

(* More slots have no fewer entries. *)
LEMMA OfMonotonic ==
  ASSUME NEW s \in Nat, NEW t \in Nat, s < t, NEW n \in Nat
  PROVE  Cardinality(EntriesOfSlot(0 .. s, n)) <= Cardinality(EntriesOfSlot(0 .. t - 1, n))
<1>1. EntriesOfSlot(0 .. s, n) \in SUBSET EntriesOfSlot(0 .. t - 1, n)
  BY DEF EntriesOfSlot
<1> QED
  BY <1>1, OfFinite, FS_Subset

(* An entry that is still to come is not among those counted so far. *)
LEMMA OfStrict ==
  ASSUME NEW m \in Nat, NEW n \in Nat, m < n
  PROVE  Cardinality(EntriesOfSlot({RowSlot(entries[m + 1])}, m))
           < Cardinality(EntriesOfSlot({RowSlot(entries[m + 1])}, n))
<1> DEFINE S == {RowSlot(entries[m + 1])}
<1>1. Cardinality(EntriesOfSlot(S, m + 1)) = Cardinality(EntriesOfSlot(S, m)) + 1
  BY OfNext
<1>2. EntriesOfSlot(S, m + 1) \in SUBSET EntriesOfSlot(S, n)
  BY DEF EntriesOfSlot
<1>3. Cardinality(EntriesOfSlot(S, m + 1)) <= Cardinality(EntriesOfSlot(S, n))
  BY <1>2, OfFinite, FS_Subset
<1> QED
  BY <1>1, <1>3, OfFinite

-----------------------------------------------------------------------------
(* Every entry has a slot of the directory. *)
LEMMA CapacityPositive ==
  ASSUME capacity \in DirectorySizes
  PROVE  /\ capacity \in Nat \ {0}
         /\ \A h \in Hashes : SlotOf(h) \in Slots
<1>1. PICK l \in 1 .. HashSize : HashSize = l * capacity
  BY DirectoryAssumption DEF DirectoryAssumption
<1>2. HashSize \in Nat /\ capacity \in Nat /\ l \in Nat \ {0} /\ HashSize # 0
  BY <1>1, DirectoryAssumption DEF DirectoryAssumption
<1>3. capacity # 0
  BY <1>1, <1>2, SMTT(30)
<1>4. HashSize \div capacity = l
  BY <1>1, <1>2, <1>3, DivOfMultiple
<1>5. ASSUME NEW h \in Hashes PROVE SlotOf(h) \in Slots
  <2>1. h \in Nat /\ h < l * capacity
    BY <1>1, <1>2 DEF Hashes
  <2> QED BY <2>1, <1>2, <1>4, DivInRange DEF SlotOf, Slots
<1> QED BY <1>2, <1>3, <1>5

LEMMA RowHashed ==
  ASSUME column \in [Rows -> JoinKeys \cup {NullKey}], capacity \in DirectorySizes,
         NEW r \in Rows, column[r] # NullKey
  PROVE  /\ Hash[column[r]] \in Hashes /\ RowSlot(r) \in Slots
         /\ Tag[Hash[column[r]]] \in SUBSET TagBits
<1>1. Hash[column[r]] \in Hashes
  BY KeysAssumption DEF KeysAssumption
<1> QED
  BY <1>1, CapacityPositive, KeysAssumption DEF RowSlot, KeysAssumption
-----------------------------------------------------------------------------
(* Steps that leave the entries alone leave their slots alone. *)
LEMMA SlotsKept ==
  ASSUME UNCHANGED <<column, entries, capacity>>
  PROVE  /\ \A S, n : EntriesOfSlot(S, n)' = EntriesOfSlot(S, n)
         /\ \A s, n : EntriesIn(s, n)' = EntriesIn(s, n)
         /\ \A s : Start(s)' = Start(s)
         /\ \A r : RowSlot(r)' = RowSlot(r)
         /\ Slots' = Slots /\ Indexes' = Indexes
<1>1. \A r : RowSlot(r)' = RowSlot(r)
  BY DEF RowSlot, SlotOf
<1>2. \A S, n : EntriesOfSlot(S, n)' = EntriesOfSlot(S, n)
  BY <1>1 DEF EntriesOfSlot
<1>3. \A s, n : EntriesIn(s, n)' = EntriesIn(s, n)
  BY <1>2 DEF EntriesIn
<1>4. \A s : Start(s)' = Start(s)
  BY <1>2 DEF Start
<1> QED BY <1>1, <1>2, <1>3, <1>4 DEF Slots, Indexes

(* A range that is one longer. *)
LEMMA IntervalGrows ==
  ASSUME NEW m \in Nat, NEW n \in Nat, m <= n
  PROVE  m .. (n + 1) - 1 = (m .. n - 1) \cup {n}
  OBVIOUS

(* Changing the pointer of a directory entry. *)
LEMMA PointerUpdate ==
  ASSUME NEW entry \in [ptr : Nat, bloom : SUBSET TagBits], NEW n
  PROVE  [entry EXCEPT !.ptr = n] = [ptr |-> n, bloom |-> entry.bloom]
  OBVIOUS

(* Changing one slot of the directory. *)
LEMMA DirUpdate ==
  ASSUME dir \in [-1 .. capacity - 1 -> [ptr : Nat, bloom : SUBSET TagBits]],
         capacity \in Nat, NEW s \in Slots,
         NEW new \in [ptr : Nat, bloom : SUBSET TagBits], dir' = [dir EXCEPT ![s] = new]
  PROVE  /\ dir' \in [-1 .. capacity - 1 -> [ptr : Nat, bloom : SUBSET TagBits]]
         /\ dir'[s] = new /\ dir'[-1] = dir[-1]
         /\ \A t \in Slots : t # s => dir'[t] = dir[t]
<1> DEFINE D == -1 .. capacity - 1
           E == [ptr : Nat, bloom : SUBSET TagBits]
<1>1. s \in D /\ -1 \in D /\ s # -1 /\ \A t \in Slots : t \in D
  BY DEF Slots
<1>2. dir \in [D -> E] /\ new \in E
  OBVIOUS
<1> HIDE DEF D, E
<1>3. dir' \in [D -> E] /\ dir'[s] = new /\ \A t \in D : t # s => dir'[t] = dir[t]
  BY <1>1, <1>2
<1> QED BY <1>1, <1>3 DEF D, E

-----------------------------------------------------------------------------
(* reserve establishes the invariant. *)
LEMMA InitIInv == Reserve => IInv
<1> SUFFICES ASSUME Reserve PROVE IInv
  OBVIOUS
<1> USE DirectoryAssumption, KeysAssumption DEF DirectoryAssumption, KeysAssumption, Reserve
<1>1. capacity \in DirectorySizes /\ capacity \in Nat \ {0}
  BY CapacityPositive
<1>2. entries = <<>> /\ Len(entries) = 0 /\ Indexes = {}
  BY DEF Indexes
<1>3. dir \in [-1 .. capacity - 1 -> [ptr : Nat, bloom : SUBSET TagBits]]
  BY <1>1
<1>4. BuildTypeOK
  BY <1>1, <1>2, <1>3 DEF BuildTypeOK
<1>5. EntriesExact /\ LoopsBounded /\ StorageExact /\ BloomsCover
  BY <1>2 DEF EntriesExact, LoopsBounded, StorageExact, BloomsCover, Rows
<1>6. DirectoryExact
  BY <1>1 DEF DirectoryExact, Slots
<1> QED BY <1>4, <1>5, <1>6 DEF IInv

(* A row is put behind the entries, or skipped when its key is NULL. *)
LEMMA InsertIInv == ASSUME IInv, Insert PROVE IInv'
<1>1. /\ loop = "insert" /\ pos < BuildSize /\ pos' = pos + 1
      /\ entries' = IF column[pos] = NullKey THEN entries ELSE Append(entries, pos)
      /\ UNCHANGED <<column, loop, capacity, dir, storage, cur>>
  BY DEF Insert, tableVars
<1>2. /\ pos \in Nat /\ entries \in Seq(Rows) /\ BuildSize \in Nat /\ Len(entries) <= pos
      /\ pos \in Rows /\ Base \in Nat
  BY <1>1, DirectoryAssumption DEF BuildTypeOK, DirectoryAssumption, Rows, LoopsBounded, IInv
<1>3. /\ entries' \in Seq(Rows) /\ Len(entries') <= pos + 1 /\ Len(entries) <= Len(entries')
      /\ \A j \in Indexes : j \in Indexes' /\ entries'[j] = entries[j]
      /\ \A j \in Indexes' : j \notin Indexes => entries'[j] = pos /\ column[pos] # NullKey
      /\ \A j, k \in Indexes' : j \notin Indexes /\ k \notin Indexes => j = k
      /\ column[pos] # NullKey => \E j \in Indexes' : entries'[j] = pos
  <2>1. CASE column[pos] = NullKey
    BY <1>1, <1>2, <2>1 DEF Indexes
  <2>2. CASE column[pos] # NullKey
    <3>1. /\ entries' = Append(entries, pos) /\ entries' \in Seq(Rows)
          /\ Len(entries') = Len(entries) + 1 /\ Len(entries) \in Nat
          /\ entries'[Len(entries) + 1] = pos
          /\ \A j \in 1 .. Len(entries) : entries'[j] = entries[j]
      BY <1>1, <1>2, <2>2
    <3>2. Len(entries) + 1 \in 1 .. Len(entries')
      BY <3>1
    <3> QED BY <1>2, <2>2, <3>1, <3>2 DEF Indexes
  <2> QED BY <2>1, <2>2
<1>4. BuildTypeOK'
  BY <1>1, <1>2, <1>3 DEF BuildTypeOK, IInv
<1>5. EntriesExact'
  <2>1. /\ \A j \in Indexes : column[entries[j]] # NullKey /\ entries[j] < pos /\ entries[j] \in Nat
        /\ \A j, k \in Indexes : entries[j] = entries[k] => j = k
        /\ \A r \in Rows : column[r] # NullKey /\ r < pos => \E j \in Indexes : entries[j] = r
    BY <1>1, <1>2 DEF EntriesExact, Indexes, Rows, IInv
  <2>2. \A j \in Indexes' : column[entries'[j]] # NullKey /\ entries'[j] < pos + 1
    BY <1>2, <1>3, <2>1
  <2>3. \A j, k \in Indexes' : entries'[j] = entries'[k] => j = k
    BY <1>2, <1>3, <2>1
  <2>4. \A r \in Rows : column[r] # NullKey /\ r < pos + 1 => \E j \in Indexes' : entries'[j] = r
    <3> SUFFICES ASSUME NEW r \in Rows, column[r] # NullKey, r < pos + 1
                 PROVE  \E j \in Indexes' : entries'[j] = r
      OBVIOUS
    <3>1. CASE r = pos  BY <1>3, <3>1
    <3>2. CASE r < pos  BY <1>3, <2>1, <3>2
    <3> QED BY <1>2, <3>1, <3>2 DEF Rows
  <2> QED BY <1>1, <2>2, <2>3, <2>4 DEF EntriesExact, IInv
<1>6. LoopsBounded'
  BY <1>1, <1>2, <1>3 DEF LoopsBounded, IInv
<1>7. DirectoryExact'
  BY <1>1 DEF DirectoryExact, Slots, IInv
<1>8. StorageExact' /\ BloomsCover'
  BY <1>1 DEF StorageExact, BloomsCover, IInv
<1> QED BY <1>4, <1>5, <1>6, <1>7, <1>8 DEF IInv

(* What the loops over the entries and the slots start from. *)
LEMMA LoopFacts ==
  ASSUME IInv
  PROVE  /\ capacity \in DirectorySizes /\ capacity \in Nat \ {0}
         /\ dir \in [-1 .. capacity - 1 -> [ptr : Nat, bloom : SUBSET TagBits]]
         /\ column \in [Rows -> JoinKeys \cup {NullKey}]
         /\ entries \in Seq(Rows) /\ Len(entries) \in Nat /\ pos \in Nat
         /\ BuildSize \in Nat /\ Base \in Nat /\ Len(entries) <= BuildSize /\ cur \in Nat
         /\ \A j \in Indexes :
              /\ entries[j] \in Rows /\ RowSlot(entries[j]) \in Slots
              /\ Tag[Hash[column[entries[j]]]] \in SUBSET TagBits
         /\ \A s \in Slots : s \in Nat /\ s < capacity /\ dir[s].ptr \in Nat
<1>1. capacity \in DirectorySizes /\ capacity \in Nat \ {0}
  BY CapacityPositive DEF BuildTypeOK, IInv
<1>2. /\ dir \in [-1 .. capacity - 1 -> [ptr : Nat, bloom : SUBSET TagBits]]
      /\ column \in [Rows -> JoinKeys \cup {NullKey}]
      /\ entries \in Seq(Rows) /\ Len(entries) \in Nat
      /\ BuildSize \in Nat /\ Base \in Nat /\ Len(entries) <= BuildSize
  BY DirectoryAssumption DEF BuildTypeOK, DirectoryAssumption, IInv
<1>3. pos \in Nat /\ cur \in Nat
  BY <1>1, <1>2 DEF BuildTypeOK, IInv
<1>4. \A j \in Indexes : entries[j] \in Rows /\ column[entries[j]] # NullKey
  BY <1>2 DEF Indexes, EntriesExact, IInv
<1>5. \A j \in Indexes : /\ RowSlot(entries[j]) \in Slots
                         /\ Tag[Hash[column[entries[j]]]] \in SUBSET TagBits
  BY <1>1, <1>2, <1>4, RowHashed
<1>6. \A s \in Slots : s \in Nat /\ s < capacity /\ dir[s].ptr \in Nat
  BY <1>1, <1>2 DEF Slots
<1> QED BY <1>1, <1>2, <1>3, <1>4, <1>5, <1>6

(* finalize, phase 1. *)
LEMMA CountIInv == ASSUME IInv, Count PROVE IInv'
<1> DEFINE r == entries[pos + 1]
           s == RowSlot(r)
           new == [ptr |-> dir[s].ptr + 1, bloom |-> dir[s].bloom \cup Tag[Hash[column[r]]]]
<1>1. /\ loop = "count" /\ pos < Len(entries) /\ pos' = pos + 1
      /\ dir' = [dir EXCEPT ![s] = new]
      /\ UNCHANGED <<column, loop, entries, capacity, storage, cur>>
  BY DEF Count, CountIn
<1>2. pos \in Nat /\ pos + 1 \in Indexes /\ capacity \in Nat
  BY <1>1, LoopFacts, SMTT(30) DEF Indexes
<1>3. s \in Slots /\ Tag[Hash[column[r]]] \in SUBSET TagBits
  BY <1>2, LoopFacts
<1>4. s \in -1 .. capacity - 1  BY <1>3, <1>2 DEF Slots
<1>5. new \in [ptr : Nat, bloom : SUBSET TagBits]
  BY <1>3, <1>4, LoopFacts, SMTT(30)
<1>6. /\ dir' \in [-1 .. capacity - 1 -> [ptr : Nat, bloom : SUBSET TagBits]]
      /\ dir'[s] = new /\ dir'[-1] = dir[-1]
      /\ \A t \in Slots : t # s => dir'[t] = dir[t]
  <2> HIDE DEF s, new
  <2> QED BY <1>1, <1>2, <1>3, <1>5, LoopFacts, DirUpdate
<1>7. BuildTypeOK'
  <2> HIDE DEF r, s, new
  <2>1. /\ column \in [Rows -> JoinKeys \cup {NullKey}] /\ entries \in Seq(Rows) /\ Len(entries) <= BuildSize
        /\ capacity \in DirectorySizes /\ storage \in [0 .. BuildSize - 1 -> Rows \cup {Zeroed}]
        /\ cur \in Base .. Base + Len(entries) + 0
    BY <1>1 DEF BuildTypeOK, IInv
  <2>2. pos + 1 \in 0 .. BuildSize
    BY <1>1, LoopFacts
  <2>3. loop' = "count" /\ pos' \in 0 .. (IF loop' = "prefix" THEN capacity' ELSE BuildSize)
    BY <1>1, <2>2
  <2>4. cur' \in Base .. Base + Len(entries') + (IF loop' = "built" THEN BuildSize ELSE 0)
    BY <1>1, <2>1
  <2>5. loop' \in {"insert", "count", "prefix", "place", "built"}
    BY <2>3
  <2>6. capacity' = capacity /\ entries' = entries /\ column' = column /\ storage' = storage
    BY <1>1
  <2> QED BY <1>6, <2>1, <2>3, <2>4, <2>5, <2>6, Zenon DEF BuildTypeOK
<1>8. EntriesExact'
  BY <1>1 DEF EntriesExact, Indexes, IInv
<1>9. LoopsBounded'
  BY <1>1, LoopFacts DEF LoopsBounded, IInv
<1>10. DirectoryExact'
  <2>1. dir[-1].ptr = Base /\ cur = Base /\ \A t \in Slots : dir[t].ptr = EntriesIn(t, pos)
    BY <1>1 DEF DirectoryExact, IInv
  <2>2. \A t \in Slots : EntriesIn(t, pos + 1) = EntriesIn(t, pos) + IF t = s THEN 1 ELSE 0
    BY <1>2, OfNext DEF EntriesIn
  <2>3. \A t \in Slots : dir'[t].ptr = EntriesIn(t, pos + 1)
    BY <1>6, <2>1, <2>2, LoopFacts
  <2>4. \A t \in Slots : EntriesIn(t, pos)' = EntriesIn(t, pos + 1)
    BY <1>1, SlotsKept
  <2> QED BY <1>1, <1>6, <2>1, <2>3, <2>4, SlotsKept DEF DirectoryExact, IInv
<1>11. BloomsCover'
  <2>1. \A j \in Indexes : j <= pos + 1 =>
          Tag[Hash[column[entries[j]]]] \subseteq dir'[RowSlot(entries[j])].bloom
    <3> SUFFICES ASSUME NEW j \in Indexes, j <= pos + 1
                 PROVE  Tag[Hash[column[entries[j]]]] \subseteq dir'[RowSlot(entries[j])].bloom
      OBVIOUS
    <3>1. CASE j = pos + 1  BY <1>6, <3>1
    <3>2. CASE j <= pos
      <4>1. Tag[Hash[column[entries[j]]]] \subseteq dir[RowSlot(entries[j])].bloom
        BY <1>1, <3>2 DEF BloomsCover, IInv
      <4>2. RowSlot(entries[j]) \in Slots  BY LoopFacts
      <4>3. CASE RowSlot(entries[j]) = s
        <5>1. dir[s].bloom \subseteq dir'[s].bloom  BY <1>6
        <5> QED BY <4>1, <4>3, <5>1
      <4>4. CASE RowSlot(entries[j]) # s  BY <1>6, <4>1, <4>2, <4>4
      <4> QED BY <4>3, <4>4
    <3> QED BY <1>2, <3>1, <3>2 DEF Indexes
  <2> QED BY <1>1, <2>1, SlotsKept DEF BloomsCover, IInv
<1>12. StorageExact'
  BY <1>1 DEF StorageExact, IInv
<1> QED BY <1>7, <1>8, <1>9, <1>10, <1>11, <1>12 DEF IInv

(* The ranges of the slots: one after the other, inside the storage. *)
LEMMA Ranges ==
  ASSUME IInv, NEW s \in Nat, NEW n \in 0 .. Len(entries)
  PROVE  /\ Start(s) \in Nat /\ EntriesIn(s, n) \in Nat /\ Start(s + 1) \in Nat
         /\ Start(s + 1) = Start(s) + EntriesIn(s, Len(entries))
         /\ EntriesIn(s, n) <= EntriesIn(s, Len(entries))
         /\ Base <= Start(s) /\ Start(s + 1) <= Base + Len(entries)
         /\ \A t \in Nat : s < t => Start(s + 1) <= Start(t)
<1> DEFINE len == Len(entries)
<1>1. len \in Nat /\ n \in Nat /\ Base \in Nat
  BY LoopFacts
<1> HIDE DEF len
<1>2. /\ Cardinality(EntriesOfSlot(0 .. s - 1, len)) \in 0 .. len
      /\ Cardinality(EntriesOfSlot(0 .. s, len)) \in 0 .. len
      /\ Cardinality(EntriesOfSlot({s}, len)) \in 0 .. len
      /\ Cardinality(EntriesOfSlot({s}, n)) \in 0 .. n
  BY <1>1, OfFinite
<1>3. Cardinality(EntriesOfSlot(0 .. s, len)) =
        Cardinality(EntriesOfSlot(0 .. s - 1, len)) + Cardinality(EntriesOfSlot({s}, len))
  BY <1>1, OfSum
<1>4. Cardinality(EntriesOfSlot({s}, n)) <= Cardinality(EntriesOfSlot({s}, len))
  <2>1. EntriesOfSlot({s}, n) \in SUBSET EntriesOfSlot({s}, len)
    BY <1>1 DEF EntriesOfSlot, len
  <2> QED BY <1>1, <2>1, OfFinite, FS_Subset
<1>5. \A t \in Nat : s < t =>
        /\ Cardinality(EntriesOfSlot(0 .. s, len)) <= Cardinality(EntriesOfSlot(0 .. t - 1, len))
        /\ Cardinality(EntriesOfSlot(0 .. t - 1, len)) \in Nat
  BY <1>1, OfMonotonic, OfFinite
<1>6. /\ Start(s) = Base + Cardinality(EntriesOfSlot(0 .. s - 1, len))
      /\ \A t : Start(t) = Base + Cardinality(EntriesOfSlot(0 .. t - 1, len))
      /\ \A m : EntriesIn(s, m) = Cardinality(EntriesOfSlot({s}, m))
  BY DEF Start, EntriesIn, len
<1>7. Start(s + 1) = Base + Cardinality(EntriesOfSlot(0 .. s, len))
  <2>1. (s + 1) - 1 = s  OBVIOUS
  <2> QED BY <1>6, <2>1
<1>8. \A t \in Nat : s < t => Start(s + 1) <= Start(t)
  BY <1>1, <1>2, <1>5, <1>6, <1>7, SMTT(30)
<1>9. /\ Start(s) \in Nat /\ EntriesIn(s, n) \in Nat /\ Start(s + 1) \in Nat
      /\ Start(s + 1) = Start(s) + EntriesIn(s, len)
      /\ EntriesIn(s, n) <= EntriesIn(s, len)
      /\ Base <= Start(s) /\ Start(s + 1) <= Base + len
  <2> DEFINE A == Cardinality(EntriesOfSlot(0 .. s - 1, len))
             B == Cardinality(EntriesOfSlot({s}, len))
             C == Cardinality(EntriesOfSlot({s}, n))
             T == Cardinality(EntriesOfSlot(0 .. s, len))
  <2>1. A \in Nat /\ B \in Nat /\ C \in Nat /\ T \in Nat /\ T = A + B /\ C <= B /\ T <= len
    BY <1>1, <1>2, <1>3, <1>4
  <2>2. Start(s) = Base + A /\ Start(s + 1) = Base + T /\ EntriesIn(s, n) = C /\ EntriesIn(s, len) = B
    BY <1>6, <1>7
  <2> HIDE DEF A, B, C, T
  <2> QED BY <1>1, <2>1, <2>2
<1> QED BY <1>8, <1>9 DEF len

(* finalize, phase 2. *)
LEMMA PrefixIInv == ASSUME IInv, Prefix PROVE IInv'
<1> DEFINE new == [ptr |-> cur, bloom |-> dir[pos].bloom]
<1>1. /\ loop = "prefix" /\ pos < capacity /\ pos' = pos + 1
      /\ dir' = [dir EXCEPT ![pos] = [dir[pos] EXCEPT !.ptr = cur]]
      /\ cur' = cur + dir[pos].ptr
      /\ UNCHANGED <<column, loop, entries, capacity, storage>>
  BY DEF Prefix, CurAfter
<1>2. pos \in Slots /\ pos \in Nat /\ capacity \in Nat
  BY <1>1, LoopFacts DEF Slots
<1>3. dir[pos] \in [ptr : Nat, bloom : SUBSET TagBits]
  BY <1>2, LoopFacts DEF Slots
<1>4. new \in [ptr : Nat, bloom : SUBSET TagBits] /\ dir' = [dir EXCEPT ![pos] = new]
  <2>1. cur \in Nat /\ dir[pos].bloom \in SUBSET TagBits  BY <1>3, LoopFacts
  <2>2. [dir[pos] EXCEPT !.ptr = cur] = new  BY <1>3, PointerUpdate
  <2> QED BY <1>1, <2>1, <2>2
<1>5. /\ dir' \in [-1 .. capacity - 1 -> [ptr : Nat, bloom : SUBSET TagBits]]
      /\ dir'[pos] = new /\ dir'[-1] = dir[-1]
      /\ \A t \in Slots : t # pos => dir'[t] = dir[t]
  <2> HIDE DEF new
  <2> QED BY <1>2, <1>4, LoopFacts, DirUpdate
<1>6. /\ dir[-1].ptr = Base /\ cur = Start(pos)
      /\ \A s \in Slots : dir[s].ptr = IF s < pos THEN Start(s) ELSE EntriesIn(s, Len(entries))
  BY <1>1 DEF DirectoryExact, IInv
<1>7. cur' = Start(pos + 1) /\ Base <= cur' /\ cur' <= Base + Len(entries) /\ cur' \in Nat
  <2>1. dir[pos].ptr = EntriesIn(pos, Len(entries))
    BY <1>2, <1>6
  <2>2. Len(entries) \in 0 .. Len(entries)  BY LoopFacts
  <2>3. /\ Start(pos) \in Nat /\ Start(pos + 1) = Start(pos) + EntriesIn(pos, Len(entries))
        /\ Base <= Start(pos) /\ Start(pos + 1) <= Base + Len(entries) /\ Start(pos + 1) \in Nat
        /\ EntriesIn(pos, Len(entries)) \in Nat
    BY <1>2, <2>2, Ranges
  <2> QED BY <1>1, <1>6, <2>1, <2>3, LoopFacts
<1>8. BuildTypeOK'
  <2>1. pos' \in 0 .. (IF loop' = "prefix" THEN capacity ELSE BuildSize)
    BY <1>1, <1>2
  <2>2. cur' \in Base .. Base + Len(entries) + (IF loop' = "built" THEN BuildSize ELSE 0)
    BY <1>1, <1>7, LoopFacts
  <2> QED BY <1>1, <1>5, <2>1, <2>2 DEF BuildTypeOK, IInv
<1>9. EntriesExact'
  BY <1>1 DEF EntriesExact, Indexes, IInv
<1>10. LoopsBounded'
  BY <1>1, LoopFacts DEF LoopsBounded, IInv
<1>11. DirectoryExact'
  <2>1. \A s \in Slots : dir'[s].ptr = IF s < pos + 1 THEN Start(s) ELSE EntriesIn(s, Len(entries))
    <3> SUFFICES ASSUME NEW s \in Slots
        PROVE  dir'[s].ptr = IF s < pos + 1 THEN Start(s) ELSE EntriesIn(s, Len(entries))
      OBVIOUS
    <3>1. s \in Nat  BY LoopFacts
    <3>2. dir[s].ptr = IF s < pos THEN Start(s) ELSE EntriesIn(s, Len(entries))
      BY <1>6
    <3>3. CASE s = pos
      <4>1. dir'[s].ptr = Start(s)  BY <1>5, <1>6, <3>3
      <4> QED BY <1>2, <3>3, <4>1
    <3>4. CASE s # pos
      <4>1. dir'[s] = dir[s]  BY <1>5, <3>4
      <4>2. s < pos + 1 <=> s < pos  BY <1>2, <3>1, <3>4
      <4> QED BY <3>2, <4>1, <4>2
    <3> QED BY <3>3, <3>4
  <2>2. /\ \A s : Start(s)' = Start(s)
        /\ \A s : EntriesIn(s, Len(entries))' = EntriesIn(s, Len(entries))
        /\ Start(pos)' = Start(pos + 1)
    BY <1>1, SlotsKept
  <2>3. (cur = Start(pos))'
    BY <1>7, <2>2
  <2> QED BY <1>1, <1>5, <1>6, <2>1, <2>2, <2>3, SlotsKept DEF DirectoryExact, IInv
<1>12. BloomsCover'
  <2>1. \A j \in Indexes : /\ RowSlot(entries[j]) \in Slots
                           /\ Tag[Hash[column[entries[j]]]] \subseteq dir[RowSlot(entries[j])].bloom
    BY <1>1, LoopFacts DEF BloomsCover, IInv
  <2>2. \A s \in Slots : dir'[s].bloom = dir[s].bloom
    BY <1>5
  <2>3. \A j \in Indexes : Tag[Hash[column[entries[j]]]] \subseteq dir'[RowSlot(entries[j])].bloom
    BY <2>1, <2>2
  <2> QED BY <1>1, <2>3, SlotsKept DEF BloomsCover, IInv
<1>13. StorageExact'
  BY <1>1 DEF StorageExact, IInv
<1> QED BY <1>8, <1>9, <1>10, <1>11, <1>12, <1>13 DEF IInv

(* finalize, phase 3: an entry goes behind those its slot has already, into *)
(* a cell of no other slot.                                                 *)
LEMMA PlaceIInv == ASSUME IInv, Place PROVE IInv'
<1> DEFINE r == entries[pos + 1]
           s == RowSlot(r)
           a == dir[s].ptr
           new == [ptr |-> a + 1, bloom |-> dir[s].bloom]
<1>1. /\ loop = "place" /\ pos < Len(entries) /\ pos' = pos + 1
      /\ dir' = [dir EXCEPT ![s] = [dir[s] EXCEPT !.ptr = a + 1]]
      /\ storage' = [storage EXCEPT ![a - Base] = r]
      /\ UNCHANGED <<column, loop, entries, capacity, cur>>
  BY DEF Place, PlacedAt
<1>2. /\ pos \in Nat /\ pos + 1 \in Indexes /\ capacity \in Nat
      /\ pos \in 0 .. Len(entries) /\ Len(entries) \in Nat /\ Base \in Nat
      /\ Len(entries) <= BuildSize /\ BuildSize \in Nat
  BY <1>1, LoopFacts DEF Indexes
<1>3. s \in Slots /\ r \in Rows /\ s \in Nat /\ a \in Nat
  BY <1>2, LoopFacts
<1>4. dir[s] \in [ptr : Nat, bloom : SUBSET TagBits]
  BY <1>3, LoopFacts DEF Slots
<1>5. new \in [ptr : Nat, bloom : SUBSET TagBits] /\ dir' = [dir EXCEPT ![s] = new]
  <2>1. a + 1 \in Nat /\ dir[s].bloom \in SUBSET TagBits  BY <1>4
  <2>2. [dir[s] EXCEPT !.ptr = a + 1] = new  BY <1>4, PointerUpdate
  <2> QED BY <1>1, <2>1, <2>2
<1>6. /\ dir' \in [-1 .. capacity - 1 -> [ptr : Nat, bloom : SUBSET TagBits]]
      /\ dir'[s] = new /\ dir'[-1] = dir[-1]
      /\ \A t \in Slots : t # s => dir'[t] = dir[t]
  <2> HIDE DEF s, new
  <2> QED BY <1>2, <1>3, <1>5, LoopFacts, DirUpdate
<1> HIDE DEF s, r, new
<1>7. dir[-1].ptr = Base /\ \A t \in Slots : dir[t].ptr = Start(t) + EntriesIn(t, pos)
  BY <1>1 DEF DirectoryExact, IInv
<1>8. \A t \in Slots :
        /\ Start(t) \in Nat /\ EntriesIn(t, pos) \in Nat /\ Start(t + 1) \in Nat
        /\ Base <= Start(t) /\ dir[t].ptr <= Start(t + 1) /\ Start(t + 1) <= Base + Len(entries)
        /\ \A u \in Slots : t < u => Start(t + 1) <= Start(u)
  <2> SUFFICES ASSUME NEW t \in Slots
      PROVE /\ Start(t) \in Nat /\ EntriesIn(t, pos) \in Nat /\ Start(t + 1) \in Nat
            /\ Base <= Start(t) /\ dir[t].ptr <= Start(t + 1) /\ Start(t + 1) <= Base + Len(entries)
            /\ \A u \in Slots : t < u => Start(t + 1) <= Start(u)
    OBVIOUS
  <2>1. t \in Nat /\ \A u \in Slots : u \in Nat  BY LoopFacts
  <2>2. Len(entries) \in 0 .. Len(entries)  BY <1>2
  <2>3. /\ Start(t) \in Nat /\ EntriesIn(t, pos) \in Nat /\ Start(t + 1) \in Nat
        /\ Start(t + 1) = Start(t) + EntriesIn(t, Len(entries))
        /\ EntriesIn(t, pos) <= EntriesIn(t, Len(entries))
        /\ Base <= Start(t) /\ Start(t + 1) <= Base + Len(entries)
        /\ \A u \in Nat : t < u => Start(t + 1) <= Start(u)
    BY <1>2, <2>1, Ranges
  <2>4. EntriesIn(t, Len(entries)) \in Nat
    BY <2>1, <2>2, Ranges
  <2> QED BY <1>7, <2>1, <2>3, <2>4
<1>9. a < Start(s + 1)
  <2>1. EntriesIn(s, pos) < EntriesIn(s, Len(entries))
    BY <1>1, <1>2, OfStrict DEF EntriesIn, s, r
  <2>2. Len(entries) \in 0 .. Len(entries)  BY <1>2
  <2>3. /\ Start(s + 1) = Start(s) + EntriesIn(s, Len(entries)) /\ Start(s) \in Nat
        /\ EntriesIn(s, Len(entries)) \in Nat /\ EntriesIn(s, pos) \in Nat
    BY <1>2, <1>3, <2>2, Ranges
  <2> QED BY <1>3, <1>7, <2>1, <2>3
<1>10. a - Base \in 0 .. BuildSize - 1 /\ a - Base \in DOMAIN storage
  <2>1. /\ Start(s) \in Nat /\ EntriesIn(s, pos) \in Nat /\ Start(s + 1) \in Nat
        /\ Base <= Start(s) /\ Start(s + 1) <= Base + Len(entries)
        /\ a = Start(s) + EntriesIn(s, pos)
    BY <1>3, <1>7, <1>8
  <2>2. a - Base \in 0 .. BuildSize - 1
    BY <1>2, <1>9, <2>1
  <2> QED BY <2>2 DEF BuildTypeOK, IInv
<1>11. BuildTypeOK'
  <2>1. storage' \in [0 .. BuildSize - 1 -> Rows \cup {Zeroed}]
    BY <1>1, <1>3 DEF BuildTypeOK, IInv
  <2>2. pos' \in 0 .. (IF loop' = "prefix" THEN capacity ELSE BuildSize)
    BY <1>1, <1>2
  <2> QED BY <1>1, <1>6, <2>1, <2>2 DEF BuildTypeOK, IInv
<1>12. EntriesExact'
  BY <1>1 DEF EntriesExact, Indexes, IInv
<1>13. LoopsBounded'
  BY <1>1, <1>2 DEF LoopsBounded, IInv
<1>14. \A t \in Slots :
         /\ EntriesOfSlot({t}, pos + 1) = IF t = s THEN EntriesOfSlot({t}, pos) \cup {pos + 1}
                                                  ELSE EntriesOfSlot({t}, pos)
         /\ EntriesIn(t, pos + 1) = EntriesIn(t, pos) + IF t = s THEN 1 ELSE 0
  BY <1>2, OfNext DEF EntriesIn, s, r
<1>15. DirectoryExact'
  <2>1. \A t \in Slots : dir'[t].ptr = Start(t) + EntriesIn(t, pos + 1)
    <3> SUFFICES ASSUME NEW t \in Slots PROVE dir'[t].ptr = Start(t) + EntriesIn(t, pos + 1)
      OBVIOUS
    <3>1. /\ Start(t) \in Nat /\ EntriesIn(t, pos) \in Nat
          /\ dir[t].ptr = Start(t) + EntriesIn(t, pos)
          /\ EntriesIn(t, pos + 1) = EntriesIn(t, pos) + IF t = s THEN 1 ELSE 0
      BY <1>7, <1>8, <1>14
    <3>2. CASE t = s
      <4>1. dir'[t].ptr = a + 1 /\ a = dir[t].ptr  BY <1>6, <3>2 DEF new
      <4> QED BY <3>1, <3>2, <4>1
    <3>3. CASE t # s
      <4>1. dir'[t] = dir[t]  BY <1>6, <3>3
      <4> QED BY <3>1, <3>3, <4>1
    <3> QED BY <3>2, <3>3
  <2>2. /\ \A t : Start(t)' = Start(t)
        /\ \A t : EntriesIn(t, pos)' = EntriesIn(t, pos + 1)
    BY <1>1, SlotsKept
  <2>3. cur = Base + Len(entries)
    BY <1>1 DEF DirectoryExact, IInv
  <2> QED BY <1>1, <1>6, <1>7, <2>1, <2>2, <2>3, SlotsKept DEF DirectoryExact, IInv
<1>16. BloomsCover'
  <2>1. \A j \in Indexes : /\ RowSlot(entries[j]) \in Slots
                           /\ Tag[Hash[column[entries[j]]]] \subseteq dir[RowSlot(entries[j])].bloom
    BY <1>1, LoopFacts DEF BloomsCover, IInv
  <2>2. \A t \in Slots : dir'[t].bloom = dir[t].bloom
    BY <1>6 DEF new
  <2>3. \A j \in Indexes : Tag[Hash[column[entries[j]]]] \subseteq dir'[RowSlot(entries[j])].bloom
    BY <2>1, <2>2
  <2> QED BY <1>1, <2>3, SlotsKept DEF BloomsCover, IInv
<1>17. \A t \in Slots :
         /\ \A b \in Filled(t) : b \in Nat /\ b # a /\ storage'[b - Base] = storage[b - Base]
         /\ Filled(t)' = IF t = s THEN Filled(t) \cup {a} ELSE Filled(t)
  <2> SUFFICES ASSUME NEW t \in Slots
      PROVE /\ \A b \in Filled(t) : b \in Nat /\ b # a /\ storage'[b - Base] = storage[b - Base]
            /\ Filled(t)' = IF t = s THEN Filled(t) \cup {a} ELSE Filled(t)
    OBVIOUS
  <2>1. /\ t \in Nat /\ dir[t].ptr \in Nat /\ Start(t) \in Nat /\ Start(t + 1) \in Nat
        /\ Base <= Start(t) /\ dir[t].ptr <= Start(t + 1) /\ Start(t + 1) <= Base + Len(entries)
        /\ Start(s) \in Nat /\ Start(s) <= a /\ Start(s + 1) \in Nat
        /\ t < s => Start(t + 1) <= Start(s)
        /\ s < t => Start(s + 1) <= Start(t)
    <3>1. /\ t \in Nat /\ dir[t].ptr \in Nat  BY LoopFacts
    <3>2. /\ Start(t) \in Nat /\ Start(t + 1) \in Nat
          /\ Base <= Start(t) /\ dir[t].ptr <= Start(t + 1) /\ Start(t + 1) <= Base + Len(entries)
          /\ \A u \in Slots : t < u => Start(t + 1) <= Start(u)
      BY <1>8
    <3>3. /\ Start(s) \in Nat /\ Start(s + 1) \in Nat /\ EntriesIn(s, pos) \in Nat
          /\ \A u \in Slots : s < u => Start(s + 1) <= Start(u)
      BY <1>3, <1>8
    <3>4. a = Start(s) + EntriesIn(s, pos)  BY <1>3, <1>7
    <3>5. Start(s) <= a  BY <3>3, <3>4
    <3>6. (t < s => Start(t + 1) <= Start(s)) /\ (s < t => Start(s + 1) <= Start(t))
      BY <1>3, <3>2, <3>3
    <3> QED BY <3>1, <3>2, <3>3, <3>5, <3>6
  <2>2. \A b \in Filled(t) : b \in Nat /\ b # a /\ b - Base \in 0 .. BuildSize - 1
    <3> SUFFICES ASSUME NEW b \in Start(t) .. dir[t].ptr - 1
                 PROVE  b \in Nat /\ b # a /\ b - Base \in 0 .. BuildSize - 1
      BY DEF Filled
    <3>1. b \in Nat /\ b - Base \in 0 .. BuildSize - 1
      BY <1>2, <2>1, SMTT(30)
    <3>2. b # a
      BY <1>3, <1>9, <2>1, SMTT(30)
    <3> QED BY <3>1, <3>2
  <2>3. \A b \in Filled(t) : storage'[b - Base] = storage[b - Base]
    <3>1. storage \in [0 .. BuildSize - 1 -> Rows \cup {Zeroed}]  BY DEF BuildTypeOK, IInv
    <3> SUFFICES ASSUME NEW b \in Filled(t) PROVE storage'[b - Base] = storage[b - Base]
      OBVIOUS
    <3>2. b - Base # a - Base /\ b - Base \in DOMAIN storage
      BY <1>2, <1>3, <2>2, <3>1, SMTT(30)
    <3> QED BY <1>1, <3>1, <3>2
  <2>4. Filled(t)' = Start(t) .. dir'[t].ptr - 1
    BY <1>1, SlotsKept DEF Filled
  <2>5. CASE t = s
    <3>1. dir'[t].ptr = a + 1  BY <1>6, <2>5 DEF new
    <3>2. Filled(t) = Start(t) .. a - 1 /\ Start(t) <= a  BY <2>1, <2>5 DEF Filled
    <3>3. Start(t) .. (a + 1) - 1 = (Start(t) .. a - 1) \cup {a}
      BY <1>3, <2>1, <3>2, IntervalGrows
    <3> QED BY <2>2, <2>3, <2>4, <2>5, <3>1, <3>2, <3>3
  <2>6. CASE t # s
    <3>1. Filled(t)' = Filled(t)  BY <1>6, <2>4, <2>6 DEF Filled
    <3> QED BY <2>2, <2>3, <2>6, <3>1
  <2> QED BY <2>2, <2>3, <2>5, <2>6
<1>18. StorageExact'
  <2>1. storage'[a - Base] = entries[pos + 1]
    BY <1>1, <1>10 DEF r
  <2>2. \A t \in Slots : \A j \in EntriesOfSlot({t}, pos) : j \in 1 .. pos /\ j \in Indexes
    BY <1>1, <1>2 DEF EntriesOfSlot, Indexes
  <2>3. \A j \in 1 .. pos : entries[j] # entries[pos + 1]
    BY <1>1, <1>2 DEF EntriesExact, Indexes, IInv
  <2> SUFFICES ASSUME NEW t \in Slots
      PROVE
      /\ \A j \in EntriesOfSlot({t}, pos + 1) : \E b \in Filled(t)' : storage'[b - Base] = entries[j]
      /\ \A b \in Filled(t)' : \E j \in EntriesOfSlot({t}, pos + 1) : storage'[b - Base] = entries[j]
      /\ \A b, c \in Filled(t)' : storage'[b - Base] = storage'[c - Base] => b = c
    <3>1. /\ \A S : EntriesOfSlot(S, pos)' = EntriesOfSlot(S, pos + 1)
          /\ Slots' = Slots /\ entries' = entries
      BY <1>1, SlotsKept
    <3>2. \A u \in Slots :
            /\ \A j \in EntriesOfSlot({u}, pos)' : \E b \in Filled(u)' : storage'[b - Base] = entries'[j]
            /\ \A b \in Filled(u)' : \E j \in EntriesOfSlot({u}, pos)' : storage'[b - Base] = entries'[j]
            /\ \A b, c \in Filled(u)' : storage'[b - Base] = storage'[c - Base] => b = c
      <4> TAKE u \in Slots
      <4>1. EntriesOfSlot({u}, pos)' = EntriesOfSlot({u}, pos + 1) /\ entries' = entries
        BY <3>1
      <4> QED BY <4>1
    <3> QED BY <3>1, <3>2 DEF StorageExact
  <2>4. /\ \A j \in EntriesOfSlot({t}, pos) : \E b \in Filled(t) : storage[b - Base] = entries[j]
        /\ \A b \in Filled(t) : \E j \in EntriesOfSlot({t}, pos) : storage[b - Base] = entries[j]
        /\ \A b, c \in Filled(t) : storage[b - Base] = storage[c - Base] => b = c
    BY <1>1 DEF StorageExact, IInv
  <2>5. \A b \in Filled(t) : storage'[b - Base] = storage[b - Base]
    BY <1>17
  <2>6. CASE t = s
    <3>1. Filled(t)' = Filled(t) \cup {a} /\ EntriesOfSlot({t}, pos + 1) = EntriesOfSlot({t}, pos) \cup {pos + 1}
      BY <1>14, <1>17, <2>6
    <3>2. \A b \in Filled(t) : storage'[b - Base] # storage'[a - Base]
      BY <2>1, <2>2, <2>3, <2>4, <2>5
    <3>3. \A b, c \in Filled(t)' : storage'[b - Base] = storage'[c - Base] => b = c
      BY <2>4, <2>5, <3>1, <3>2
    <3>4. \A j \in EntriesOfSlot({t}, pos + 1) : \E b \in Filled(t)' : storage'[b - Base] = entries[j]
      <4> SUFFICES ASSUME NEW j \in EntriesOfSlot({t}, pos) \cup {pos + 1}
                   PROVE  \E b \in Filled(t) \cup {a} : storage'[b - Base] = entries[j]
        BY <3>1
      <4>1. CASE j = pos + 1  BY <2>1, <4>1
      <4>2. CASE j \in EntriesOfSlot({t}, pos)  BY <2>4, <2>5, <4>2
      <4> QED BY <4>1, <4>2
    <3>5. \A b \in Filled(t)' : \E j \in EntriesOfSlot({t}, pos + 1) : storage'[b - Base] = entries[j]
      <4> SUFFICES ASSUME NEW b \in Filled(t)'
                   PROVE  \E j \in EntriesOfSlot({t}, pos + 1) : storage'[b - Base] = entries[j]
        OBVIOUS
      <4>1. CASE b = a  BY <2>1, <3>1, <4>1
      <4>2. CASE b \in Filled(t)  BY <2>4, <2>5, <3>1, <4>2
      <4> QED BY <3>1, <4>1, <4>2
    <3> QED BY <3>3, <3>4, <3>5
  <2>7. CASE t # s
    <3>1. Filled(t)' = Filled(t) /\ EntriesOfSlot({t}, pos + 1) = EntriesOfSlot({t}, pos)
      BY <1>14, <1>17, <2>7
    <3> QED BY <2>4, <2>5, <3>1
  <2> QED BY <2>6, <2>7
<1> QED BY <1>11, <1>12, <1>13, <1>15, <1>16, <1>18 DEF IInv

(* The ends of the loops: every loop begins where the one before it ended. *)
LEMMA NextLoopIInv == ASSUME IInv, NextLoop PROVE IInv'
<1>1. pos' = 0 /\ UNCHANGED <<column, capacity, dir, storage, cur>>
  BY DEF NextLoop, LoopEnd, tableVars
<1>2. loop' # "built" => UNCHANGED entries
  BY DEF NextLoop, LoopEnd
<1>3. Len(entries) \in Nat /\ capacity \in Nat /\ Len(entries) \in 0 .. Len(entries)
  BY LoopFacts
<1>4. CASE LoopEnd("insert", BuildSize, "count")
  <2>1. loop = "insert" /\ loop' = "count" /\ pos = BuildSize /\ entries' = entries
    BY <1>4 DEF LoopEnd
  <2>2. BuildTypeOK'  BY <1>1, <2>1, LoopFacts DEF BuildTypeOK, IInv
  <2>3. EntriesExact'  BY <1>1, <2>1, DirectoryAssumption DEF EntriesExact, IInv, Indexes, Rows, DirectoryAssumption
  <2>4. LoopsBounded'  BY <1>1, <1>3, <2>1 DEF LoopsBounded
  <2>5. DirectoryExact'
    <3>1. cur = Base /\ dir[-1].ptr = Base /\ \A s \in Slots : dir[s].ptr = 0
      BY <2>1 DEF DirectoryExact, IInv
    <3>2. \A s \in Slots : EntriesIn(s, 0) = 0
      BY OfNone DEF EntriesIn
    <3>3. \A s : EntriesIn(s, pos)' = EntriesIn(s, 0)
      BY <1>1, <2>1, SlotsKept
    <3> QED BY <1>1, <2>1, <3>1, <3>2, <3>3, SlotsKept DEF DirectoryExact
  <2>6. StorageExact' /\ BloomsCover'
    BY <1>1, <2>1 DEF StorageExact, BloomsCover, Indexes
  <2> QED BY <2>2, <2>3, <2>4, <2>5, <2>6 DEF IInv
<1>5. CASE LoopEnd("count", Len(entries), "prefix")
  <2>1. loop = "count" /\ loop' = "prefix" /\ pos = Len(entries) /\ entries' = entries
    BY <1>5 DEF LoopEnd
  <2>2. BuildTypeOK'  BY <1>1, <2>1, LoopFacts, SMTT(30) DEF BuildTypeOK, IInv
  <2>3. EntriesExact'  BY <1>1, <2>1 DEF EntriesExact, IInv, Indexes
  <2>4. LoopsBounded'  BY <1>1, <1>3, <2>1 DEF LoopsBounded
  <2>5. DirectoryExact'
    <3>1. cur = Base /\ dir[-1].ptr = Base /\ \A s \in Slots : dir[s].ptr = EntriesIn(s, Len(entries))
      BY <2>1 DEF DirectoryExact, IInv
    <3>2. Start(0) = Base
      <4>1. 0 .. 0 - 1 = {}  OBVIOUS
      <4>2. Start(0) = Base + 0  BY <4>1, OfNone DEF Start
      <4> QED BY <4>2, LoopFacts
    <3>3. /\ Start(pos)' = Start(0)
          /\ \A s : EntriesIn(s, Len(entries))' = EntriesIn(s, Len(entries))
      BY <1>1, <2>1, SlotsKept
    <3>4. \A s \in Slots : ~(s < 0)  BY LoopFacts
    <3> QED BY <1>1, <2>1, <3>1, <3>2, <3>3, <3>4, SlotsKept DEF DirectoryExact
  <2>6. BloomsCover'
    <3>1. \A j \in Indexes : Tag[Hash[column[entries[j]]]] \subseteq dir[RowSlot(entries[j])].bloom
      BY <1>3, <2>1 DEF BloomsCover, IInv, Indexes
    <3> QED BY <1>1, <2>1, <3>1, SlotsKept DEF BloomsCover
  <2>7. StorageExact'  BY <2>1 DEF StorageExact
  <2> QED BY <2>2, <2>3, <2>4, <2>5, <2>6, <2>7 DEF IInv
<1>6. CASE LoopEnd("prefix", capacity, "place")
  <2>1. loop = "prefix" /\ loop' = "place" /\ pos = capacity /\ entries' = entries
    BY <1>6 DEF LoopEnd
  <2>2. BuildTypeOK'  BY <1>1, <2>1, LoopFacts, SMTT(30) DEF BuildTypeOK, IInv
  <2>3. EntriesExact'  BY <1>1, <2>1 DEF EntriesExact, IInv, Indexes
  <2>4. LoopsBounded'  BY <1>1, <1>3, <2>1 DEF LoopsBounded
  <2>5. \A s \in Slots : /\ dir[s].ptr = Start(s) /\ Start(s) \in Nat
                         /\ EntriesIn(s, 0) = 0 /\ EntriesOfSlot({s}, 0) = {}
    <3>1. \A s \in Slots : dir[s].ptr = Start(s)
      BY <2>1, LoopFacts DEF DirectoryExact, IInv
    <3>2. \A s \in Slots : Start(s) \in Nat  BY <3>1, LoopFacts
    <3>3. \A s \in Slots : EntriesIn(s, 0) = 0 /\ EntriesOfSlot({s}, 0) = {}
      BY OfNone DEF EntriesIn
    <3> QED BY <3>1, <3>2, <3>3
  <2>6. /\ \A s : Start(s)' = Start(s)
        /\ \A s : EntriesIn(s, pos)' = EntriesIn(s, 0)
        /\ \A S : EntriesOfSlot(S, pos)' = EntriesOfSlot(S, 0)
        /\ Slots' = Slots /\ Indexes' = Indexes
    BY <1>1, <2>1, SlotsKept
  <2>7. DirectoryExact'
    <3>1. dir[-1].ptr = Base /\ cur = Start(capacity)
      BY <2>1 DEF DirectoryExact, IInv
    <3>2. Start(capacity) = Base + Len(entries)
      <4>1. EntriesOfSlot(0 .. capacity - 1, Len(entries)) = 1 .. Len(entries)
        BY LoopFacts DEF EntriesOfSlot, Indexes, Slots
      <4>2. Cardinality(1 .. Len(entries)) = Len(entries)
        <5>1. \A n \in Nat : Cardinality(1 .. n) = n  BY FS_Interval
        <5> QED BY <1>3, <5>1
      <4> QED BY <4>1, <4>2 DEF Start
    <3>3. \A s \in Slots : dir[s].ptr = Start(s) + 0
      <4>1. \A n \in Nat : n = n + 0  OBVIOUS
      <4> QED BY <2>5, <4>1
    <3> QED BY <1>1, <2>1, <2>5, <2>6, <3>1, <3>2, <3>3 DEF DirectoryExact
  <2>8. StorageExact'
    <3>1. \A s \in Slots : Filled(s)' = {}
      <4> SUFFICES ASSUME NEW s \in Slots PROVE Filled(s)' = {}
        OBVIOUS
      <4>1. Filled(s)' = Start(s) .. Start(s) - 1
        BY <1>1, <2>5, <2>6 DEF Filled
      <4>2. \A n \in Nat : n .. n - 1 = {}  OBVIOUS
      <4> QED BY <2>5, <4>1, <4>2
    <3> QED BY <2>5, <2>6, <3>1 DEF StorageExact
  <2>9. BloomsCover'
    <3>1. \A j \in Indexes : Tag[Hash[column[entries[j]]]] \subseteq dir[RowSlot(entries[j])].bloom
      BY <2>1 DEF BloomsCover, IInv
    <3> QED BY <1>1, <2>1, <3>1, SlotsKept DEF BloomsCover
  <2> QED BY <2>2, <2>3, <2>4, <2>7, <2>8, <2>9 DEF IInv
<1>7. CASE LoopEnd("place", Len(entries), "built")
  <2>1. loop = "place" /\ loop' = "built" /\ entries' = <<>>
    BY <1>7 DEF LoopEnd
  <2>2. Len(entries') = 0 /\ entries' \in Seq(Rows) /\ Indexes' = {}
    BY <2>1 DEF Indexes
  <2>3. BuildTypeOK'  BY <1>1, <2>1, <2>2, LoopFacts DEF BuildTypeOK, IInv
  <2>4. EntriesExact' /\ LoopsBounded' /\ StorageExact' /\ BloomsCover'
    BY <1>1, <2>1, <2>2 DEF EntriesExact, LoopsBounded, StorageExact, BloomsCover
  <2>5. DirectoryExact'  BY <1>1, <2>1 DEF DirectoryExact, IInv
  <2> QED BY <2>3, <2>4, <2>5 DEF IInv
<1> QED BY <1>4, <1>5, <1>6, <1>7 DEF NextLoop

(* The invariant is inductive. *)
LEMMA NextIInv == IInv /\ [BuildStep]_buildVars => IInv'
<1> SUFFICES ASSUME IInv, [BuildStep]_buildVars PROVE IInv'
  OBVIOUS
<1>1. CASE UNCHANGED buildVars
  <2>1. UNCHANGED <<column, loop, pos, entries, capacity, dir, storage, cur>>
    BY <1>1 DEF buildVars, tableVars
  <2>2. BuildTypeOK' /\ EntriesExact' /\ LoopsBounded'
    BY <2>1 DEF IInv, BuildTypeOK, EntriesExact, LoopsBounded, Indexes
  <2>3. /\ \A s : Start(s)' = Start(s)
        /\ \A s : EntriesIn(s, pos)' = EntriesIn(s, pos)
        /\ \A s : EntriesIn(s, Len(entries))' = EntriesIn(s, Len(entries))
        /\ \A S : EntriesOfSlot(S, pos)' = EntriesOfSlot(S, pos)
        /\ \A r : RowSlot(r)' = RowSlot(r)
        /\ Slots' = Slots /\ Indexes' = Indexes /\ Start(pos)' = Start(pos)
    BY <2>1, SlotsKept
  <2>4. DirectoryExact'  BY <2>1, <2>3 DEF IInv, DirectoryExact
  <2>5. StorageExact'
    <3>1. \A s : Filled(s)' = Filled(s)  BY <2>1, <2>3 DEF Filled
    <3> QED BY <2>1, <2>3, <3>1 DEF IInv, StorageExact
  <2>6. BloomsCover'     BY <2>1, <2>3 DEF IInv, BloomsCover
  <2> QED BY <2>2, <2>4, <2>5, <2>6 DEF IInv
<1>2. CASE BuildStep
  BY <1>1, <1>2, InsertIInv, CountIInv, PrefixIInv, PlaceIInv, NextLoopIInv DEF BuildStep, Finalized
<1> QED BY <1>1, <1>2

-----------------------------------------------------------------------------
(* Every variable keeps its type; the prefix sum never leaves the storage. *)
THEOREM BuildTypeCorrect == BuildSpec => []BuildTypeOK
<1>1. IInv => BuildTypeOK  BY DEF IInv
<1> QED BY InitIInv, NextIInv, <1>1, PTL DEF BuildSpec

(* No entry is put over another one or into the range of another slot. *)
THEOREM PlacementCorrect == BuildSpec => []PlacementExact
<1>1. IInv => PlacementExact
  <2> SUFFICES ASSUME IInv, loop = "place", NEW s \in Slots
      PROVE  /\ dir[s].ptr = Start(s) + EntriesIn(s, pos)
             /\ {storage[a - Base] : a \in Filled(s)} = {entries[j] : j \in EntriesOfSlot({s}, pos)}
    BY DEF PlacementExact, Slots, Start, EntriesIn, Filled
  <2>1. dir[s].ptr = Start(s) + EntriesIn(s, pos)
    BY DEF IInv, DirectoryExact
  <2>2. {storage[a - Base] : a \in Filled(s)} = {entries[j] : j \in EntriesOfSlot({s}, pos)}
    BY DEF IInv, StorageExact
  <2> QED BY <2>1, <2>2
<1> QED BY InitIInv, NextIInv, <1>1, PTL DEF BuildSpec

-----------------------------------------------------------------------------
(* The last entry placed, a lookup is exact: the range of a key's slot has  *)
(* every row of the key once, and the bloom bits let the lookup through.    *)
LEMMA FinishedRange ==
  ASSUME IInv, loop = "place", pos = Len(entries), NEW k \in JoinKeys
  PROVE  /\ \A a \in FindRange(k) : a - Base \in DOMAIN storage /\ storage[a - Base] \in Rows
         /\ \A r \in Rows : column[r] = k =>
              \E a \in FindRange(k) : storage[a - Base] = r
         /\ \A a, b \in FindRange(k) : storage[a - Base] = storage[b - Base] => a = b
<1> DEFINE s == SlotOf(Hash[k])
<1>1. s \in Slots /\ s \in Nat /\ capacity \in Nat
  BY LoopFacts, CapacityPositive, KeysAssumption DEF KeysAssumption
<1>2. FindRange(k) = IF CouldContain(k) THEN dir[s - 1].ptr .. dir[s].ptr - 1 ELSE {}
  BY DEF FindRange
<1>3. CouldContain(k) <=> Tag[Hash[k]] \subseteq dir[s].bloom
  BY DEF CouldContain
<1> DEFINE len == Len(entries)
<1>4. len \in 0 .. len /\ len \in Nat /\ Base \in Nat /\ len <= BuildSize /\ BuildSize \in Nat
  BY LoopFacts
<1>5. dir[-1].ptr = Base /\ \A t \in Slots : dir[t].ptr = Start(t) + EntriesIn(t, len)
  BY DEF IInv, DirectoryExact
<1> HIDE DEF s
<1>6. \A t \in Slots : dir[t].ptr = Start(t + 1)
  BY <1>4, <1>5, LoopFacts, Ranges
<1>7. dir[s - 1].ptr = Start(s)
  <2>1. CASE s = 0
    <3>1. 0 .. 0 - 1 = {}  OBVIOUS
    <3>2. Start(0) = Base + 0  BY <3>1, OfNone DEF Start
    <3> QED BY <1>4, <1>5, <2>1, <3>2
  <2>2. CASE s # 0
    <3>1. s - 1 \in Slots /\ (s - 1) + 1 = s  BY <1>1, <2>2 DEF Slots
    <3>2. dir[s - 1].ptr = Start((s - 1) + 1)  BY <1>6, <3>1
    <3> QED BY <3>1, <3>2
  <2> QED BY <2>1, <2>2
<1>8. FindRange(k) \subseteq Filled(s) /\ (CouldContain(k) => FindRange(k) = Filled(s))
  BY <1>2, <1>7 DEF Filled
<1>9. /\ \A j \in EntriesOfSlot({s}, pos) : \E a \in Filled(s) : storage[a - Base] = entries[j]
      /\ \A a \in Filled(s) : \E j \in EntriesOfSlot({s}, pos) : storage[a - Base] = entries[j]
      /\ \A a, b \in Filled(s) : storage[a - Base] = storage[b - Base] => a = b
  BY <1>1 DEF IInv, StorageExact
<1>10. \A j \in EntriesOfSlot({s}, pos) : entries[j] \in Rows
  BY LoopFacts DEF EntriesOfSlot, Indexes
<1>11. \A a \in Filled(s) : a - Base \in DOMAIN storage
  <2>1. /\ Start(s) \in Nat /\ Base <= Start(s) /\ Start(s + 1) <= Base + len
        /\ Start(s + 1) \in Nat
    BY <1>1, <1>4, Ranges
  <2>2. dir[s].ptr = Start(s + 1)  BY <1>1, <1>6
  <2>3. DOMAIN storage = 0 .. BuildSize - 1  BY DEF IInv, BuildTypeOK
  <2>4. \A a \in Start(s) .. Start(s + 1) - 1 : a - Base \in 0 .. BuildSize - 1
    BY <1>4, <2>1
  <2> QED BY <2>2, <2>3, <2>4 DEF Filled
<1>12. ASSUME NEW r \in Rows, column[r] = k
       PROVE  \E a \in FindRange(k) : storage[a - Base] = r
  <2>1. column[r] # NullKey  BY <1>12, KeysAssumption DEF KeysAssumption
  <2>2. PICK j \in Indexes : entries[j] = r
    BY <2>1 DEF IInv, EntriesExact
  <2>3. j \in EntriesOfSlot({s}, pos) /\ RowSlot(entries[j]) = s
    BY <1>12, <2>2 DEF EntriesOfSlot, Indexes, RowSlot, s
  <2>4. CouldContain(k)
    <3>1. Tag[Hash[column[entries[j]]]] \subseteq dir[RowSlot(entries[j])].bloom
      BY DEF IInv, BloomsCover
    <3> QED BY <1>3, <1>12, <2>2, <2>3, <3>1
  <2> QED BY <1>8, <1>9, <2>2, <2>3, <2>4
<1>13. \A a \in FindRange(k) : a - Base \in DOMAIN storage /\ storage[a - Base] \in Rows
  BY <1>8, <1>9, <1>10, <1>11
<1> QED BY <1>8, <1>9, <1>12, <1>13

LEMMA FinishedLookups ==
  ASSUME IInv, loop = "place", pos = Len(entries)
  PROVE  Lookups = [k \in JoinKeys |-> [r \in Rows |-> IF column[r] = k THEN 1 ELSE 0]]
<1> DEFINE Found(k, r) == {a \in FindRange(k) : storage[a - Base] = r /\ column[r] = k}
<1>1. ~(\E k \in JoinKeys : \E a \in FindRange(k) :
          a - Base \notin DOMAIN storage \/ storage[a - Base] = Zeroed)
  BY FinishedRange, KeysAssumption DEF KeysAssumption
<1>2. Lookups = [k \in JoinKeys |-> [r \in Rows |-> Cardinality(Found(k, r))]]
  BY <1>1 DEF Lookups
<1>3. ASSUME NEW k \in JoinKeys, NEW r \in Rows
      PROVE  Cardinality(Found(k, r)) = IF column[r] = k THEN 1 ELSE 0
  <2>1. CASE column[r] = k
    <3>1. PICK a \in FindRange(k) : storage[a - Base] = r  BY <2>1, FinishedRange
    <3>2. Found(k, r) = {a}  BY <2>1, <3>1, FinishedRange
    <3> QED BY <2>1, <3>2, FS_Singleton
  <2>2. CASE column[r] # k
    <3>1. Found(k, r) = {}  BY <2>2
    <3> QED BY <2>2, <3>1, FS_EmptySet
  <2> QED BY <2>1, <2>2
<1> HIDE DEF Found
<1> QED BY <1>2, <1>3

(* UnchainedHashTable implements the abstract index: whatever the rows, the *)
(* keys, the hashes and the tags are, each lookup of the finished table     *)
(* finds every row of its key once, and no other row.                       *)
THEOREM LookupsCorrect == BuildSpec => ImplementsIndex
<1>1. Reserve => Index!Init
  BY DEF Reserve, Index!Init
<1>2. IInv /\ [BuildStep]_buildVars => [Index!Build]_(Index!vars)
  <2> SUFFICES ASSUME IInv, [BuildStep]_buildVars PROVE [Index!Build]_(Index!vars)
    OBVIOUS
  <2> DEFINE index == IF loop = "built" THEN Lookups ELSE Nil
  <2>1. column' = column
    BY DEF BuildStep, buildVars, Insert, Count, Prefix, Place, NextLoop, LoopEnd, Finalized
  <2>2. CASE UNCHANGED <<loop, column, capacity, dir, storage>>
    <3>1. index' = index  BY <2>2 DEF Lookups, FindRange, CouldContain, SlotOf
    <3> QED BY <2>1, <3>1 DEF Index!vars
  <2>3. CASE loop # "built" /\ loop' # "built"
    <3>1. index' = index  BY <2>3
    <3> QED BY <2>1, <3>1 DEF Index!vars
  <2>4. CASE LoopEnd("place", Len(entries), "built")
    <3>1. /\ loop = "place" /\ loop' = "built" /\ pos = Len(entries)
          /\ UNCHANGED <<column, capacity, dir, storage>>
      BY <2>4 DEF LoopEnd, tableVars
    <3>2. Lookups' = Lookups
      BY <3>1 DEF Lookups, FindRange, CouldContain, SlotOf
    <3>3. index = Nil /\ index' = [k \in JoinKeys |-> [r \in Rows |-> IF column[r] = k THEN 1 ELSE 0]]
      BY <3>1, <3>2, FinishedLookups
    <3> QED BY <2>1, <3>3 DEF Index!Build
  <2> QED
    BY <2>2, <2>3, <2>4
    DEF BuildStep, buildVars, tableVars, Insert, Count, Prefix, Place, NextLoop, LoopEnd, Finalized
<1> QED BY InitIInv, NextIInv, <1>1, <1>2, PTL DEF BuildSpec, ImplementsIndex, Index!Spec


-----------------------------------------------------------------------------
(* The choice of the number of threads: rounding up ends.                  *)
LEMMA RoundUpPositive ==
  ASSUME NEW n \in Nat
  PROVE  RoundUp(n) \in Nat \ {0}
BY DoublingEnds, Zenon DEF RoundUp

LEMMA ThreadsPositive ==
  ASSUME NEW n \in ThreadCounts
  PROVE  n \in Nat \ {0}
<1>1. PICK s \in Settings : n = InnerThreads(s, Cardinality(BuildRows))
  BY DEF ThreadCounts
<1>2. Wanted(s) \in Nat
  BY SettingsAssumption DEF SettingsAssumption, Wanted
<1>3. \E w \in Nat : n = RoundUp(w)
  BY <1>1, <1>2 DEF InnerThreads
<1> QED BY <1>3, RoundUpPositive

-----------------------------------------------------------------------------
(* The pages of a column.                                                  *)
LEMMA PageSizes == ValuesPerPage \in Nat \ {0} /\ ChunkRows \in Nat \ {0} /\ ProbeSize \in Nat
BY SizesAssumption DEF SizesAssumption

LEMMA PagesForBounds ==
  ASSUME NEW n \in Nat
  PROVE  /\ PagesFor(n) \in Nat
         /\ n <= PagesFor(n) * ValuesPerPage /\ PagesFor(n) * ValuesPerPage < n + ValuesPerPage
BY PageSizes, CeilBounds DEF PagesFor

LEMMA PagesForUnique ==
  ASSUME NEW n \in Nat, NEW m \in Nat,
         n <= m * ValuesPerPage, m * ValuesPerPage < n + ValuesPerPage
  PROVE  PagesFor(n) = m
BY PageSizes, CeilUnique DEF PagesFor

(* A cell below the pages' capacity is on one of them, and two cells are   *)
(* not at the same place.                                                  *)
LEMMA CellPlace ==
  ASSUME NEW i \in Nat, NEW m \in Nat, i < m * ValuesPerPage
  PROVE  i \div ValuesPerPage + 1 \in 1 .. m /\ i % ValuesPerPage \in 0 .. ValuesPerPage - 1
<1>1. i \div ValuesPerPage \in 0 .. m - 1
  <2>1. i < ValuesPerPage * m  BY PageSizes, SMTT(30)
  <2> QED BY <2>1, PageSizes, DivInRange
<1>2. i % ValuesPerPage \in 0 .. ValuesPerPage - 1
  BY PageSizes, DivMod
<1> QED BY <1>1, <1>2

LEMMA CellsDiffer ==
  ASSUME NEW i \in Nat, NEW j \in Nat,
         i \div ValuesPerPage + 1 = j \div ValuesPerPage + 1, i % ValuesPerPage = j % ValuesPerPage
  PROVE  i = j
<1>1. /\ i \div ValuesPerPage \in Nat /\ j \div ValuesPerPage \in Nat
      /\ i = ValuesPerPage * (i \div ValuesPerPage) + (i % ValuesPerPage)
      /\ j = ValuesPerPage * (j \div ValuesPerPage) + (j % ValuesPerPage)
  BY PageSizes, DivMod
<1>2. i \div ValuesPerPage = j \div ValuesPerPage
  BY <1>1
<1> QED BY <1>1, <1>2

Pages == Seq(PageType)
RawColumn == [pages : Pages, num : Nat]

LEMMA WriteAtCell ==
  ASSUME NEW col \in RawColumn, NEW v \in Values,
         NEW i \in Nat, i < Len(col.pages) * ValuesPerPage
  PROVE  /\ WriteAt(col, i, v) \in RawColumn
         /\ WriteAt(col, i, v).num = col.num
         /\ Len(WriteAt(col, i, v).pages) = Len(col.pages)
         /\ ColumnAt(WriteAt(col, i, v), i) = v
         /\ \A j \in Nat : j # i /\ j < Len(col.pages) * ValuesPerPage =>
              ColumnAt(WriteAt(col, i, v), j) = ColumnAt(col, j)
<1> DEFINE a == i \div ValuesPerPage + 1
           b == i % ValuesPerPage
           ps == col.pages
           pg == [ps[a] EXCEPT ![b] = v]
           qs == [ps EXCEPT ![a] = pg]
           w == WriteAt(col, i, v)
<1>1. ps \in Seq(PageType) /\ Len(ps) \in Nat /\ col.num \in Nat
  BY DEF RawColumn, Pages
<1>2. a \in 1 .. Len(ps) /\ b \in 0 .. ValuesPerPage - 1
  BY <1>1, CellPlace
<1>3. w = [pages |-> qs, num |-> col.num]
  BY DEF WriteAt, RawColumn
<1> HIDE DEF a, b, w
<1>4. ps[a] \in PageType
  BY <1>1, <1>2
<1>5. pg \in PageType /\ pg[b] = v /\ \A d : d # b /\ d \in 0 .. ValuesPerPage - 1 => pg[d] = ps[a][d]
  BY <1>2, <1>4 DEF PageType
<1> HIDE DEF pg
<1>6. qs \in Seq(PageType) /\ Len(qs) = Len(ps) /\ qs[a] = pg
      /\ \A d \in 1 .. Len(ps) : d # a => qs[d] = ps[d]
  BY <1>1, <1>2, <1>5
<1> HIDE DEF qs
<1>7. w \in RawColumn /\ w.num = col.num /\ w.pages = qs
  BY <1>1, <1>3, <1>6 DEF RawColumn, Pages
<1>8. ColumnAt(w, i) = v
  BY <1>5, <1>6, <1>7 DEF ColumnAt, a, b
<1>9. ASSUME NEW j \in Nat, j # i, j < Len(col.pages) * ValuesPerPage
      PROVE  ColumnAt(w, j) = ColumnAt(col, j)
  <2> DEFINE c == j \div ValuesPerPage + 1
             d == j % ValuesPerPage
  <2>1. c \in 1 .. Len(ps) /\ d \in 0 .. ValuesPerPage - 1
    BY <1>1, <1>9, CellPlace
  <2>2. c # a \/ d # b
    BY <1>9, CellsDiffer DEF a, b
  <2>3. ColumnAt(w, j) = qs[c][d] /\ ColumnAt(col, j) = ps[c][d]
    BY <1>7 DEF ColumnAt
  <2> HIDE DEF c, d, ps
  <2> QED BY <1>5, <1>6, <2>1, <2>2, <2>3
<1> QED BY <1>6, <1>7, <1>8, <1>9 DEF w

LEMMA PushBackCell ==
  ASSUME NEW col \in ColumnType, NEW v \in Values
  PROVE  /\ PushBack(col, v) \in ColumnType
         /\ PushBack(col, v).num = col.num + 1
         /\ ColumnAt(PushBack(col, v), col.num) = v
         /\ \A j \in 0 .. col.num - 1 : ColumnAt(PushBack(col, v), j) = ColumnAt(col, j)
<1> DEFINE ps == col.pages
           n == col.num
           grown == IF HasRoom(col) THEN col ELSE [col EXCEPT !.pages = Append(@, BlankPage)]
           w == WriteAt(grown, n, v)
           x == [w EXCEPT !.num = @ + 1]
<1>1. /\ col \in RawColumn /\ ps \in Seq(PageType) /\ Len(ps) \in Nat /\ n \in Nat
      /\ Len(ps) = PagesFor(n)
  BY DEF ColumnType, RawColumn, Pages
<1> DEFINE m == Len(ps) * ValuesPerPage
<1>2. n <= m /\ m < n + ValuesPerPage /\ m \in Nat
  <2>1. m = PagesFor(n) * ValuesPerPage  BY <1>1
  <2> HIDE DEF m
  <2>2. n <= m /\ m < n + ValuesPerPage  BY <1>1, <2>1, PagesForBounds
  <2>3. m \in Nat  BY <1>1, PageSizes, SMTT(30) DEF m
  <2> QED BY <2>2, <2>3
<1>3. /\ grown \in RawColumn /\ grown.num = n
      /\ Len(grown.pages) = IF n < m THEN Len(ps) ELSE Len(ps) + 1
      /\ \A i \in 1 .. Len(ps) : grown.pages[i] = ps[i]
  <2>1. CASE n < m
    <3>1. HasRoom(col)  BY <2>1 DEF HasRoom
    <3> QED BY <1>1, <2>1, <3>1
  <2>2. CASE ~(n < m)
    <3>1. ~HasRoom(col)  BY <2>2 DEF HasRoom
    <3>2. BlankPage \in PageType  BY DEF BlankPage, PageType
    <3>3. grown = [pages |-> Append(ps, BlankPage), num |-> n]
      BY <3>1, <1>1 DEF RawColumn
    <3>4. Append(ps, BlankPage) \in Seq(PageType) /\ Len(Append(ps, BlankPage)) = Len(ps) + 1
          /\ \A i \in 1 .. Len(ps) : Append(ps, BlankPage)[i] = ps[i]
      BY <1>1, <3>2
    <3> HIDE DEF grown
    <3> QED BY <1>1, <2>2, <3>3, <3>4 DEF RawColumn, Pages
  <2> QED BY <2>1, <2>2
<1> HIDE DEF grown
<1> DEFINE k == Len(grown.pages)
<1>4. k \in Nat /\ n < k * ValuesPerPage /\ k * ValuesPerPage < (n + 1) + ValuesPerPage
      /\ m <= k * ValuesPerPage /\ k * ValuesPerPage \in Nat
  <2>1. CASE n < m
    <3>1. k = Len(ps)  BY <1>3, <2>1
    <3> QED BY <1>1, <1>2, <2>1, <3>1, PageSizes
  <2>2. CASE ~(n < m)
    <3>1. k = Len(ps) + 1  BY <1>3, <2>2
    <3> HIDE DEF k
    <3>2. k * ValuesPerPage = m + ValuesPerPage
      BY <1>1, <3>1, PageSizes, SMTT(30)
    <3> DEFINE kv == k * ValuesPerPage
    <3> HIDE DEF m, kv
    <3>3. kv = m + ValuesPerPage /\ n \in Nat /\ m \in Nat /\ n = m
      BY <1>1, <1>2, <2>2, <3>2 DEF kv
    <3>4. n < kv /\ kv < (n + 1) + ValuesPerPage /\ m <= kv /\ kv \in Nat
      BY <3>3, PageSizes
    <3>5. k \in Nat  BY <1>1, <3>1
    <3> QED BY <3>4, <3>5 DEF kv
  <2> QED BY <2>1, <2>2
<1>5. /\ w \in RawColumn /\ w.num = n /\ Len(w.pages) = k /\ ColumnAt(w, n) = v
      /\ \A j \in Nat : j # n /\ j < k * ValuesPerPage => ColumnAt(w, j) = ColumnAt(grown, j)
  BY <1>1, <1>3, <1>4, WriteAtCell
<1> HIDE DEF w
<1>6. x = [pages |-> w.pages, num |-> n + 1]
  BY <1>5 DEF RawColumn
<1>7. x \in RawColumn /\ x.num = n + 1 /\ x.pages = w.pages
  BY <1>1, <1>5, <1>6 DEF RawColumn
<1>8. PushBack(col, v) = x
  BY DEF PushBack, grown, w
<1> HIDE DEF x
<1>9. PagesFor(n + 1) = k
  <2>1. n + 1 \in Nat /\ n + 1 <= k * ValuesPerPage  BY <1>1, <1>4
  <2> QED BY <1>4, <2>1, PagesForUnique
<1>10. x \in ColumnType
  BY <1>5, <1>7, <1>9 DEF ColumnType, RawColumn, Pages
<1>11. \A j : ColumnAt(x, j) = ColumnAt(w, j)
  BY <1>7 DEF ColumnAt
<1>12. ASSUME NEW j \in 0 .. n - 1 PROVE ColumnAt(x, j) = ColumnAt(col, j)
  <2>1. j \in Nat /\ j # n /\ j < m /\ j < k * ValuesPerPage
    <3> HIDE DEF m, k
    <3> QED BY <1>1, <1>2, <1>4
  <2>2. j \div ValuesPerPage + 1 \in 1 .. Len(ps)
    BY <1>1, <2>1, CellPlace
  <2>3. ColumnAt(grown, j) = ColumnAt(col, j)
    BY <1>3, <2>2 DEF ColumnAt
  <2> QED BY <1>5, <1>11, <2>1, <2>3
<1> QED BY <1>5, <1>7, <1>8, <1>10, <1>11, <1>12

-----------------------------------------------------------------------------
(* The matches of a probe row: every entry with its key, once.             *)
LEMMA PairInjective ==
  ASSUME NEW e, NEW p, NEW f, NEW q, buildLeft \in BOOLEAN, Pair(e, p) = Pair(f, q)
  PROVE  e = f /\ p = q
BY DEF Pair

PairsOf(E) == {Pair(e[1], e[2]) : e \in E}

LEMMA PairsApart ==
  ASSUME buildLeft \in BOOLEAN, NEW A, NEW B, NEW e \in A \X B, NEW f \in A \X B,
         Pair(e[1], e[2]) = Pair(f[1], f[2])
  PROVE  e = f
<1>1. e[1] = f[1] /\ e[2] = f[2]  BY PairInjective
<1> QED BY <1>1

(* One match more in a list. *)
MatchLists == Seq(Values \X Values)

LEMMA ListsAppend ==
  ASSUME buildLeft \in BOOLEAN, NEW s \in MatchLists, NEW E, E \subseteq BuildRows \X ProbeRows,
         NEW e \in BuildRows \X ProbeRows, e \notin E, Lists(s, E)
  PROVE  Lists(Append(s, Pair(e[1], e[2])), E \cup {e})
<1> DEFINE x == Pair(e[1], e[2])
           t == Append(s, x)
<1>1. /\ Len(s) \in Nat /\ Len(t) = Len(s) + 1 /\ t[Len(s) + 1] = x
      /\ \A i \in 1 .. Len(s) : t[i] = s[i]
  BY DEF MatchLists
<1> HIDE DEF t
<1>2. \A i \in 1 .. Len(t) : i \in 1 .. Len(s) \/ i = Len(s) + 1
  BY <1>1
<1>3. ASSUME NEW i \in 1 .. Len(s) PROVE s[i] # x
  <2>1. PICK f \in E : s[i] = Pair(f[1], f[2])  BY DEF Lists
  <2>2. f \in BuildRows \X ProbeRows /\ f # e  OBVIOUS
  <2> QED BY <2>1, <2>2, PairsApart
<1> HIDE DEF x
<1>4. \A i \in 1 .. Len(t) : \E f \in E \cup {e} : t[i] = Pair(f[1], f[2])
  BY <1>1, <1>2 DEF Lists, x
<1>5. \A i, j \in 1 .. Len(t) : t[i] = t[j] => i = j
  BY <1>1, <1>2, <1>3 DEF Lists
<1>6. ASSUME NEW f \in E \cup {e} PROVE \E i \in 1 .. Len(t) : t[i] = Pair(f[1], f[2])
  <2>1. CASE f = e
    <3>1. Len(s) + 1 \in 1 .. Len(t)  BY <1>1
    <3> QED BY <1>1, <2>1, <3>1 DEF x
  <2>2. CASE f \in E
    <3>1. PICK i \in 1 .. Len(s) : s[i] = Pair(f[1], f[2])  BY <2>2 DEF Lists
    <3>2. i \in 1 .. Len(t) /\ t[i] = s[i]  BY <1>1
    <3> QED BY <3>1, <3>2
  <2> QED BY <2>1, <2>2
<1> QED BY <1>4, <1>5, <1>6 DEF Lists, t, x

LEMMA RowMatchesExact ==
  ASSUME probeColumn \in [ProbeRows -> Keys \cup {Null}], buildLeft \in BOOLEAN,
         NEW p \in ProbeRows
  PROVE  RowMatches(p) \in Seq(Values \X Values) /\ Lists(RowMatches(p), Joined({p}))
<1> DEFINE k == probeColumn[p]
           D == Seq(Values \X Values)
           N == Len(Entries[k])
           R(f) == f = [i \in 0 .. N |->
                          IF i = 0 THEN <<>>
                          ELSE IF SameKey(Entries[k][i], k) THEN Append(f[i - 1], Pair(Entries[k][i], p))
                          ELSE f[i - 1]]
           found == CHOOSE f : R(f)
<1>1. RowMatches(p) = IF k = Null THEN <<>> ELSE found[N]
  BY DEF RowMatches
<1>2. CASE k = Null
  <2>1. Joined({p}) = {}
    BY <1>2, EntriesAssumption DEF EntriesAssumption, Joined
  <2>2. <<>> \in D /\ Len(<<>>) = 0  OBVIOUS
  <2>3. Lists(<<>>, {})  BY <2>2 DEF Lists
  <2>4. RowMatches(p) = <<>>  BY <1>1, <1>2
  <2> QED BY <2>1, <2>2, <2>3, <2>4
<1>3. CASE k # Null
  <2>1. k \in Keys  BY <1>3
  <2> DEFINE s == Entries[k]
  <2>2. /\ s \in Seq(BuildRows) /\ BuildKey \in [BuildRows -> Keys]
        /\ \A i, j \in 1 .. Len(s) : s[i] = s[j] => i = j
        /\ \A r \in BuildRows : BuildKey[r] = k => \E i \in 1 .. Len(s) : s[i] = r
    <3>1. s \in Seq(BuildRows)  BY <2>1, EntriesAssumption DEF EntriesAssumption
    <3>2. DOMAIN s = 1 .. Len(s)  BY <3>1
    <3> QED BY <2>1, <3>1, <3>2, EntriesAssumption DEF EntriesAssumption
  <2> HIDE DEF k, s
  <2>3. N \in Nat /\ N = Len(s) /\ \A i \in 1 .. N : s[i] \in BuildRows
    BY <2>2 DEF s
  <2> HIDE DEF N
  <2>4. \A i \in 1 .. N : Pair(s[i], p) \in Values \X Values
    BY <2>3 DEF Pair, Values
  <2>5. \E f : R(f)
    <3> DEFINE G == [x \in (1 .. N) \X D |->
                       IF SameKey(s[x[1]], k) THEN Append(x[2], Pair(s[x[1]], p)) ELSE x[2]]
    <3>1. ASSUME NEW x \in (1 .. N) \X D PROVE G[x] \in D
      <4>1. x[1] \in 1 .. N /\ x[2] \in D  OBVIOUS
      <4> QED BY <2>4, <4>1
    <3>2. G \in StepsOf(N, D)  BY <3>1 DEF StepsOf
    <3>3. <<>> \in D  OBVIOUS
    <3>4. PICK f : Iterates(f, N, D, <<>>, G)
      <4> HIDE DEF G, D
      <4> QED BY <2>3, <3>2, <3>3, RecursionExists
    <3>5. ASSUME NEW i \in 1 .. N
          PROVE  f[i] = IF SameKey(s[i], k) THEN Append(f[i - 1], Pair(s[i], p)) ELSE f[i - 1]
      <4>1. i - 1 \in 0 .. N  BY <2>3
      <4>2. <<i, f[i - 1]>> \in (1 .. N) \X D /\ f[i] = G[<<i, f[i - 1]>>]
        BY <3>4, <4>1 DEF Iterates
      <4> HIDE DEF D
      <4> QED BY <4>2
    <3>6. R(f)
      <4>1. \A i \in 0 .. N : i # 0 => i \in 1 .. N  BY <2>3
      <4> HIDE DEF G, D
      <4> QED BY <3>4, <3>5, <4>1 DEF Iterates, s
    <3> QED BY <3>6
  <2> HIDE DEF R
  <2>6. R(found)  BY <2>5, Zenon
  <2> HIDE DEF found
  <2>7. /\ found[0] = <<>>
        /\ \A i \in 1 .. N : found[i] = IF SameKey(s[i], k) THEN Append(found[i - 1], Pair(s[i], p))
                                        ELSE found[i - 1]
    <3>1. \A i \in 0 .. N : found[i] = IF i = 0 THEN <<>>
                                     ELSE IF SameKey(s[i], k) THEN Append(found[i - 1], Pair(s[i], p))
                                     ELSE found[i - 1]
      BY <2>6 DEF R, s
    <3>2. 0 \in 0 .. N /\ \A i \in 1 .. N : i \in 0 .. N /\ i # 0  BY <2>3
    <3> QED BY <3>1, <3>2
  <2> DEFINE M(i) == {e \in Joined({p}) : \E j \in 1 .. i : s[j] = e[1]}
             T == {i \in Nat : i <= N => found[i] \in D /\ Lists(found[i], M(i))}
  <2>8. 0 \in T
    <3>1. <<>> \in D /\ Len(<<>>) = 0 /\ M(0) = {}  OBVIOUS
    <3> HIDE DEF D, M
    <3> QED BY <2>7, <3>1 DEF Lists
  <2>9. ASSUME NEW i \in Nat, i \in T PROVE i + 1 \in T
    <3> SUFFICES ASSUME i + 1 <= N PROVE found[i + 1] \in D /\ Lists(found[i + 1], M(i + 1))
      OBVIOUS
    <3>1. /\ found[i] \in D /\ Lists(found[i], M(i)) /\ i + 1 \in 1 .. N /\ (i + 1) - 1 = i
          /\ s[i + 1] \in BuildRows /\ Pair(s[i + 1], p) \in Values \X Values
      BY <2>3, <2>4, <2>9
    <3> DEFINE e == <<s[i + 1], p>>
    <3>2. e \in BuildRows \X ProbeRows /\ e[1] = s[i + 1] /\ e[2] = p  BY <3>1
    <3>3. \A j \in 1 .. i + 1 : j \in 1 .. i \/ j = i + 1  OBVIOUS
    <3>4. \A j \in 1 .. i : j \in 1 .. i + 1 /\ j # i + 1  OBVIOUS
    <3>5. \A f \in Joined({p}) : f \in BuildRows \X ProbeRows /\ f = <<f[1], p>> /\ BuildKey[f[1]] = k
      BY DEF Joined, k
    <3> HIDE DEF e
    <3>6. CASE SameKey(s[i + 1], k)
      <4>1. e \in Joined({p})  BY <3>1, <3>6 DEF e, SameKey, Joined, k
      <4>2. M(i + 1) = M(i) \cup {e}
        <5> SUFFICES ASSUME NEW f \in Joined({p})
                     PROVE  (\E j \in 1 .. i + 1 : s[j] = f[1]) <=> (\E j \in 1 .. i : s[j] = f[1]) \/ f = e
          BY <4>1
        <5>1. f = e <=> f[1] = s[i + 1]  BY <3>5 DEF e
        <5> QED BY <3>3, <3>4, <5>1
      <4>3. e \notin M(i)
        <5>1. \A j \in 1 .. i : s[j] # s[i + 1]  BY <2>2, <2>3, <3>1, <3>4
        <5> QED BY <3>2, <5>1
      <4>4. found[i + 1] = Append(found[i], Pair(e[1], e[2]))
        BY <2>7, <3>1, <3>2, <3>6
      <4>5. M(i) \subseteq BuildRows \X ProbeRows  BY <3>5
      <4>6. found[i + 1] \in D  BY <3>1, <3>2, <4>4
      <4>8. found[i] \in MatchLists  BY <3>1 DEF MatchLists
      <4> HIDE DEF M
      <4>9. Lists(Append(found[i], Pair(e[1], e[2])), M(i) \cup {e})
        <5> HIDE DEF D
        <5>1. Lists(found[i], M(i)) BY <3>1
        <5> QED BY <5>1, <3>2, <4>3, <4>5, <4>8, ListsAppend
      <4>7. Lists(found[i + 1], M(i + 1))
        BY <4>2, <4>4, <4>9
      <4> QED BY <4>6, <4>7
    <3>7. CASE ~SameKey(s[i + 1], k)
      <4>1. M(i + 1) = M(i)
        BY <3>3, <3>4, <3>5, <3>7 DEF SameKey
      <4>2. found[i + 1] = found[i]  BY <2>7, <3>1, <3>7
      <4> HIDE DEF M, D
      <4> QED BY <3>1, <4>1, <4>2
    <3> QED BY <3>6, <3>7
  <2>10. found[N] \in D /\ Lists(found[N], M(N))
    <3> HIDE DEF T
    <3>1. N \in T  BY <2>3, <2>8, <2>9, NatSetInduction
    <3> QED BY <2>3, <3>1 DEF T
  <2>11. M(N) = Joined({p})
    BY <2>2, <2>3 DEF Joined, k
  <2> QED BY <1>1, <1>3, <2>10, <2>11 DEF k, N, s
<1> QED BY <1>2, <1>3

(* Two lists of different matches, one after the other. *)
LEMMA ListsConcat ==
  ASSUME buildLeft \in BOOLEAN, NEW s \in MatchLists, NEW t \in MatchLists,
         NEW E, NEW F, E \subseteq BuildRows \X ProbeRows, F \subseteq BuildRows \X ProbeRows,
         E \cap F = {}, Lists(s, E), Lists(t, F)
  PROVE  s \o t \in MatchLists /\ Lists(s \o t, E \cup F)
<1> DEFINE w == s \o t
           n == Len(s)
<1>1. /\ n \in Nat /\ Len(t) \in Nat /\ w \in MatchLists /\ Len(w) = n + Len(t)
      /\ \A i \in 1 .. n : w[i] = s[i]
      /\ \A i \in 1 .. Len(t) : w[n + i] = t[i]
  BY DEF MatchLists
<1> HIDE DEF w, n
<1>2. \A i \in 1 .. Len(w) : i \in 1 .. n \/ (i - n \in 1 .. Len(t) /\ n + (i - n) = i)
  BY <1>1
<1>3. \A i \in 1 .. n : i \in 1 .. Len(w)
  BY <1>1
<1>4. \A i \in 1 .. Len(t) : n + i \in 1 .. Len(w)
  BY <1>1
<1>5. ASSUME NEW i \in 1 .. n, NEW j \in 1 .. Len(t) PROVE s[i] # t[j]
  <2>1. PICK e \in E : s[i] = Pair(e[1], e[2])  BY DEF Lists, n
  <2>2. PICK f \in F : t[j] = Pair(f[1], f[2])  BY DEF Lists
  <2>3. e \in BuildRows \X ProbeRows /\ f \in BuildRows \X ProbeRows /\ e # f  OBVIOUS
  <2> QED BY <2>1, <2>2, <2>3, PairsApart
<1>6. ASSUME NEW i \in 1 .. Len(w) PROVE \E e \in E \cup F : w[i] = Pair(e[1], e[2])
  <2>1. CASE i \in 1 .. n  BY <1>1, <2>1 DEF Lists, n
  <2>2. CASE i - n \in 1 .. Len(t) /\ n + (i - n) = i
    <3>1. w[i] = t[i - n]  BY <1>1, <2>2
    <3> QED BY <2>2, <3>1 DEF Lists
  <2> QED BY <1>2, <2>1, <2>2
<1>7. ASSUME NEW i \in 1 .. Len(w), NEW j \in 1 .. Len(w), w[i] = w[j] PROVE i = j
  <2>1. \A a, b \in 1 .. n : s[a] = s[b] => a = b  BY DEF Lists, n
  <2>2. \A a, b \in 1 .. Len(t) : t[a] = t[b] => a = b  BY DEF Lists
  <2>3. CASE i \in 1 .. n /\ j \in 1 .. n  BY <1>1, <1>7, <2>1, <2>3
  <2>4. CASE i \in 1 .. n /\ j - n \in 1 .. Len(t) /\ n + (j - n) = j
    <3>1. w[j] = t[j - n]  BY <1>1, <2>4
    <3> QED BY <1>1, <1>5, <1>7, <2>4, <3>1
  <2>5. CASE j \in 1 .. n /\ i - n \in 1 .. Len(t) /\ n + (i - n) = i
    <3>1. w[i] = t[i - n]  BY <1>1, <2>5
    <3> QED BY <1>1, <1>5, <1>7, <2>5, <3>1
  <2>6. CASE /\ i - n \in 1 .. Len(t) /\ n + (i - n) = i
             /\ j - n \in 1 .. Len(t) /\ n + (j - n) = j
    <3>1. w[i] = t[i - n] /\ w[j] = t[j - n]  BY <1>1, <2>6
    <3>2. i - n = j - n  BY <1>7, <2>2, <2>6, <3>1
    <3> QED BY <2>6, <3>2
  <2> QED BY <1>2, <2>3, <2>4, <2>5, <2>6
<1>8. ASSUME NEW e \in E \cup F PROVE \E i \in 1 .. Len(w) : w[i] = Pair(e[1], e[2])
  <2>1. CASE e \in E
    <3>1. PICK i \in 1 .. n : s[i] = Pair(e[1], e[2])  BY <2>1 DEF Lists, n
    <3> QED BY <1>1, <1>3, <3>1
  <2>2. CASE e \in F
    <3>1. PICK i \in 1 .. Len(t) : t[i] = Pair(e[1], e[2])  BY <2>2 DEF Lists
    <3> QED BY <1>1, <1>4, <3>1
  <2> QED BY <2>1, <2>2
<1> QED BY <1>1, <1>6, <1>7, <1>8 DEF Lists, w

(* The loop of emit_row over the matches of a row. *)
LEMMA AppendAllCells ==
  ASSUME FromLeft \in [Columns -> BOOLEAN], NEW col \in ColumnType, NEW c \in Columns,
         NEW pairs \in MatchLists
  PROVE  /\ AppendAll(col, c, pairs) \in ColumnType
         /\ AppendAll(col, c, pairs).num = col.num + Len(pairs)
         /\ \A j \in 0 .. col.num - 1 : ColumnAt(AppendAll(col, c, pairs), j) = ColumnAt(col, j)
         /\ \A i \in 1 .. Len(pairs) :
              ColumnAt(AppendAll(col, c, pairs), col.num + i - 1) = Pick(c, pairs[i])
<1> DEFINE N == Len(pairs)
           R(f) == f = [i \in 0 .. N |-> IF i = 0 THEN col ELSE PushBack(f[i - 1], Pick(c, pairs[i]))]
           after == CHOOSE f : R(f)
<1>1. AppendAll(col, c, pairs) = after[N]
  BY DEF AppendAll
<1>2. N \in Nat /\ \A i \in 1 .. N : Pick(c, pairs[i]) \in Values
  BY DEF MatchLists, Pick
<1> HIDE DEF N
<1>3. \E f : R(f)
  <2> DEFINE G == [x \in (1 .. N) \X ColumnType |-> PushBack(x[2], Pick(c, pairs[x[1]]))]
  <2>1. ASSUME NEW x \in (1 .. N) \X ColumnType PROVE G[x] \in ColumnType
    <3>1. x[1] \in 1 .. N /\ x[2] \in ColumnType  OBVIOUS
    <3>2. PushBack(x[2], Pick(c, pairs[x[1]])) \in ColumnType
      BY <1>2, <3>1, PushBackCell
    <3> QED BY <3>2
  <2>2. G \in StepsOf(N, ColumnType)  BY <2>1 DEF StepsOf
  <2>3. PICK f : Iterates(f, N, ColumnType, col, G)
    <3> HIDE DEF G
    <3> QED BY <1>2, <2>2, RecursionExists
  <2>4. ASSUME NEW i \in 1 .. N PROVE f[i] = PushBack(f[i - 1], Pick(c, pairs[i]))
    <3>1. i - 1 \in 0 .. N  BY <1>2
    <3>2. <<i, f[i - 1]>> \in (1 .. N) \X ColumnType /\ f[i] = G[<<i, f[i - 1]>>]
      BY <2>3, <3>1 DEF Iterates
    <3> QED BY <3>2
  <2>5. R(f)
    <3>1. \A i \in 0 .. N : i # 0 => i \in 1 .. N  BY <1>2
    <3> HIDE DEF G
    <3> QED BY <2>3, <2>4, <3>1 DEF Iterates
  <2> QED BY <2>5
<1> HIDE DEF R
<1>4. R(after)  BY <1>3, Zenon
<1> HIDE DEF after
<1>5. after[0] = col /\ \A i \in 1 .. N : after[i] = PushBack(after[i - 1], Pick(c, pairs[i]))
  <2>1. \A i \in 0 .. N : after[i] = IF i = 0 THEN col ELSE PushBack(after[i - 1], Pick(c, pairs[i]))
    BY <1>4 DEF R
  <2>2. 0 \in 0 .. N /\ \A i \in 1 .. N : i \in 0 .. N /\ i # 0  BY <1>2
  <2> QED BY <2>1, <2>2
<1> DEFINE n == col.num
           Holds(i) == /\ after[i] \in ColumnType /\ after[i].num = n + i
                       /\ \A j \in 0 .. n - 1 : ColumnAt(after[i], j) = ColumnAt(col, j)
                       /\ \A j \in 1 .. i : ColumnAt(after[i], n + j - 1) = Pick(c, pairs[j])
           T == {i \in Nat : i <= N => Holds(i)}
<1>6. n \in Nat  BY DEF ColumnType
<1> HIDE DEF n
<1>7. 0 \in T
  BY <1>5, <1>6 DEF n
<1>8. ASSUME NEW i \in Nat, i \in T PROVE i + 1 \in T
  <2> SUFFICES ASSUME i + 1 <= N PROVE Holds(i + 1)
    OBVIOUS
  <2>1. Holds(i) /\ i + 1 \in 1 .. N /\ (i + 1) - 1 = i  BY <1>2, <1>8
  <2> DEFINE d == after[i]
             v == Pick(c, pairs[i + 1])
  <2>2. after[i + 1] = PushBack(d, v) /\ v \in Values /\ d \in ColumnType /\ d.num = n + i
    BY <1>2, <1>5, <2>1
  <2> HIDE DEF d, v
  <2>3. /\ after[i + 1] \in ColumnType /\ after[i + 1].num = n + i + 1
        /\ ColumnAt(after[i + 1], n + i) = v
        /\ \A j \in 0 .. n + i - 1 : ColumnAt(after[i + 1], j) = ColumnAt(d, j)
    BY <1>6, <2>2, PushBackCell
  <2>4. \A j \in 0 .. n - 1 : ColumnAt(after[i + 1], j) = ColumnAt(col, j)
    <3>1. \A j \in 0 .. n - 1 : j \in 0 .. n + i - 1  BY <1>6
    <3> QED BY <2>1, <2>3, <3>1 DEF d
  <2>5. ASSUME NEW j \in 1 .. i + 1 PROVE ColumnAt(after[i + 1], n + j - 1) = Pick(c, pairs[j])
    <3>1. CASE j = i + 1
      <4>1. n + j - 1 = n + i  BY <1>6, <3>1
      <4> QED BY <2>3, <3>1, <4>1 DEF v
    <3>2. CASE j # i + 1
      <4>1. j \in 1 .. i /\ n + j - 1 \in 0 .. n + i - 1  BY <1>6, <3>2
      <4> QED BY <2>1, <2>3, <4>1 DEF d
    <3> QED BY <3>1, <3>2
  <2> QED BY <1>6, <2>3, <2>4, <2>5
<1>9. Holds(N)
  <2> HIDE DEF T
  <2>1. N \in T  BY <1>2, <1>7, <1>8, NatSetInduction
  <2> QED BY <1>2, <2>1 DEF T
<1> QED BY <1>1, <1>9 DEF n, N

-----------------------------------------------------------------------------
(* The ranges of output rows: one after the other, from the first row to   *)
(* the last.                                                               *)
EndRow(t) == Offsets[t] + Len(matches[t])
RangesSplitRows ==
  /\ Offsets \in [Threads -> Nat] /\ TotalRows \in Nat
  /\ \A t \in Threads : Len(matches[t]) \in Nat /\ EndRow(t) \in Nat /\ EndRow(t) <= TotalRows
  /\ \A t, u \in Threads : t < u => EndRow(t) <= Offsets[u]
  /\ \A i \in 0 .. TotalRows - 1 : \E t \in Threads : Offsets[t] <= i /\ i < EndRow(t)

LEMMA OffsetsExact ==
  ASSUME numThreads \in Nat \ {0}, matches \in [Threads -> MatchLists]
  PROVE  RangesSplitRows
<1> DEFINE N == numThreads - 1
           len(t) == Len(matches[t])
           R(f) == f = [t \in Threads |-> IF t = 0 THEN 0 ELSE f[t - 1] + len(t - 1)]
           off == Offsets
<1>1. N \in Nat /\ Threads = 0 .. N
  BY DEF Threads
<1> HIDE DEF N
<1>2. \A t \in 0 .. N : len(t) \in Nat
  BY <1>1 DEF MatchLists
<1> HIDE DEF len
<1>3. off = CHOOSE f : R(f)
  BY DEF Offsets, len
<1>4. \E f : R(f)
  <2> DEFINE G == [x \in (1 .. N) \X Nat |-> x[2] + len(x[1] - 1)]
  <2>1. ASSUME NEW x \in (1 .. N) \X Nat PROVE G[x] \in Nat
    <3>1. x[1] - 1 \in 0 .. N /\ x[2] \in Nat  BY <1>1
    <3> QED BY <1>2, <3>1
  <2>2. G \in StepsOf(N, Nat)  BY <2>1 DEF StepsOf
  <2>3. PICK f : Iterates(f, N, Nat, 0, G)
    <3> HIDE DEF G
    <3>1. 0 \in Nat  OBVIOUS
    <3> QED BY <1>1, <2>2, <3>1, RecursionExists
  <2>4. ASSUME NEW i \in 1 .. N PROVE f[i] = f[i - 1] + len(i - 1)
    <3>1. i - 1 \in 0 .. N  BY <1>1
    <3>2. <<i, f[i - 1]>> \in (1 .. N) \X Nat /\ f[i] = G[<<i, f[i - 1]>>]
      BY <2>3, <3>1 DEF Iterates
    <3> QED BY <3>2
  <2>5. R(f)
    <3>1. \A i \in 0 .. N : i # 0 => i \in 1 .. N  BY <1>1
    <3> HIDE DEF G
    <3> QED BY <1>1, <2>3, <2>4, <3>1 DEF Iterates
  <2> QED BY <2>5
<1> HIDE DEF off, R
<1>5. R(off)  BY <1>3, <1>4, Zenon
<1>6. off[0] = 0 /\ \A t \in 1 .. N : off[t] = off[t - 1] + len(t - 1)
  <2>1. \A t \in 0 .. N : off[t] = IF t = 0 THEN 0 ELSE off[t - 1] + len(t - 1)
    BY <1>1, <1>5 DEF R
  <2>2. 0 \in 0 .. N /\ \A t \in 1 .. N : t \in 0 .. N /\ t # 0  BY <1>1
  <2> QED BY <2>1, <2>2
<1>7. off = [t \in Threads |-> off[t]]
  BY <1>5 DEF R
<1> DEFINE Good(u) == /\ off[u] \in Nat
                      /\ \A t \in 0 .. u - 1 : off[t] + len(t) <= off[u]
                      /\ \A i \in 0 .. off[u] - 1 : \E t \in 0 .. u - 1 : off[t] <= i /\ i < off[t] + len(t)
           T == {u \in Nat : u <= N => \A v \in 0 .. u : Good(v)}
<1>8. 0 \in T
  BY <1>6
<1> HIDE DEF Good
<1>9. ASSUME NEW u \in Nat, u \in T PROVE u + 1 \in T
  <2> SUFFICES ASSUME u + 1 <= N PROVE Good(u + 1)
    <3>1. \A v \in 0 .. u + 1 : v \in 0 .. u \/ v = u + 1  OBVIOUS
    <3>2. u + 1 <= N => u <= N  BY <1>1
    <3> QED BY <1>9, <3>1, <3>2
  <2>1. \A v \in 0 .. u : Good(v)  BY <1>1, <1>9
  <2>2. off[u + 1] = off[u] + len(u) /\ len(u) \in Nat /\ off[u] \in Nat
    <3>1. u + 1 \in 1 .. N /\ (u + 1) - 1 = u /\ u \in 0 .. N /\ u \in 0 .. u  BY <1>1
    <3> QED BY <1>2, <1>6, <2>1, <3>1 DEF Good
  <2>3. ASSUME NEW t \in 0 .. (u + 1) - 1 PROVE off[t] + len(t) <= off[u + 1]
    <3>1. CASE t = u  BY <2>2, <3>1
    <3>2. CASE t # u
      <4>1. t \in 0 .. u - 1 /\ t \in 0 .. u /\ t \in 0 .. N /\ u \in 0 .. u  BY <1>1, <3>2
      <4>2. off[t] + len(t) <= off[u] /\ off[t] \in Nat /\ len(t) \in Nat  BY <1>2, <2>1, <4>1 DEF Good
      <4> QED BY <2>2, <4>2
    <3> QED BY <3>1, <3>2
  <2>4. ASSUME NEW i \in 0 .. off[u + 1] - 1
        PROVE  \E t \in 0 .. (u + 1) - 1 : off[t] <= i /\ i < off[t] + len(t)
    <3>1. CASE i < off[u]
      <4>1. i \in 0 .. off[u] - 1 /\ u \in 0 .. u  BY <2>2, <3>1
      <4>2. PICK t \in 0 .. u - 1 : off[t] <= i /\ i < off[t] + len(t)  BY <2>1, <4>1 DEF Good
      <4>3. t \in 0 .. (u + 1) - 1  OBVIOUS
      <4> QED BY <4>2, <4>3
    <3>2. CASE ~(i < off[u])
      <4>1. u \in 0 .. (u + 1) - 1 /\ off[u] <= i /\ i < off[u] + len(u)  BY <2>2, <3>2
      <4> QED BY <4>1
    <3> QED BY <3>1, <3>2
  <2> QED BY <2>2, <2>3, <2>4 DEF Good
<1>10. \A u \in 0 .. N : Good(u)
  <2> HIDE DEF T, Good
  <2>1. N \in T  BY <1>1, <1>8, <1>9, NatSetInduction
  <2> QED BY <1>1, <2>1 DEF T
<1>11. off \in [Threads -> Nat]  BY <1>1, <1>7, <1>10 DEF Good
<1>12. \A t \in Threads : EndRow(t) = off[t] + len(t) /\ EndRow(t) \in Nat
  BY <1>1, <1>2, <1>11 DEF EndRow, off, len
<1>13. TotalRows = off[N] + len(N) /\ N \in Threads
  BY <1>1 DEF TotalRows, off, len, N
<1>14. \A t, u \in Threads : t < u => EndRow(t) <= off[u]
  <2> SUFFICES ASSUME NEW t \in Threads, NEW u \in Threads, t < u PROVE EndRow(t) <= off[u]
    OBVIOUS
  <2>1. t \in 0 .. u - 1 /\ u \in 0 .. N  BY <1>1
  <2> QED BY <1>10, <1>12, <2>1 DEF Good
<1>15. \A t \in Threads : EndRow(t) <= TotalRows
  <2> SUFFICES ASSUME NEW t \in Threads PROVE EndRow(t) <= TotalRows
    OBVIOUS
  <2>1. CASE t = N  BY <1>12, <1>13, <2>1
  <2>2. CASE t # N
    <3>1. t < N  BY <1>1, <2>2
    <3>2. EndRow(t) <= off[N] /\ off[N] \in Nat /\ len(N) \in Nat /\ EndRow(t) \in Nat
      BY <1>1, <1>2, <1>11, <1>12, <1>13, <1>14, <3>1
    <3> QED BY <1>13, <3>2
  <2> QED BY <2>1, <2>2
<1>16. ASSUME NEW i \in 0 .. TotalRows - 1 PROVE \E t \in Threads : off[t] <= i /\ i < EndRow(t)
  <2>0. off[N] \in Nat /\ len(N) \in Nat  BY <1>1, <1>2, <1>11, <1>13
  <2>1. CASE i < off[N]
    <3>1. i \in 0 .. off[N] - 1 /\ N \in 0 .. N  BY <1>1, <2>0, <2>1
    <3>2. PICK t \in 0 .. N - 1 : off[t] <= i /\ i < off[t] + len(t)  BY <1>10, <3>1 DEF Good
    <3>3. t \in Threads  BY <1>1
    <3> QED BY <1>12, <3>2, <3>3
  <2>2. CASE ~(i < off[N])  BY <1>12, <1>13, <2>0, <2>2
  <2> QED BY <2>1, <2>2
<1>17. TotalRows \in Nat
  BY <1>1, <1>2, <1>11, <1>13
<1> QED BY <1>1, <1>2, <1>11, <1>12, <1>14, <1>15, <1>16, <1>17 DEF RangesSplitRows, off, len

LEMMA OffsetsKept ==
  ASSUME UNCHANGED <<numThreads, matches>>
  PROVE  Offsets' = Offsets /\ TotalRows' = TotalRows /\ Threads' = Threads /\ UseWorkers' = UseWorkers
<1>1. Threads' = Threads /\ UseWorkers' = UseWorkers  BY DEF Threads, UseWorkers
<1>2. Offsets' = Offsets  BY <1>1 DEF Offsets
<1> QED BY <1>1, <1>2 DEF TotalRows

-----------------------------------------------------------------------------
(* The invariant holds in the beginning.                                   *)
LEMMA ChunkFacts ==
  /\ ProbePages \in Nat
  /\ \A page \in Nat : /\ page * ChunkRows \in Nat
                       /\ (page + 1) * ChunkRows = page * ChunkRows + ChunkRows
                       /\ page < ProbePages => page * ChunkRows < ProbeSize
                       /\ ProbePages <= page => ProbeSize <= page * ChunkRows
<1> DEFINE x == ProbeSize + ChunkRows - 1
           q == x \div ChunkRows
<1>1. x \in Nat /\ x = ProbeSize + ChunkRows - 1
  BY PageSizes
<1> HIDE DEF x
<1>2. q \in Nat /\ ChunkRows * q <= x /\ x < ChunkRows * (q + 1)
  BY <1>1, PageSizes, DivBounds
<1>3. ProbePages = q
  BY DEF ProbePages, x
<1> HIDE DEF q
<1>4. \A page \in Nat : /\ page * ChunkRows \in Nat /\ ChunkRows * page = page * ChunkRows
                        /\ (page + 1) * ChunkRows = page * ChunkRows + ChunkRows
  BY PageSizes, SMTT(30)
<1>5. q * ChunkRows <= x /\ x < q * ChunkRows + ChunkRows
  <2>1. ChunkRows * (q + 1) = (q + 1) * ChunkRows /\ ChunkRows * q = q * ChunkRows
        /\ (q + 1) * ChunkRows = q * ChunkRows + ChunkRows
    BY <1>2, <1>4
  <2> QED BY <1>2, <2>1
<1>6. ASSUME NEW page \in Nat, page < q PROVE page * ChunkRows < ProbeSize
  <2>1. (page + 1) * ChunkRows <= q * ChunkRows
    BY <1>2, <1>6, PageSizes, TimesMonotonic
  <2>2. page * ChunkRows \in Nat /\ (page + 1) * ChunkRows = page * ChunkRows + ChunkRows
        /\ q * ChunkRows \in Nat
    BY <1>2, <1>4
  <2> QED BY <1>1, <1>5, <2>1, <2>2, PageSizes
<1>7. ASSUME NEW page \in Nat, q <= page PROVE ProbeSize <= page * ChunkRows
  <2>1. q * ChunkRows <= page * ChunkRows
    BY <1>2, <1>7, PageSizes, TimesMonotonic
  <2>2. page * ChunkRows \in Nat /\ q * ChunkRows \in Nat
    BY <1>2, <1>4
  <2> QED BY <1>1, <1>5, <2>1, <2>2, PageSizes
<1> QED BY <1>2, <1>3, <1>4, <1>6, <1>7

LEMMA EmptyColumnOK == EmptyColumn \in ColumnType
<1>1. PagesFor(0) = 0
  <2>1. 0 \in Nat /\ 0 * ValuesPerPage = 0  BY PageSizes
  <2>2. 0 <= 0 * ValuesPerPage /\ 0 * ValuesPerPage < 0 + ValuesPerPage  BY <2>1, PageSizes
  <2> QED BY <2>1, <2>2, PagesForUnique
<1>2. <<>> \in Seq(PageType) /\ Len(<<>>) = 0  OBVIOUS
<1>3. EmptyColumn.pages = <<>> /\ EmptyColumn.num = 0 /\ EmptyColumn \in [pages : Seq(PageType), num : Nat]
  BY <1>2 DEF EmptyColumn
<1> QED BY <1>1, <1>2, <1>3 DEF ColumnType

LEMMA JoinInit == Init => JoinInv
<1> SUFFICES ASSUME Init PROVE JoinInv
  OBVIOUS
<1>1. numThreads \in Nat \ {0} /\ ProbeSize \in Nat
  BY ThreadsPositive, PageSizes DEF Init
<1>2. /\ probeColumn \in [ProbeRows -> Keys \cup {Null}] /\ buildLeft \in BOOLEAN
      /\ phase = (IF UseWorkers THEN "probe" ELSE "sequential")
      /\ seqRow = 0 /\ nextPage = 0
      /\ todo = [t \in Threads |-> <<0, 0>>]
      /\ probing = (IF UseWorkers THEN Threads ELSE {})
      /\ matches = [t \in Threads |-> <<>>]
      /\ offsets = [t \in Threads |-> 0]
      /\ written = [t \in Threads |-> 0]
      /\ out = [c \in Columns |-> EmptyColumn]
  BY DEF Init
<1>3. /\ \A t \in Threads : todo[t] = <<0, 0>> /\ todo[t][1] = 0 /\ todo[t][2] = 0
      /\ \A t \in Threads : matches[t] = <<>> /\ Len(matches[t]) = 0 /\ written[t] = 0
      /\ <<>> \in Seq(Values \X Values)
  <2>1. Len(<<>>) = 0  OBVIOUS
  <2> QED BY <1>2, <2>1
<1>4. Shapes
  <2>1. <<0, 0>> \in (0 .. ProbeSize) \X (0 .. ProbeSize)  BY <1>1
  <2>2. phase \in {"sequential", "probe", "materialize", "joined"}  BY <1>2
  <2>3. probing \subseteq Threads  BY <1>2
  <2>4. out \in [Columns -> ColumnType]  BY <1>2, EmptyColumnOK
  <2>5. todo \in [Threads -> (0 .. ProbeSize) \X (0 .. ProbeSize)]  BY <1>2, <2>1
  <2>6. matches \in [Threads -> Seq(Values \X Values)]  BY <1>2, <1>3
  <2>7. offsets \in [Threads -> Nat] /\ written \in [Threads -> Nat]  BY <1>2
  <2>8. \A t \in Threads : todo[t][1] <= todo[t][2] /\ written[t] <= Len(matches[t])  BY <1>3
  <2>9. seqRow \in 0 .. ProbeSize /\ nextPage \in Nat  BY <1>1, <1>2
  <2> QED BY <1>1, <1>2, <2>2, <2>3, <2>4, <2>5, <2>6, <2>7, <2>8, <2>9 DEF Shapes
<1>5. PathTaken
  <2>1. phase \in {"sequential", "probe"}  BY <1>2
  <2> QED BY <1>2, <1>3, <2>1 DEF PathTaken
<1>6. ChunksApart
  <2>1. \A t \in Threads : \A p \in ProbeRows : ~InChunk(t, p)  BY <1>3 DEF InChunk, ProbeRows
  <2>2. Cardinality(probing) \in Nat /\ Cardinality(probing) <= numThreads
    <3>1. Cardinality(Threads) = numThreads  BY <1>1, FS_Interval DEF Threads
    <3>2. Cardinality({}) = 0  BY FS_EmptySet
    <3> QED BY <1>1, <1>2, <3>1, <3>2
  <2>3. nextPage + Cardinality(probing) <= ProbePages + numThreads
    BY <1>1, <1>2, <2>2, ChunkFacts
  <2> QED BY <1>2, <1>3, <2>1, <2>3 DEF ChunksApart
<1>7. MatchesExact
  <2>1. \A p \in ProbeRows : p >= nextPage * ChunkRows
    <3>1. nextPage * ChunkRows = 0  BY <1>2, PageSizes
    <3> QED BY <3>1 DEF ProbeRows
  <2>2. Expected = {}
    <3>1. RowsToDo = ProbeRows  BY <2>1 DEF RowsToDo
    <3> QED BY <3>1 DEF Expected
  <2>3. \A t \in Threads : 1 .. Len(matches[t]) = {}  BY <1>3
  <2> QED BY <2>2, <2>3 DEF MatchesExact
<1>8. CellsExact
  <2>1. phase \notin {"materialize", "joined"}  BY <1>2
  <2> QED BY <2>1 DEF CellsExact
<1>9. RowsAppended
  <2>1. Joined(0 .. seqRow - 1) = {}
    <3>1. 0 .. seqRow - 1 = {}  BY <1>2
    <3> QED BY <3>1 DEF Joined
  <2>2. Len(<<>>) = 0 /\ 1 .. Len(<<>>) = {}  OBVIOUS
  <2>3. Lists(<<>>, {})  BY <2>2 DEF Lists
  <2>4. \A c \in Columns : Shows(out[c], c, <<>>)
    BY <1>2, <2>2 DEF Shows, EmptyColumn
  <2> QED BY <1>3, <2>1, <2>3, <2>4 DEF RowsAppended
<1> QED BY <1>4, <1>5, <1>6, <1>7, <1>8, <1>9 DEF JoinInv

-----------------------------------------------------------------------------
(* Parts of the invariant that a step does not touch.                      *)
LEMMA InputsKept ==
  ASSUME UNCHANGED inputVars
  PROVE  /\ Threads' = Threads /\ UseWorkers' = UseWorkers
         /\ \A e, p : Pair(e, p)' = Pair(e, p)
         /\ \A rows : Joined(rows)' = Joined(rows)
         /\ \A s, E : Lists(s, E) => Lists(s, E)'
<1>1. UNCHANGED <<probeColumn, buildLeft, numThreads>>  BY DEF inputVars
<1>2. \A e, p : Pair(e, p)' = Pair(e, p)  BY <1>1 DEF Pair
<1>3. \A s, E : Lists(s, E) => Lists(s, E)'  BY <1>1, ZenonT(30) DEF Lists, Pair
<1> QED BY <1>1, <1>2, <1>3 DEF Threads, UseWorkers, Joined

LEMMA ToDoKept ==
  ASSUME UNCHANGED <<inputVars, nextPage, todo>>
  PROVE  RowsToDo' = RowsToDo /\ \A t, p : InChunk(t, p)' = InChunk(t, p)
BY InputsKept DEF RowsToDo, InChunk

LEMMA ApartKept ==
  ASSUME ChunksApart, UNCHANGED <<inputVars, nextPage, todo, probing>>
  PROVE  ChunksApart'
BY InputsKept, ToDoKept DEF ChunksApart, inputVars

LEMMA MatchesKept ==
  ASSUME MatchesExact, UNCHANGED <<inputVars, matches>>, RowsToDo' = RowsToDo
  PROVE  MatchesExact'
<1>1. UNCHANGED <<probeColumn, buildLeft, numThreads>>  BY DEF inputVars
<1>2. Expected' = Expected  BY <1>1 DEF Expected
<1>3. Threads' = Threads /\ UseWorkers' = UseWorkers  BY InputsKept
<1>4. \A e, p : Pair(e, p)' = Pair(e, p)  BY InputsKept
<1> HIDE DEF inputVars
<1>5. CASE ~UseWorkers  BY <1>3, <1>5 DEF MatchesExact
<1>6. CASE UseWorkers
  <2>1. ASSUME NEW t \in Threads, NEW i \in 1 .. Len(matches[t])
        PROVE  \E e \in Expected : matches[t][i] = Pair(e[1], e[2])'
    BY <1>4, <1>6 DEF MatchesExact
  <2>2. ASSUME NEW e \in Expected
        PROVE  \E t \in Threads : \E i \in 1 .. Len(matches[t]) : matches[t][i] = Pair(e[1], e[2])'
    BY <1>4, <1>6 DEF MatchesExact
  <2>3. \A t, u \in Threads : \A i \in 1 .. Len(matches[t]), j \in 1 .. Len(matches[u]) :
          matches[t][i] = matches[u][j] => t = u /\ i = j
    BY <1>6 DEF MatchesExact
  <2> QED BY <1>2, <1>3, <2>1, <2>2, <2>3 DEF MatchesExact
<1> QED BY <1>5, <1>6

LEMMA AppendedKept ==
  ASSUME RowsAppended, UNCHANGED <<inputVars, seqRow, out>>
  PROVE  RowsAppended'
<1>1. CASE UseWorkers  BY <1>1, InputsKept DEF RowsAppended
<1>2. CASE ~UseWorkers
  <2>1. PICK s \in Seq(Values \X Values) :
          Lists(s, Joined(0 .. seqRow - 1)) /\ \A c \in Columns : Shows(out[c], c, s)
    BY <1>2 DEF RowsAppended
  <2>2. PICK E : E = Joined(0 .. seqRow - 1)  OBVIOUS
  <2>3. Lists(s, E)'  BY <2>1, <2>2, InputsKept
  <2>4. E = (Joined(0 .. seqRow - 1))'  BY <2>2 DEF Joined, inputVars
  <2>5. \A c \in Columns : Shows(out'[c], c, s)  BY <2>1
  <2>6. (Lists(s, Joined(0 .. seqRow - 1)))'  BY <2>3, <2>4
  <2> QED BY <2>5, <2>6 DEF RowsAppended
<1> QED BY <1>1, <1>2

LEMMA CellsKept ==
  ASSUME CellsExact, UNCHANGED <<inputVars, phase, matches, offsets, written, out>>
  PROVE  CellsExact'
<1>1. Offsets' = Offsets /\ TotalRows' = TotalRows /\ Threads' = Threads /\ UseWorkers' = UseWorkers
  BY OffsetsKept DEF inputVars
<1> QED BY <1>1 DEF CellsExact

LEMMA SequentialDoneInv == ASSUME JoinInv, SequentialDone PROVE JoinInv'
<1>1. /\ phase = "sequential" /\ seqRow = ProbeSize /\ phase' = "joined"
      /\ UNCHANGED <<inputVars, seqRow, nextPage, todo, probing, matches, offsets, written, out>>
      /\ UNCHANGED <<probeColumn, buildLeft, numThreads>>
  BY DEF SequentialDone, inputVars
<1>2. ~UseWorkers /\ probing = {} /\ ~UseWorkers' /\ Threads' = Threads
  BY <1>1, InputsKept DEF JoinInv, PathTaken
<1>3. Shapes'  BY <1>1, <1>2 DEF JoinInv, Shapes
<1>4. PathTaken'  BY <1>1, <1>2 DEF PathTaken
<1>5. ChunksApart'  BY <1>1, ApartKept DEF JoinInv
<1>6. MatchesExact' /\ CellsExact'  BY <1>2 DEF MatchesExact, CellsExact
<1>7. RowsAppended'  BY <1>1, AppendedKept DEF JoinInv
<1> QED BY <1>3, <1>4, <1>5, <1>6, <1>7 DEF JoinInv

(* One row of the sequential loop. *)
LEMMA SequentialInv == ASSUME JoinInv, ProbeSequentially PROVE JoinInv'
<1>1. /\ phase = "sequential" /\ seqRow < ProbeSize
      /\ out' = [c \in Columns |-> AppendAll(out[c], c, RowMatches(seqRow))]
      /\ seqRow' = seqRow + 1
      /\ UNCHANGED <<inputVars, phase, nextPage, todo, probing, matches, offsets, written>>
      /\ UNCHANGED <<probeColumn, buildLeft, numThreads>>
  BY DEF ProbeSequentially, inputVars
<1>2. ~UseWorkers /\ probing = {} /\ ~UseWorkers' /\ Threads' = Threads
  BY <1>1, InputsKept DEF JoinInv, PathTaken
<1>3. /\ seqRow \in Nat /\ seqRow \in ProbeRows /\ out \in [Columns -> ColumnType]
      /\ probeColumn \in [ProbeRows -> Keys \cup {Null}] /\ buildLeft \in BOOLEAN
      /\ FromLeft \in [Columns -> BOOLEAN]
  BY <1>1, PageSizes, SizesAssumption DEF JoinInv, Shapes, ProbeRows, SizesAssumption
<1>4. PICK p : p = seqRow  OBVIOUS
<1>5. PICK w : w = RowMatches(p)  OBVIOUS
<1>6. w \in MatchLists /\ Lists(w, Joined({p}))
  BY <1>3, <1>4, <1>5, RowMatchesExact DEF MatchLists
<1>7. PICK s \in MatchLists : Lists(s, Joined(0 .. p - 1)) /\ \A c \in Columns : Shows(out[c], c, s)
  BY <1>2, <1>4 DEF JoinInv, RowsAppended, MatchLists
<1>8. /\ s \o w \in MatchLists
      /\ Lists(s \o w, Joined(0 .. p - 1) \cup Joined({p}))
  <2>1. \A q \in 0 .. p - 1 : q \in ProbeRows /\ q # p
    BY <1>1, <1>3, <1>4, PageSizes DEF ProbeRows
  <2>2. Joined(0 .. p - 1) \subseteq BuildRows \X ProbeRows /\ Joined({p}) \subseteq BuildRows \X ProbeRows
    BY <1>3, <1>4, <2>1 DEF Joined
  <2>3. Joined(0 .. p - 1) \cap Joined({p}) = {}
    BY <2>1 DEF Joined
  <2> QED BY <1>3, <1>6, <1>7, <2>2, <2>3, ListsConcat
<1>9. Joined(0 .. p - 1) \cup Joined({p}) = Joined(0 .. (p + 1) - 1)
  <2>1. 0 .. (p + 1) - 1 = (0 .. p - 1) \cup {p}  BY <1>3, <1>4
  <2> QED BY <2>1 DEF Joined
<1>10. PICK E : E = Joined(0 .. (p + 1) - 1)  OBVIOUS
<1>11. (Lists(s \o w, Joined(0 .. seqRow - 1)))'
  <2>1. Lists(s \o w, E)'  BY <1>1, <1>8, <1>9, <1>10, InputsKept
  <2>2. E = (Joined(0 .. seqRow - 1))'  BY <1>1, <1>4, <1>10 DEF Joined
  <2> QED BY <2>1, <2>2
<1>12. ASSUME NEW c \in Columns
       PROVE  out'[c] \in ColumnType /\ Shows(out'[c], c, s \o w)
  <2> DEFINE col == out[c]
             x == AppendAll(col, c, w)
  <2>1. out'[c] = x  BY <1>1, <1>4, <1>5
  <2>2. col \in ColumnType /\ Shows(col, c, s)  BY <1>3, <1>7
  <2> HIDE DEF col
  <2>3. /\ x \in ColumnType /\ x.num = col.num + Len(w)
        /\ \A j \in 0 .. col.num - 1 : ColumnAt(x, j) = ColumnAt(col, j)
        /\ \A i \in 1 .. Len(w) : ColumnAt(x, col.num + i - 1) = Pick(c, w[i])
    BY <1>3, <1>6, <2>2, AppendAllCells
  <2> HIDE DEF x
  <2>4. /\ Len(s) \in Nat /\ Len(w) \in Nat /\ Len(s \o w) = Len(s) + Len(w)
        /\ \A i \in 1 .. Len(s) : (s \o w)[i] = s[i]
        /\ \A i \in 1 .. Len(w) : (s \o w)[Len(s) + i] = w[i]
    BY <1>6, <1>7 DEF MatchLists
  <2>5. col.num = Len(s) /\ \A i \in 1 .. Len(s) : ColumnAt(col, i - 1) = Pick(c, s[i])
    BY <2>2 DEF Shows
  <2>6. ASSUME NEW i \in 1 .. Len(s \o w) PROVE ColumnAt(x, i - 1) = Pick(c, (s \o w)[i])
    <3>1. CASE i \in 1 .. Len(s)
      <4>1. i - 1 \in 0 .. col.num - 1  BY <2>4, <2>5, <3>1
      <4> QED BY <2>3, <2>4, <2>5, <3>1, <4>1
    <3>2. CASE i \notin 1 .. Len(s)
      <4> DEFINE j == i - Len(s)
      <4>1. j \in 1 .. Len(w) /\ Len(s) + j = i /\ col.num + j - 1 = i - 1  BY <2>4, <2>5, <3>2
      <4> HIDE DEF j
      <4> QED BY <2>3, <2>4, <4>1
    <3> QED BY <3>1, <3>2
  <2> QED BY <2>1, <2>3, <2>4, <2>5, <2>6 DEF Shows
<1>13. RowsAppended'
  <2>1. \A c \in Columns : Shows(out'[c], c, s \o w)  BY <1>12
  <2>2. s \o w \in Seq(Values \X Values)  BY <1>8 DEF MatchLists
  <2> QED BY <1>11, <2>1, <2>2 DEF RowsAppended
<1>14. Shapes'
  <2>1. out' \in [Columns -> ColumnType]
    <3>1. out' = [c \in Columns |-> out'[c]]  BY <1>1
    <3> QED BY <1>12, <3>1
  <2>2. seqRow' \in 0 .. ProbeSize  BY <1>1, <1>3, PageSizes
  <2> QED BY <1>1, <1>2, <2>1, <2>2 DEF JoinInv, Shapes
<1>15. PathTaken'  BY <1>1, <1>2 DEF JoinInv, PathTaken
<1>16. ChunksApart'  BY <1>1, ApartKept DEF JoinInv
<1>17. MatchesExact' /\ CellsExact'  BY <1>2 DEF MatchesExact, CellsExact
<1> QED BY <1>13, <1>14, <1>15, <1>16, <1>17 DEF JoinInv

-----------------------------------------------------------------------------
(* The workers of the probe.                                               *)
LEMMA ThreadsFinite ==
  ASSUME Shapes
  PROVE  /\ IsFiniteSet(probing) /\ Cardinality(probing) \in Nat /\ Cardinality(probing) <= numThreads
         /\ \A t \in probing : Cardinality(probing \ {t}) = Cardinality(probing) - 1
<1>1. IsFiniteSet(Threads) /\ Cardinality(Threads) = numThreads
  BY FS_Interval DEF Shapes, Threads
<1>2. probing \subseteq Threads  BY DEF Shapes
<1>3. IsFiniteSet(probing) /\ Cardinality(probing) <= numThreads
  BY <1>1, <1>2, FS_Subset
<1>4. Cardinality(probing) \in Nat  BY <1>3, FS_CardinalityType
<1>5. ASSUME NEW t \in probing PROVE Cardinality(probing \ {t}) = Cardinality(probing) - 1
  BY <1>3, FS_RemoveElement
<1> QED BY <1>3, <1>4, <1>5

LEMMA WorkFacts ==
  ASSUME Shapes
  PROVE  /\ nextPage \in Nat /\ ProbeSize \in Nat /\ ChunkRows \in Nat \ {0} /\ nextPage * ChunkRows \in Nat
         /\ \A t \in Threads : /\ todo[t] = <<todo[t][1], todo[t][2]>>
                              /\ todo[t][1] \in Nat /\ todo[t][2] \in Nat
                              /\ todo[t][1] <= todo[t][2] /\ todo[t][2] <= ProbeSize
                              /\ matches[t] \in MatchLists /\ Len(matches[t]) \in Nat
BY PageSizes, ChunkFacts DEF Shapes, MatchLists

LEMMA ClaimChunkInv == ASSUME JoinInv, NEW t \in Threads, ClaimChunk(t) PROVE JoinInv'
<1>1. /\ phase = "probe" /\ t \in probing /\ todo[t][1] = todo[t][2]
      /\ nextPage' = nextPage + 1
      /\ UNCHANGED <<inputVars, phase, seqRow, matches, offsets, written, out>>
      /\ UNCHANGED <<probeColumn, buildLeft, numThreads>>
  BY DEF ClaimChunk, inputVars, Claimed
<1>2. UseWorkers /\ UseWorkers' /\ Threads' = Threads
  BY <1>1, InputsKept DEF JoinInv, PathTaken
<1>3. Shapes /\ ChunksApart  BY DEF JoinInv
<1> DEFINE a == nextPage * ChunkRows
           b == ChunkEnd(nextPage)
<1>4. /\ a \in Nat /\ (nextPage + 1) * ChunkRows = a + ChunkRows /\ ChunkRows \in Nat \ {0}
      /\ ProbePages \in Nat /\ nextPage \in Nat /\ numThreads \in Nat
  BY <1>3, WorkFacts, ChunkFacts DEF Shapes
<1>5. CellsExact' /\ RowsAppended'
  BY <1>1, <1>2 DEF CellsExact, RowsAppended
<1>6. PathTaken'
  BY <1>1, <1>2 DEF JoinInv, PathTaken
<1>7. \A u \in Threads : todo[u][1] < todo[u][2] => todo[u][2] <= a
  BY <1>3 DEF ChunksApart
<1>8. /\ \A u, v \in Threads : u # v => \A p \in ProbeRows : ~(InChunk(u, p) /\ InChunk(v, p))
      /\ \A u \in Threads \ probing : todo[u][1] = todo[u][2] /\ ProbePages <= nextPage
      /\ nextPage + Cardinality(probing) <= ProbePages + numThreads
  BY <1>2, <1>3 DEF ChunksApart
<1>9. \A p \in ProbeRows : p \in Nat /\ p < ProbeSize
  BY PageSizes DEF ProbeRows
<1>10. nextPage' * ChunkRows = a + ChunkRows  BY <1>1, <1>4
<1> HIDE DEF a
<1>11. CASE nextPage < ProbePages
  <2>1. todo' = [todo EXCEPT ![t] = <<a, b>>] /\ probing' = probing
    BY <1>11 DEF ClaimChunk, a
  <2>2. a < ProbeSize  BY <1>3, <1>4, <1>11, ChunkFacts DEF a
  <2>3. /\ b = IF a + ChunkRows < ProbeSize THEN a + ChunkRows ELSE ProbeSize
        /\ b \in Nat /\ a < b /\ b <= ProbeSize /\ b <= a + ChunkRows
    <3>1. b = IF a + ChunkRows < ProbeSize THEN a + ChunkRows ELSE ProbeSize
      BY <1>4 DEF ChunkEnd
    <3> HIDE DEF b
    <3> QED BY <1>4, <2>2, <3>1, PageSizes
  <2> HIDE DEF b
  <2>4. /\ todo'[t] = <<a, b>> /\ todo'[t][1] = a /\ todo'[t][2] = b
        /\ \A u \in Threads : u # t => todo'[u] = todo[u]
    BY <1>3, <2>1 DEF Shapes
  <2>5. Shapes'
    <3>1. todo' \in [Threads -> (0 .. ProbeSize) \X (0 .. ProbeSize)]
      <4>1. <<a, b>> \in (0 .. ProbeSize) \X (0 .. ProbeSize)
        BY <1>4, <2>2, <2>3, PageSizes
      <4> QED BY <1>3, <2>1, <4>1 DEF Shapes
    <3>2. \A u \in Threads : todo'[u][1] <= todo'[u][2] /\ written[u] <= Len(matches[u])
      <4>1. \A u \in Threads : todo[u][1] <= todo[u][2] /\ written[u] <= Len(matches[u])
        BY <1>3 DEF Shapes
      <4>2. todo'[t][1] <= todo'[t][2]  BY <1>4, <2>3, <2>4
      <4> QED BY <2>4, <4>1, <4>2, Zenon
    <3>3. nextPage' \in Nat  BY <1>1, <1>4
    <3> QED BY <1>1, <1>2, <1>3, <2>1, <3>1, <3>2, <3>3 DEF Shapes
  <2>6. ChunksApart'
    <3>1. \A u \in Threads : todo'[u][1] < todo'[u][2] => todo'[u][2] <= nextPage' * ChunkRows
      <4> SUFFICES ASSUME NEW u \in Threads, todo'[u][1] < todo'[u][2]
                   PROVE  todo'[u][2] <= a + ChunkRows
        BY <1>10
      <4>1. CASE u = t  BY <2>3, <2>4, <4>1
      <4>2. CASE u # t
        <5>1. todo[u][2] <= a /\ todo[u][2] \in Nat  BY <1>3, <1>7, <2>4, <4>2, WorkFacts
        <5> QED BY <1>4, <2>4, <4>2, <5>1
      <4> QED BY <4>1, <4>2
    <3>2. \A p \in ProbeRows : InChunk(t, p)' => a <= p
      BY <2>4 DEF InChunk
    <3>3. \A u \in Threads : u # t => \A p \in ProbeRows : InChunk(u, p)' <=> InChunk(u, p)
      BY <2>4 DEF InChunk
    <3>4. ASSUME NEW u \in Threads, NEW p \in ProbeRows, InChunk(u, p) PROVE p < a
      <4>1. todo[u][1] \in Nat /\ todo[u][2] \in Nat /\ todo[u][1] <= p /\ p < todo[u][2]
        BY <1>3, <3>4, WorkFacts DEF InChunk
      <4>2. todo[u][1] < todo[u][2]  BY <1>9, <4>1
      <4> QED BY <1>4, <1>7, <1>9, <4>1, <4>2
    <3>5. ASSUME NEW u \in Threads, NEW v \in Threads, u # v, NEW p \in ProbeRows
          PROVE  ~(InChunk(u, p)' /\ InChunk(v, p)')
      BY <1>4, <1>8, <1>9, <3>2, <3>3, <3>4, <3>5
    <3>6. \A u \in Threads' \ probing' : todo'[u][1] = todo'[u][2] /\ ProbePages <= nextPage'
      BY <1>1, <1>2, <1>4, <1>8, <2>1, <2>4
    <3>7. nextPage' + Cardinality(probing') <= ProbePages + numThreads'
      BY <1>1, <1>3, <1>4, <1>11, <2>1, ThreadsFinite
    <3> QED BY <1>2, <3>1, <3>5, <3>6, <3>7 DEF ChunksApart
  <2>7. RowsToDo' = RowsToDo
    <3> SUFFICES ASSUME NEW p \in ProbeRows
                 PROVE  (p >= nextPage * ChunkRows \/ \E u \in Threads : InChunk(u, p))
                        <=> (p >= nextPage' * ChunkRows \/ \E u \in Threads : InChunk(u, p)')
      BY <1>2 DEF RowsToDo, InChunk
    <3>1. InChunk(t, p)' <=> a <= p /\ p < b  BY <2>4 DEF InChunk
    <3>2. ~InChunk(t, p)
      BY <1>1, <1>3, <1>9, WorkFacts DEF InChunk
    <3>3. \A u \in Threads : u # t => (InChunk(u, p)' <=> InChunk(u, p))
      BY <2>4 DEF InChunk
    <3>4. p >= a <=> p >= a + ChunkRows \/ (a <= p /\ p < b)
      BY <1>4, <1>9, <2>2, <2>3
    <3> QED BY <1>10, <3>1, <3>2, <3>3, <3>4 DEF a
  <2> QED BY <1>1, <1>5, <1>6, <2>5, <2>6, <2>7, MatchesKept DEF JoinInv
<1>12. CASE ~(nextPage < ProbePages)
  <2>1. todo' = todo /\ probing' = probing \ {t}
    BY <1>12 DEF ClaimChunk
  <2>2. ProbeSize <= a /\ ProbePages <= nextPage
    BY <1>4, <1>12, ChunkFacts DEF a
  <2>3. Shapes'
    <3>1. nextPage' \in Nat /\ probing' \subseteq Threads  BY <1>1, <1>3, <1>4, <2>1 DEF Shapes
    <3> QED BY <1>1, <1>2, <1>3, <2>1, <3>1 DEF Shapes
  <2>4. \A u, p : InChunk(u, p)' = InChunk(u, p)  BY <2>1 DEF InChunk
  <2>5. ChunksApart'
    <3>1. \A u \in Threads : todo'[u][1] < todo'[u][2] => todo'[u][2] <= nextPage' * ChunkRows
      <4> SUFFICES ASSUME NEW u \in Threads, todo[u][1] < todo[u][2]
                   PROVE  todo[u][2] <= a + ChunkRows
        BY <1>10, <2>1
      <4>1. todo[u][2] <= a /\ todo[u][2] \in Nat  BY <1>3, <1>7, WorkFacts
      <4> QED BY <1>4, <4>1
    <3>2. \A u \in Threads' \ probing' : todo'[u][1] = todo'[u][2] /\ ProbePages <= nextPage'
      BY <1>1, <1>2, <1>4, <1>8, <2>1, <2>2
    <3>3. nextPage' + Cardinality(probing') <= ProbePages + numThreads'
      <4>1. Cardinality(probing') = Cardinality(probing) - 1 /\ Cardinality(probing) \in Nat
        BY <1>1, <1>3, <2>1, ThreadsFinite
      <4> QED BY <1>1, <1>4, <1>8, <4>1
    <3> QED BY <1>2, <1>8, <2>4, <3>1, <3>2, <3>3 DEF ChunksApart
  <2>6. RowsToDo' = RowsToDo
    <3>1. \A p \in ProbeRows : ~(p >= nextPage * ChunkRows) /\ ~(p >= nextPage' * ChunkRows)
      BY <1>4, <1>9, <1>10, <2>2, PageSizes DEF a
    <3> QED BY <1>2, <2>1, <3>1 DEF RowsToDo
  <2> QED BY <1>1, <1>5, <1>6, <2>3, <2>5, <2>6, MatchesKept DEF JoinInv
<1> QED BY <1>11, <1>12

LEMMA ProbeRowInv == ASSUME JoinInv, NEW t \in Threads, ProbeRow(t) PROVE JoinInv'
<1>1. /\ phase = "probe" /\ todo[t][1] < todo[t][2]
      /\ matches' = [matches EXCEPT ![t] = matches[t] \o RowMatches(todo[t][1])]
      /\ todo' = [todo EXCEPT ![t] = [todo[t] EXCEPT ![1] = todo[t][1] + 1]]
      /\ UNCHANGED <<inputVars, phase, seqRow, nextPage, probing, offsets, written, out>>
      /\ UNCHANGED <<probeColumn, buildLeft, numThreads>>
  BY DEF ProbeRow, inputVars, AfterRow
<1>2. UseWorkers /\ UseWorkers' /\ Threads' = Threads
  BY <1>1, InputsKept DEF JoinInv, PathTaken
<1>3. Shapes /\ ChunksApart  BY DEF JoinInv
<1>4. PICK a : a = todo[t][1]  OBVIOUS
<1> DEFINE b == todo[t][2]
<1>5. /\ a \in Nat /\ b \in Nat /\ a < b /\ b <= ProbeSize /\ ProbeSize \in Nat /\ a \in ProbeRows
      /\ nextPage * ChunkRows \in Nat /\ b <= nextPage * ChunkRows /\ todo[t] = <<a, b>>
  <2>1. a \in Nat /\ b \in Nat /\ a < b /\ b <= ProbeSize /\ ProbeSize \in Nat
        /\ nextPage * ChunkRows \in Nat /\ todo[t] = <<a, b>>
    BY <1>1, <1>3, <1>4, WorkFacts
  <2>2. b <= nextPage * ChunkRows  BY <1>1, <1>3 DEF ChunksApart
  <2> QED BY <2>1, <2>2 DEF ProbeRows
<1> HIDE DEF b
<1>6. PICK w : w = RowMatches(a)  OBVIOUS
<1>7. w \in MatchLists /\ Lists(w, Joined({a})) /\ buildLeft \in BOOLEAN
  BY <1>3, <1>5, <1>6, RowMatchesExact DEF MatchLists, Shapes
<1>8. /\ matches[t] \in MatchLists
      /\ matches[t] \o w \in MatchLists
      /\ Len(matches[t]) \in Nat /\ Len(w) \in Nat
      /\ Len(matches[t] \o w) = Len(matches[t]) + Len(w)
      /\ \A i \in 1 .. Len(matches[t]) : (matches[t] \o w)[i] = matches[t][i]
      /\ \A i \in 1 .. Len(w) : (matches[t] \o w)[Len(matches[t]) + i] = w[i]
  <2>1. matches[t] \in MatchLists  BY <1>3, WorkFacts
  <2> QED BY <1>7, <2>1 DEF MatchLists
<1>9. /\ matches'[t] = matches[t] \o w /\ todo'[t] = <<a + 1, b>>
      /\ \A u \in Threads : u # t => matches'[u] = matches[u] /\ todo'[u] = todo[u]
  <2>1. matches'[t] = matches[t] \o w  BY <1>1, <1>3, <1>4, <1>6 DEF Shapes
  <2>2. todo'[t] = [<<a, b>> EXCEPT ![1] = a + 1]  BY <1>1, <1>3, <1>4, <1>5 DEF Shapes
  <2>3. [<<a, b>> EXCEPT ![1] = a + 1] = <<a + 1, b>>  OBVIOUS
  <2> QED BY <1>1, <1>3, <2>1, <2>2, <2>3 DEF Shapes
<1>10. CellsExact' /\ RowsAppended' /\ PathTaken'
  BY <1>1, <1>2 DEF JoinInv, CellsExact, RowsAppended, PathTaken
<1>11. Shapes'
  <2>1. todo' \in [Threads -> (0 .. ProbeSize) \X (0 .. ProbeSize)]
    <3>1. <<a + 1, b>> \in (0 .. ProbeSize) \X (0 .. ProbeSize)  BY <1>5
    <3>2. todo' = [todo EXCEPT ![t] = <<a + 1, b>>]  BY <1>1, <1>3, <1>9 DEF Shapes
    <3> QED BY <1>3, <3>1, <3>2 DEF Shapes
  <2>2. matches' \in [Threads -> Seq(Values \X Values)]
    BY <1>1, <1>3, <1>4, <1>6, <1>8 DEF Shapes, MatchLists
  <2>3. \A u \in Threads : todo'[u][1] <= todo'[u][2] /\ written[u] <= Len(matches'[u])
    <3>1. \A u \in Threads : todo[u][1] <= todo[u][2] /\ written[u] <= Len(matches[u]) /\ written[u] \in Nat
      BY <1>3 DEF Shapes
    <3>2. todo'[t][1] <= todo'[t][2]  BY <1>5, <1>9
    <3>3. written[t] <= Len(matches'[t])  BY <1>8, <1>9, <3>1
    <3> QED BY <1>9, <3>1, <3>2, <3>3, Zenon
  <2> QED BY <1>1, <1>2, <1>3, <2>1, <2>2, <2>3 DEF Shapes
<1>12. /\ \A p \in ProbeRows : InChunk(t, p) <=> p = a \/ InChunk(t, p)'
       /\ \A u \in Threads : u # t => \A p \in ProbeRows : InChunk(u, p)' <=> InChunk(u, p)
       /\ InChunk(t, a) /\ ~InChunk(t, a)'
  <2>1. \A p \in ProbeRows : p \in Nat  BY <1>5 DEF ProbeRows
  <2>2. \A p : InChunk(t, p) <=> a <= p /\ p < b  BY <1>5 DEF InChunk
  <2>3. \A p : InChunk(t, p)' <=> a + 1 <= p /\ p < b  BY <1>9 DEF InChunk
  <2>4. \A u \in Threads : u # t => \A p \in ProbeRows : InChunk(u, p)' <=> InChunk(u, p)
    BY <1>9 DEF InChunk
  <2> QED BY <1>5, <2>1, <2>2, <2>3, <2>4
<1>13. ChunksApart'
  <2>1. \A u \in Threads : todo'[u][1] < todo'[u][2] => todo'[u][2] <= nextPage' * ChunkRows
    <3> SUFFICES ASSUME NEW u \in Threads, todo'[u][1] < todo'[u][2]
                 PROVE  todo'[u][2] <= nextPage * ChunkRows
      BY <1>1
    <3>1. CASE u = t  BY <1>5, <1>9, <3>1
    <3>2. CASE u # t  BY <1>3, <1>9, <3>2 DEF ChunksApart
    <3> QED BY <3>1, <3>2
  <2>2. \A u, v \in Threads : u # v => \A p \in ProbeRows : ~(InChunk(u, p)' /\ InChunk(v, p)')
    <3>1. \A u, v \in Threads : u # v => \A p \in ProbeRows : ~(InChunk(u, p) /\ InChunk(v, p))
      BY <1>3 DEF ChunksApart
    <3>2. \A u \in Threads : \A p \in ProbeRows : InChunk(u, p)' => InChunk(u, p)
      BY <1>12
    <3> QED BY <3>1, <3>2
  <2>3. \A u \in Threads \ probing : todo'[u][1] = todo'[u][2] /\ ProbePages <= nextPage
    <3>1. \A u \in Threads \ probing : todo[u][1] = todo[u][2] /\ ProbePages <= nextPage
      BY <1>2, <1>3 DEF ChunksApart
    <3>2. t \in probing  BY <1>4, <1>5, <3>1 DEF b
    <3> QED BY <1>9, <3>1, <3>2
  <2>4. nextPage + Cardinality(probing) <= ProbePages + numThreads
    BY <1>3 DEF ChunksApart
  <2> QED BY <1>1, <1>2, <2>1, <2>2, <2>3, <2>4 DEF ChunksApart
<1>14. RowsToDo' = RowsToDo \ {a} /\ a \in RowsToDo
  <2>1. \A p \in ProbeRows : p \in RowsToDo <=> (p >= nextPage * ChunkRows \/ \E u \in Threads : InChunk(u, p))
    BY DEF RowsToDo, InChunk
  <2>2. \A p \in ProbeRows : p \in RowsToDo' <=> (p >= nextPage * ChunkRows \/ \E u \in Threads : InChunk(u, p)')
    BY <1>1, <1>2 DEF RowsToDo, InChunk
  <2>3. RowsToDo \subseteq ProbeRows /\ RowsToDo' \subseteq ProbeRows  BY DEF RowsToDo
  <2>4. a \in RowsToDo  BY <1>5, <1>12, <2>1
  <2>5. ~(a >= nextPage * ChunkRows)  BY <1>5
  <2>6. \A u \in Threads : ~InChunk(u, a)'
    <3>1. \A u \in Threads : u # t => ~InChunk(u, a)  BY <1>3, <1>5, <1>12 DEF ChunksApart
    <3> QED BY <1>5, <1>12, <3>1
  <2>7. a \notin RowsToDo'  BY <1>5, <2>2, <2>5, <2>6
  <2>8. \A p \in ProbeRows : p # a => (p \in RowsToDo' <=> p \in RowsToDo)
    <3>1. \A p \in ProbeRows : p # a => \A u \in Threads : InChunk(u, p)' <=> InChunk(u, p)
      BY <1>12
    <3> QED BY <2>1, <2>2, <3>1
  <2> QED BY <2>3, <2>4, <2>7, <2>8
<1>15. /\ Expected' = Expected \cup Joined({a}) /\ Expected \cap Joined({a}) = {}
       /\ Expected \subseteq BuildRows \X ProbeRows /\ Joined({a}) \subseteq BuildRows \X ProbeRows
  <2>1. Joined({a}) = {e \in BuildRows \X ProbeRows : BuildKey[e[1]] = probeColumn[e[2]] /\ e[2] = a}
    BY <1>5 DEF Joined
  <2>2. \A e \in BuildRows \X ProbeRows : e[2] \notin RowsToDo' <=> e[2] \notin RowsToDo \/ e[2] = a
    BY <1>14
  <2> QED BY <1>1, <1>14, <2>1, <2>2 DEF Expected
<1> DEFINE n == Len(matches[t])
           k == Len(w)
<1>16. /\ \A u \in Threads : \A i \in 1 .. Len(matches'[u]) :
            \/ i \in 1 .. Len(matches[u]) /\ matches'[u][i] = matches[u][i]
            \/ u = t /\ i - n \in 1 .. k /\ matches'[u][i] = w[i - n]
       /\ \A u \in Threads : \A i \in 1 .. Len(matches[u]) :
            i \in 1 .. Len(matches'[u]) /\ matches'[u][i] = matches[u][i]
       /\ \A i \in 1 .. k : n + i \in 1 .. Len(matches'[t]) /\ matches'[t][n + i] = w[i]
  <2>1. Len(matches'[t]) = n + k /\ n \in Nat /\ k \in Nat  BY <1>8, <1>9
  <2>2. \A i \in 1 .. n : i \in 1 .. n + k /\ matches'[t][i] = matches[t][i]  BY <1>8, <1>9
  <2>3. \A i \in 1 .. k : n + i \in 1 .. n + k /\ matches'[t][n + i] = w[i]  BY <1>8, <1>9
  <2>4. \A i \in 1 .. n + k : i \in 1 .. n \/ (i - n \in 1 .. k /\ matches'[t][i] = w[i - n])
    <3> SUFFICES ASSUME NEW i \in 1 .. n + k, i \notin 1 .. n
                 PROVE  i - n \in 1 .. k /\ matches'[t][i] = w[i - n]
      OBVIOUS
    <3> HIDE DEF n, k
    <3>1. i - n \in 1 .. k /\ n + (i - n) = i  BY <2>1
    <3>2. matches'[t][n + (i - n)] = w[i - n]  BY <2>3, <3>1
    <3> QED BY <3>1, <3>2
  <2>5. \A u \in Threads : u # t => matches'[u] = matches[u]  BY <1>9
  <2> HIDE DEF k
  <2> QED BY <2>1, <2>2, <2>3, <2>4, <2>5
<1> HIDE DEF n, k
<1>17. /\ \A u \in Threads : \A i \in 1 .. Len(matches[u]) :
            \E e \in Expected : matches[u][i] = Pair(e[1], e[2])
       /\ \A u, v \in Threads : \A i \in 1 .. Len(matches[u]), j \in 1 .. Len(matches[v]) :
            matches[u][i] = matches[v][j] => u = v /\ i = j
       /\ \A e \in Expected : \E u \in Threads : \E i \in 1 .. Len(matches[u]) :
            matches[u][i] = Pair(e[1], e[2])
  BY <1>2 DEF JoinInv, MatchesExact
<1>18. /\ \A i \in 1 .. k : \E e \in Joined({a}) : w[i] = Pair(e[1], e[2])
       /\ \A i, j \in 1 .. k : w[i] = w[j] => i = j
       /\ \A e \in Joined({a}) : \E i \in 1 .. k : w[i] = Pair(e[1], e[2])
  BY <1>7 DEF Lists, k
<1>19. ASSUME NEW u \in Threads, NEW i \in 1 .. Len(matches[u]), NEW j \in 1 .. k
       PROVE  matches[u][i] # w[j]
  <2>1. PICK e \in Expected : matches[u][i] = Pair(e[1], e[2])  BY <1>17
  <2>2. PICK f \in Joined({a}) : w[j] = Pair(f[1], f[2])  BY <1>18
  <2>3. e \in BuildRows \X ProbeRows /\ f \in BuildRows \X ProbeRows /\ e # f  BY <1>15
  <2> QED BY <1>7, <2>1, <2>2, <2>3, PairsApart
<1>20. MatchesExact'
  <2>1. ASSUME NEW u \in Threads, NEW i \in 1 .. Len(matches'[u])
        PROVE  \E e \in Expected' : matches'[u][i] = Pair(e[1], e[2])
    <3>1. CASE i \in 1 .. Len(matches[u]) /\ matches'[u][i] = matches[u][i]
      BY <1>15, <1>17, <3>1
    <3>2. CASE u = t /\ i - n \in 1 .. k /\ matches'[u][i] = w[i - n]
      BY <1>15, <1>18, <3>2
    <3> QED BY <1>16, <3>1, <3>2
  <2>2. ASSUME NEW u \in Threads, NEW v \in Threads,
               NEW i \in 1 .. Len(matches'[u]), NEW j \in 1 .. Len(matches'[v]),
               matches'[u][i] = matches'[v][j]
        PROVE  u = v /\ i = j
    <3>1. CASE i \in 1 .. Len(matches[u]) /\ matches'[u][i] = matches[u][i]
      <4>1. CASE j \in 1 .. Len(matches[v]) /\ matches'[v][j] = matches[v][j]
        <5>1. matches[u][i] = matches[v][j]  BY <2>2, <3>1, <4>1
        <5> QED BY <1>17, <3>1, <4>1, <5>1
      <4>2. CASE v = t /\ j - n \in 1 .. k /\ matches'[v][j] = w[j - n]
        BY <1>19, <2>2, <3>1, <4>2
      <4> QED BY <1>16, <4>1, <4>2
    <3>2. CASE u = t /\ i - n \in 1 .. k /\ matches'[u][i] = w[i - n]
      <4>1. CASE j \in 1 .. Len(matches[v]) /\ matches'[v][j] = matches[v][j]
        BY <1>19, <2>2, <3>2, <4>1
      <4>2. CASE v = t /\ j - n \in 1 .. k /\ matches'[v][j] = w[j - n]
        <5>1. i - n = j - n  BY <1>18, <2>2, <3>2, <4>2
        <5>2. n \in Nat /\ i \in Int /\ j \in Int  BY <1>8 DEF n
        <5> QED BY <3>2, <4>2, <5>1, <5>2
      <4> QED BY <1>16, <4>1, <4>2
    <3> QED BY <1>16, <3>1, <3>2
  <2>3. ASSUME NEW e \in Expected'
        PROVE  \E u \in Threads : \E i \in 1 .. Len(matches'[u]) : matches'[u][i] = Pair(e[1], e[2])
    <3>1. CASE e \in Expected
      <4>1. PICK u \in Threads : \E i \in 1 .. Len(matches[u]) : matches[u][i] = Pair(e[1], e[2])
        BY <1>17, <3>1
      <4>2. PICK i \in 1 .. Len(matches[u]) : matches[u][i] = Pair(e[1], e[2])
        BY <4>1
      <4> QED BY <1>16, <4>2
    <3>2. CASE e \in Joined({a})
      <4>1. PICK i \in 1 .. k : w[i] = Pair(e[1], e[2])
        BY <1>18, <3>2
      <4>2. n + i \in 1 .. Len(matches'[t]) /\ matches'[t][n + i] = Pair(e[1], e[2])
        BY <1>16, <4>1
      <4> QED BY <4>2
    <3> QED BY <1>15, <3>1, <3>2
  <2>4. \A e, p : Pair(e, p)' = Pair(e, p)  BY <1>1, InputsKept
  <2>5. ASSUME NEW u \in Threads, NEW i \in 1 .. Len(matches'[u])
        PROVE  \E e \in Expected' : matches'[u][i] = Pair(e[1], e[2])'
    BY <2>1, <2>4
  <2>6. ASSUME NEW e \in Expected'
        PROVE  \E u \in Threads : \E i \in 1 .. Len(matches'[u]) : matches'[u][i] = Pair(e[1], e[2])'
    BY <2>3, <2>4
  <2> QED BY <1>2, <2>2, <2>5, <2>6 DEF MatchesExact
<1> QED BY <1>10, <1>11, <1>13, <1>20 DEF JoinInv

-----------------------------------------------------------------------------
(* The ranges are cut and the columns get their pages.                     *)
LEMMA ColumnUnfold ==
  \A col : col \in ColumnType <=>
            col \in RawColumn /\ Len(col.pages) = PagesFor(col.num)
BY DEF ColumnType, RawColumn, Pages

LEMMA AllocateInv == ASSUME JoinInv, Allocate PROVE JoinInv'
<1>1. /\ phase = "probe" /\ probing = {} /\ phase' = "materialize"
      /\ offsets' = Offsets
      /\ out' = [c \in Columns |->
                   [pages |-> [i \in 1 .. NeededPages |-> BlankPage], num |-> TotalRows]]
      /\ UNCHANGED <<inputVars, seqRow, nextPage, todo, probing, matches, written>>
      /\ UNCHANGED <<probeColumn, buildLeft, numThreads>>
  BY DEF Allocate, inputVars, AllProbed
<1>2. UseWorkers /\ UseWorkers' /\ Threads' = Threads /\ Offsets' = Offsets /\ TotalRows' = TotalRows
  BY <1>1, InputsKept, OffsetsKept DEF JoinInv, PathTaken
<1>3. Shapes /\ \A t \in Threads : written[t] = 0
  BY <1>1 DEF JoinInv, PathTaken
<1>4. RangesSplitRows
  BY <1>3, OffsetsExact DEF Shapes, MatchLists
<1> DEFINE n == TotalRows
           m == NeededPages
           blanks == [i \in 1 .. m |-> BlankPage]
           col == [pages |-> blanks, num |-> n]
<1>5. n \in Nat  BY <1>4 DEF RangesSplitRows
<1>6. m = PagesFor(n)  BY DEF NeededPages, PagesFor
<1> HIDE DEF n, m
<1>7. m \in Nat /\ n <= m * ValuesPerPage /\ m * ValuesPerPage \in Nat
  <2>1. m \in Nat /\ n <= m * ValuesPerPage  BY <1>5, <1>6, PagesForBounds
  <2> QED BY <2>1, PageSizes, SMTT(30)
<1>8. blanks \in Seq(PageType) /\ Len(blanks) = m
  <2>1. BlankPage \in PageType  BY DEF BlankPage, PageType
  <2> HIDE DEF PageType
  <2> QED BY <1>7, <2>1
<1>9. ASSUME NEW i \in Nat, i < n PROVE ColumnAt(col, i) = Blank
  <2>1. i < m * ValuesPerPage  BY <1>5, <1>7, <1>9
  <2>2. i \div ValuesPerPage + 1 \in 1 .. m /\ i % ValuesPerPage \in 0 .. ValuesPerPage - 1
    BY <1>7, <2>1, CellPlace
  <2> QED BY <2>2 DEF ColumnAt, BlankPage
<1>10. col \in ColumnType
  <2> HIDE DEF blanks
  <2>1. col \in RawColumn /\ Len(col.pages) = PagesFor(col.num)
    BY <1>5, <1>6, <1>8 DEF RawColumn, Pages
  <2> QED BY <2>1, ColumnUnfold
<1>11. \A c \in Columns : out'[c] = col /\ out'[c].num = n
  BY <1>1 DEF n, m
<1> HIDE DEF col
<1>12. CellsExact'
  <2>1. ASSUME NEW c \in Columns, NEW t \in Threads, NEW i \in 1 .. Len(matches[t])
        PROVE  ColumnAt(out'[c], Offsets[t] + i - 1) = IF i <= written[t] THEN Pick(c, matches[t][i]) ELSE Blank
    <3>1. /\ Offsets[t] \in Nat /\ Len(matches[t]) \in Nat
          /\ Offsets[t] + Len(matches[t]) <= n
      BY <1>4 DEF RangesSplitRows, EndRow, n
    <3>2. Offsets[t] + i - 1 \in Nat /\ Offsets[t] + i - 1 < n /\ ~(i <= 0)
      BY <1>5, <3>1
    <3> QED BY <1>3, <1>9, <1>11, <3>2
  <2>2. \A c \in Columns : out'[c].num = TotalRows  BY <1>11 DEF n
  <2> QED BY <1>1, <1>2, <2>1, <2>2 DEF CellsExact
<1>13. Shapes'
  <2>1. out' \in [Columns -> ColumnType]
    <3>1. out' = [c \in Columns |-> out'[c]]  BY <1>1
    <3> QED BY <1>10, <1>11, <3>1
  <2>2. offsets' \in [Threads -> Nat]  BY <1>1, <1>4 DEF RangesSplitRows
  <2> QED BY <1>1, <1>2, <1>3, <2>1, <2>2 DEF Shapes
<1>14. PathTaken'  BY <1>1, <1>2 DEF PathTaken
<1>15. ChunksApart'  BY <1>1, ApartKept DEF JoinInv
<1>16. MatchesExact'  BY <1>1, ToDoKept, MatchesKept DEF JoinInv
<1>17. RowsAppended'  BY <1>2 DEF RowsAppended
<1> QED BY <1>12, <1>13, <1>14, <1>15, <1>16, <1>17 DEF JoinInv

(* A worker writes its next row. *)
LEMMA RowsApart ==
  ASSUME RangesSplitRows, numThreads \in Nat,
         NEW t \in Threads, NEW u \in Threads,
         NEW i \in 1 .. Len(matches[t]), NEW j \in 1 .. Len(matches[u])
  PROVE  /\ Offsets[t] + i - 1 \in Nat /\ Offsets[t] + i - 1 < TotalRows
         /\ Offsets[t] + i - 1 = Offsets[u] + j - 1 => t = u /\ i = j
<1>1. /\ Offsets[t] \in Nat /\ Offsets[u] \in Nat /\ TotalRows \in Nat
      /\ Len(matches[t]) \in Nat /\ Len(matches[u]) \in Nat
      /\ Offsets[t] + Len(matches[t]) <= TotalRows
      /\ t < u => Offsets[t] + Len(matches[t]) <= Offsets[u]
      /\ u < t => Offsets[u] + Len(matches[u]) <= Offsets[t]
  BY DEF RangesSplitRows, EndRow
<1>2. t \in Nat /\ u \in Nat  BY DEF Threads
<1> DEFINE a == Offsets[t]
           b == Offsets[u]
           la == Len(matches[t])
           lb == Len(matches[u])
<1>6. a \in Nat /\ b \in Nat /\ la \in Nat /\ lb \in Nat /\ i \in 1 .. la /\ j \in 1 .. lb
  BY <1>1
<1>7. /\ a + la <= TotalRows /\ TotalRows \in Nat
      /\ t < u => a + la <= b
      /\ u < t => b + lb <= a
  BY <1>1
<1>8. t = u => a = b  OBVIOUS
<1> HIDE DEF a, b, la, lb
<1>9. a + i - 1 \in Nat /\ a + i - 1 < TotalRows  BY <1>6, <1>7
<1>3. CASE t = u  BY <1>3, <1>6, <1>8, <1>9 DEF a, b
<1>4. CASE t < u
  <2>1. a + i - 1 < b + j - 1  BY <1>4, <1>6, <1>7
  <2> QED BY <1>9, <1>6, <2>1 DEF a, b
<1>5. CASE u < t
  <2>1. b + j - 1 < a + i - 1  BY <1>5, <1>6, <1>7
  <2> QED BY <1>9, <1>6, <2>1 DEF a, b
<1> QED BY <1>2, <1>3, <1>4, <1>5

LEMMA MaterializeInv == ASSUME JoinInv, NEW t \in Threads, Materialize(t) PROVE JoinInv'
<1> DEFINE i0 == written[t] + 1
           r == OutRow(t)
<1>1. /\ phase = "materialize" /\ written[t] < Len(matches[t])
      /\ out' = [c \in Columns |-> WriteAt(out[c], r, Pick(c, matches[t][i0]))]
      /\ written' = [written EXCEPT ![t] = written[t] + 1]
      /\ UNCHANGED <<inputVars, phase, seqRow, nextPage, todo, probing, matches, offsets>>
      /\ UNCHANGED <<probeColumn, buildLeft, numThreads>>
  BY DEF Materialize, inputVars
<1>2. UseWorkers /\ UseWorkers' /\ Threads' = Threads /\ Offsets' = Offsets /\ TotalRows' = TotalRows
  BY <1>1, InputsKept, OffsetsKept DEF JoinInv, PathTaken
<1>3. Shapes  BY DEF JoinInv
<1>4. RangesSplitRows
  BY <1>3, OffsetsExact DEF Shapes, MatchLists
<1>5. /\ offsets = Offsets
      /\ \A c \in Columns :
           /\ out[c].num = TotalRows
           /\ \A u \in Threads : \A i \in 1 .. Len(matches[u]) :
                ColumnAt(out[c], Offsets[u] + i - 1) =
                  IF i <= written[u] THEN Pick(c, matches[u][i]) ELSE Blank
  BY <1>1, <1>2 DEF JoinInv, CellsExact
<1>6. /\ written \in [Threads -> Nat] /\ written[t] \in Nat /\ Len(matches[t]) \in Nat
      /\ i0 \in 1 .. Len(matches[t]) /\ Offsets[t] \in Nat
      /\ out \in [Columns -> ColumnType] /\ matches[t] \in Seq(Values \X Values)
      /\ numThreads \in Nat /\ FromLeft \in [Columns -> BOOLEAN]
  BY <1>1, <1>3, <1>4, SizesAssumption DEF Shapes, RangesSplitRows, SizesAssumption
<1>7. r = Offsets[t] + i0 - 1 /\ r \in Nat /\ r < TotalRows
  <2>1. r = Offsets[t] + written[t]  BY <1>5 DEF OutRow
  <2>2. Offsets[t] + i0 - 1 \in Nat /\ Offsets[t] + i0 - 1 < TotalRows
    BY <1>4, <1>6, RowsApart
  <2> QED BY <1>6, <2>1, <2>2
<1>8. TotalRows \in Nat  BY <1>4 DEF RangesSplitRows
<1> HIDE DEF r
<1>9. \A c \in Columns : Pick(c, matches[t][i0]) \in Values
  <2>1. matches[t][i0] \in Values \X Values  BY <1>6
  <2> QED BY <1>6, <2>1 DEF Pick
<1>10. \A u \in Threads : written'[u] = IF u = t THEN i0 ELSE written[u]
  BY <1>1, <1>6
<1> HIDE DEF i0
<1>11. ASSUME NEW c \in Columns
       PROVE  /\ out'[c] \in ColumnType /\ out'[c].num = TotalRows
              /\ ColumnAt(out'[c], r) = Pick(c, matches[t][i0])
              /\ \A j \in Nat : j # r /\ j < TotalRows => ColumnAt(out'[c], j) = ColumnAt(out[c], j)
  <2> DEFINE col == out[c]
             v == Pick(c, matches[t][i0])
             w == WriteAt(col, r, v)
  <2>1. out'[c] = w  BY <1>1
  <2>2. /\ col \in RawColumn /\ Len(col.pages) = PagesFor(TotalRows) /\ col.num = TotalRows
    BY <1>5, <1>6, ColumnUnfold
  <2>3. v \in Values  BY <1>9
  <2> HIDE DEF col, v
  <2> DEFINE m == Len(col.pages) * ValuesPerPage
  <2>4. m \in Nat /\ TotalRows <= m
    <3>1. TotalRows <= PagesFor(TotalRows) * ValuesPerPage /\ PagesFor(TotalRows) \in Nat
      BY <1>8, PagesForBounds
    <3>2. PagesFor(TotalRows) * ValuesPerPage \in Nat  BY <3>1, PageSizes, SMTT(30)
    <3> QED BY <2>2, <3>1, <3>2
  <2>5. r < m /\ \A j \in Nat : j < TotalRows => j < m
    <3> HIDE DEF m
    <3> QED BY <1>7, <1>8, <2>4
  <2>6. /\ w \in RawColumn /\ w.num = col.num /\ Len(w.pages) = Len(col.pages) /\ ColumnAt(w, r) = v
        /\ \A j \in Nat : j # r /\ j < m => ColumnAt(w, j) = ColumnAt(col, j)
    BY <1>7, <2>2, <2>3, <2>5, WriteAtCell
  <2> HIDE DEF w, m
  <2>7. w \in ColumnType  BY <2>2, <2>6, ColumnUnfold
  <2> QED BY <2>1, <2>2, <2>5, <2>6, <2>7 DEF col, v
<1>12. CellsExact'
  <2>1. ASSUME NEW c \in Columns, NEW u \in Threads, NEW i \in 1 .. Len(matches[u])
        PROVE  ColumnAt(out'[c], Offsets[u] + i - 1) =
                 IF i <= written'[u] THEN Pick(c, matches[u][i]) ELSE Blank
    <3>1. Offsets[u] + i - 1 \in Nat /\ Offsets[u] + i - 1 < TotalRows
          /\ (Offsets[u] + i - 1 = r => u = t /\ i = i0)
      <4> HIDE DEF i0
      <4>1. r = Offsets[t] + i0 - 1 /\ i0 \in 1 .. Len(matches[t]) /\ numThreads \in Nat
        BY <1>6, <1>7
      <4> QED BY <1>4, <4>1, RowsApart
    <3>2. CASE u = t /\ i = i0
      <4>1. i <= written'[u] /\ Offsets[u] + i - 1 = r
        <5>1. written'[u] = i0 /\ i0 \in Int  BY <1>6, <1>10, <3>2
        <5> QED BY <1>7, <3>2, <5>1
      <4> QED BY <1>11, <3>2, <4>1
    <3>3. CASE ~(u = t /\ i = i0)
      <4>1. Offsets[u] + i - 1 # r  BY <3>1, <3>3
      <4>2. ColumnAt(out'[c], Offsets[u] + i - 1) = ColumnAt(out[c], Offsets[u] + i - 1)
        BY <1>11, <3>1, <4>1
      <4>3. i <= written'[u] <=> i <= written[u]
        <5>1. CASE u = t  BY <1>6, <1>10, <3>3, <5>1 DEF i0
        <5>2. CASE u # t  BY <1>10, <5>2
        <5> QED BY <5>1, <5>2
      <4> QED BY <1>5, <4>2, <4>3
    <3> QED BY <3>2, <3>3
  <2>2. \A c \in Columns : out'[c].num = TotalRows  BY <1>11
  <2> QED BY <1>1, <1>2, <1>5, <2>1, <2>2 DEF CellsExact
<1>13. Shapes'
  <2>1. out' \in [Columns -> ColumnType]
    <3>1. out' = [c \in Columns |-> out'[c]]  BY <1>1
    <3> QED BY <1>11, <3>1
  <2>2. written' \in [Threads -> Nat]  BY <1>1, <1>6
  <2>3. \A u \in Threads : written'[u] <= Len(matches[u])
    <3>1. \A u \in Threads : written[u] <= Len(matches[u])  BY <1>3 DEF Shapes
    <3>2. i0 <= Len(matches[t])  BY <1>6
    <3> QED BY <1>10, <3>1, <3>2
  <2> QED BY <1>1, <1>2, <1>3, <2>1, <2>2, <2>3 DEF Shapes
<1>14. PathTaken'  BY <1>1, <1>2 DEF JoinInv, PathTaken
<1>15. ChunksApart'  BY <1>1, ApartKept DEF JoinInv
<1>16. MatchesExact'  BY <1>1, ToDoKept, MatchesKept DEF JoinInv
<1>17. RowsAppended'  BY <1>2 DEF RowsAppended
<1> QED BY <1>12, <1>13, <1>14, <1>15, <1>16, <1>17 DEF JoinInv

LEMMA MaterializeDoneInv == ASSUME JoinInv, MaterializeDone PROVE JoinInv'
<1>1. /\ phase = "materialize" /\ \A t \in Threads : written[t] = Len(matches[t])
      /\ phase' = "joined"
      /\ UNCHANGED <<inputVars, seqRow, nextPage, todo, probing, matches, offsets, written, out>>
      /\ UNCHANGED <<probeColumn, buildLeft, numThreads>>
  BY DEF MaterializeDone, inputVars
<1>2. UseWorkers /\ UseWorkers' /\ Threads' = Threads /\ Offsets' = Offsets /\ TotalRows' = TotalRows
  BY <1>1, InputsKept, OffsetsKept DEF JoinInv, PathTaken
<1>3. Shapes'  BY <1>1, <1>2 DEF JoinInv, Shapes
<1>4. PathTaken'  BY <1>1, <1>2 DEF JoinInv, PathTaken
<1>5. ChunksApart'  BY <1>1, ApartKept DEF JoinInv
<1>6. MatchesExact'  BY <1>1, ToDoKept, MatchesKept DEF JoinInv
<1>7. CellsExact'  BY <1>1, <1>2 DEF JoinInv, CellsExact
<1>8. RowsAppended'  BY <1>2 DEF RowsAppended
<1> QED BY <1>3, <1>4, <1>5, <1>6, <1>7, <1>8 DEF JoinInv

LEMMA JoinNext == JoinInv /\ [Next]_vars => JoinInv'
<1> SUFFICES ASSUME JoinInv, [Next]_vars PROVE JoinInv'
  OBVIOUS
<1>1. CASE UNCHANGED vars
  <2>1. /\ UNCHANGED <<inputVars, phase, seqRow, nextPage, todo, probing, matches, offsets, written, out>>
        /\ UNCHANGED <<probeColumn, buildLeft, numThreads>>
    BY <1>1 DEF vars, inputVars
  <2>2. Threads' = Threads /\ UseWorkers' = UseWorkers  BY <2>1, InputsKept
  <2>3. Shapes'  BY <2>1, <2>2 DEF JoinInv, Shapes
  <2>4. PathTaken'  BY <2>1, <2>2 DEF JoinInv, PathTaken
  <2>5. ChunksApart'  BY <2>1, ApartKept DEF JoinInv
  <2>6. MatchesExact'  BY <2>1, ToDoKept, MatchesKept DEF JoinInv
  <2>7. CellsExact'  BY <2>1, CellsKept DEF JoinInv
  <2>8. RowsAppended'  BY <2>1, AppendedKept DEF JoinInv
  <2> QED BY <2>3, <2>4, <2>5, <2>6, <2>7, <2>8 DEF JoinInv
<1>2. CASE Caller
  BY <1>2, SequentialInv, SequentialDoneInv, AllocateInv, MaterializeDoneInv DEF Caller
<1>3. ASSUME NEW t \in Threads, Worker(t) PROVE JoinInv'
  BY <1>3, ClaimChunkInv, ProbeRowInv, MaterializeInv DEF Worker
<1> QED BY <1>1, <1>2, <1>3 DEF Next, Done

LEMMA JoinInvariant == Spec => []JoinInv
BY JoinInit, JoinNext, PTL DEF Spec

(* All state of the probe and of the materialization keeps its shape, and   *)
(* columns have exactly the pages their values need.                        *)
THEOREM TypeCorrect == Spec => []TypeOK
<1>1. ASSUME JoinInv PROVE TypeOK
  <2>1. Shapes  BY <1>1 DEF JoinInv
  <2>2. nextPage \in 0 .. ProbePages + numThreads
    <3>1. nextPage + Cardinality(probing) <= ProbePages + numThreads
      BY <1>1 DEF JoinInv, ChunksApart
    <3>2. nextPage \in Nat /\ numThreads \in Nat /\ probing \subseteq Threads
      BY <2>1 DEF Shapes
    <3>3. Cardinality(probing) \in Nat
      BY <2>1, ThreadsFinite
    <3>4. ProbePages \in Nat  BY ChunkFacts
    <3> QED BY <3>1, <3>2, <3>3, <3>4
  <2>3. ASSUME NEW t \in Threads
        PROVE  /\ todo[t][1] \in 0 .. ProbeSize /\ todo[t][2] \in todo[t][1] .. ProbeSize
               /\ \A i \in 1 .. Len(matches[t]) : matches[t][i] \in Values \X Values
               /\ written[t] \in 0 .. Len(matches[t])
    <3>1. /\ todo[t][1] \in Nat /\ todo[t][2] \in Nat /\ ProbeSize \in Nat
          /\ todo[t][1] <= todo[t][2] /\ todo[t][2] <= ProbeSize
          /\ matches[t] \in MatchLists /\ Len(matches[t]) \in Nat
      BY <2>1, WorkFacts
    <3>2. written[t] \in Nat /\ written[t] <= Len(matches[t])  BY <2>1 DEF Shapes
    <3>3. \A i \in 1 .. Len(matches[t]) : matches[t][i] \in Values \X Values
      BY <3>1 DEF MatchLists
    <3> QED BY <3>1, <3>2, <3>3
  <2>4. ASSUME NEW c \in Columns
        PROVE  /\ Len(out[c].pages) = (out[c].num + ValuesPerPage - 1) \div ValuesPerPage
               /\ \A i \in 1 .. Len(out[c].pages) :
                    out[c].pages[i] \in [0 .. ValuesPerPage - 1 -> Values \cup {Blank}]
    <3>1. out[c] \in ColumnType  BY <2>1 DEF Shapes
    <3> QED BY <3>1 DEF ColumnType, PagesFor, PageType
  <2> QED BY <2>1, <2>2, <2>3, <2>4 DEF TypeOK, Shapes
<1> QED BY <1>1, JoinInvariant, PTL

(* The workers that materialize never write the same value, nor outside     *)
(* the pages that were allocated.                                           *)
THEOREM WritesNeverMeet == Spec => []WritesDisjoint
<1>1. ASSUME JoinInv PROVE WritesDisjoint
  <2> SUFFICES ASSUME phase = "materialize" PROVE WritesDisjoint
    BY DEF WritesDisjoint
  <2>1. Shapes /\ UseWorkers  BY <1>1 DEF JoinInv, PathTaken
  <2>2. RangesSplitRows /\ numThreads \in Nat
    BY <2>1, OffsetsExact DEF Shapes, MatchLists
  <2>3. /\ offsets = Offsets
        /\ \A c \in Columns :
             /\ out[c].num = TotalRows
             /\ \A t \in Threads : \A i \in 1 .. Len(matches[t]) :
                  ColumnAt(out[c], Offsets[t] + i - 1) =
                    IF i <= written[t] THEN Pick(c, matches[t][i]) ELSE Blank
    BY <1>1, <2>1 DEF JoinInv, CellsExact
  <2>4. ASSUME NEW t \in Threads, written[t] < Len(matches[t])
        PROVE  /\ written[t] + 1 \in 1 .. Len(matches[t]) /\ ~(written[t] + 1 <= written[t])
               /\ OutRow(t) = Offsets[t] + (written[t] + 1) - 1
    <3>1. written[t] \in Nat /\ Len(matches[t]) \in Nat /\ Offsets[t] \in Nat
      BY <2>1, <2>2 DEF Shapes, RangesSplitRows
    <3> QED BY <2>3, <2>4, <3>1 DEF OutRow
  <2>5. ASSUME NEW t \in Threads, written[t] < Len(matches[t]), NEW c \in Columns
        PROVE  OutRow(t) < out[c].num /\ ColumnAt(out[c], OutRow(t)) = Blank
    BY <2>2, <2>3, <2>4, <2>5, RowsApart
  <2>6. ASSUME NEW t \in Threads, written[t] < Len(matches[t]),
               NEW u \in Threads \ {t}, written[u] < Len(matches[u])
        PROVE  OutRow(t) # OutRow(u)
    <3>1. u # t /\ u \in Threads  OBVIOUS
    <3> QED BY <2>2, <2>4, <2>6, <3>1, RowsApart
  <2> QED BY <2>5, <2>6 DEF WritesDisjoint
<1> QED BY <1>1, JoinInvariant, PTL

(* However the claims interleave, the matches collected are those of the    *)
(* rows that are done, each once.                                           *)
THEOREM ClaimsCorrect == Spec => []ClaimsExact
<1>1. ASSUME JoinInv PROVE ClaimsExact
  <2> SUFFICES ASSUME phase = "probe" PROVE ClaimsExact
    BY DEF ClaimsExact
  <2>1. UseWorkers  BY <1>1 DEF JoinInv, PathTaken
  <2>2. /\ \A t \in Threads : \A i \in 1 .. Len(matches[t]) :
             \E e \in Expected : matches[t][i] = Pair(e[1], e[2])
        /\ \A t, u \in Threads : \A i \in 1 .. Len(matches[t]), j \in 1 .. Len(matches[u]) :
             matches[t][i] = matches[u][j] => t = u /\ i = j
        /\ \A e \in Expected : \E t \in Threads : \E i \in 1 .. Len(matches[t]) :
             matches[t][i] = Pair(e[1], e[2])
    BY <1>1, <2>1 DEF JoinInv, MatchesExact
  <2> QED BY <2>2 DEF ClaimsExact
<1> QED BY <1>1, JoinInvariant, PTL

-----------------------------------------------------------------------------
(* The end of the join: the rows of the output columns list the matches.   *)
AllMatches == Joined(ProbeRows)

(* With the workers: the rows are their matches, one worker after another.  *)
LEMMA WorkersFinish ==
  ASSUME JoinInv, phase = "joined", UseWorkers
  PROVE  \E s \in MatchLists : Lists(s, AllMatches) /\ \A c \in Columns : Shows(out[c], c, s)
<1> DEFINE T(k) == CHOOSE t \in Threads : Offsets[t] <= k - 1 /\ k - 1 < EndRow(t)
           s == [k \in 1 .. TotalRows |-> matches[T(k)][k - Offsets[T(k)]]]
<1>1. /\ Shapes /\ probing = {} /\ numThreads \in Nat \ {0}
      /\ \A t \in Threads : written[t] = Len(matches[t]) /\ matches[t] \in MatchLists
  BY WorkFacts DEF JoinInv, PathTaken, Shapes
<1>2. RangesSplitRows /\ TotalRows \in Nat /\ numThreads \in Nat
  BY <1>1, OffsetsExact DEF Shapes, MatchLists, RangesSplitRows
<1>3. Expected = AllMatches
  <2>1. 0 \in Threads  BY <1>1 DEF Threads
  <2>2. ProbePages <= nextPage /\ \A t \in Threads : todo[t][1] = todo[t][2]
    BY <1>1, <2>1 DEF JoinInv, ChunksApart
  <2>3. nextPage \in Nat /\ nextPage * ChunkRows \in Nat /\ ProbeSize <= nextPage * ChunkRows
    BY <1>1, <2>2, WorkFacts, ChunkFacts
  <2>4. ASSUME NEW p \in ProbeRows PROVE p \notin RowsToDo
    <3>1. p < nextPage * ChunkRows /\ p \in Nat  BY <2>3, PageSizes DEF ProbeRows
    <3>2. \A t \in Threads : ~(p >= todo[t][1] /\ p < todo[t][2])
      BY <1>1, <2>2, <3>1, WorkFacts
    <3> QED BY <2>3, <3>1, <3>2 DEF RowsToDo
  <2> QED BY <2>4 DEF Expected, AllMatches, Joined
<1>4. ASSUME NEW k \in 1 .. TotalRows
      PROVE  /\ T(k) \in Threads /\ k - Offsets[T(k)] \in 1 .. Len(matches[T(k)])
             /\ k - 1 = Offsets[T(k)] + (k - Offsets[T(k)]) - 1
  <2>1. k - 1 \in 0 .. TotalRows - 1  BY <1>2
  <2>2. \E t \in Threads : Offsets[t] <= k - 1 /\ k - 1 < EndRow(t)
    BY <1>2, <2>1 DEF RangesSplitRows
  <2>3. T(k) \in Threads /\ Offsets[T(k)] <= k - 1 /\ k - 1 < EndRow(T(k))
    BY <2>2, Zenon
  <2> HIDE DEF T
  <2>4. Offsets[T(k)] \in Nat /\ Len(matches[T(k)]) \in Nat  BY <1>2, <2>3 DEF RangesSplitRows
  <2> QED BY <1>2, <2>3, <2>4 DEF EndRow
<1>5. ASSUME NEW t \in Threads, NEW i \in 1 .. Len(matches[t])
      PROVE  /\ Offsets[t] + i \in 1 .. TotalRows
             /\ T(Offsets[t] + i) = t /\ s[Offsets[t] + i] = matches[t][i]
  <2> DEFINE k == Offsets[t] + i
             u == T(k)
             j == k - Offsets[u]
  <2>1. Offsets[t] \in Nat /\ i \in Nat \ {0} /\ Len(matches[t]) \in Nat
    BY <1>2 DEF RangesSplitRows
  <2>2. k \in 1 .. TotalRows  BY <1>2, <2>1, RowsApart
  <2>3. u \in Threads /\ j \in 1 .. Len(matches[u]) /\ k - 1 = Offsets[u] + j - 1
    BY <1>4, <2>2
  <2> HIDE DEF u
  <2>4. Offsets[t] + i - 1 = Offsets[u] + j - 1
    <3>1. k - 1 = Offsets[t] + i - 1  BY <2>1
    <3> QED BY <2>3, <3>1
  <2> HIDE DEF j
  <2>5. t = u /\ i = j  BY <1>2, <2>3, <2>4, RowsApart
  <2>6. s[k] = matches[u][k - Offsets[u]]  BY <2>2 DEF u
  <2>7. k - Offsets[u] = i  BY <2>5 DEF j
  <2> QED BY <2>2, <2>5, <2>6, <2>7 DEF u
<1> HIDE DEF T
<1>6. ASSUME NEW k \in 1 .. TotalRows
      PROVE  /\ s[k] = matches[T(k)][k - Offsets[T(k)]] /\ s[k] \in Values \X Values
             /\ \E e \in AllMatches : s[k] = Pair(e[1], e[2])
  <2>1. T(k) \in Threads /\ k - Offsets[T(k)] \in 1 .. Len(matches[T(k)])  BY <1>4
  <2>2. s[k] = matches[T(k)][k - Offsets[T(k)]]  OBVIOUS
  <2>3. matches[T(k)][k - Offsets[T(k)]] \in Values \X Values
    BY <1>1, <2>1 DEF MatchLists
  <2>4. \E e \in Expected : matches[T(k)][k - Offsets[T(k)]] = Pair(e[1], e[2])
    BY <2>1 DEF JoinInv, MatchesExact
  <2> QED BY <1>3, <2>2, <2>3, <2>4
<1>7. s \in MatchLists /\ Len(s) = TotalRows
  <2> HIDE DEF s
  <2>1. s = [k \in 1 .. TotalRows |-> s[k]]  BY DEF s
  <2> QED BY <1>2, <1>6, <2>1 DEF MatchLists
<1> HIDE DEF s
<1>8. Lists(s, AllMatches)
  <2>1. ASSUME NEW k \in 1 .. TotalRows, NEW l \in 1 .. TotalRows, s[k] = s[l] PROVE k = l
    <3>1. /\ T(k) \in Threads /\ T(l) \in Threads
          /\ k - Offsets[T(k)] \in 1 .. Len(matches[T(k)])
          /\ l - Offsets[T(l)] \in 1 .. Len(matches[T(l)])
      BY <1>4
    <3>2. matches[T(k)][k - Offsets[T(k)]] = matches[T(l)][l - Offsets[T(l)]]
      BY <1>6, <2>1
    <3>3. T(k) = T(l) /\ k - Offsets[T(k)] = l - Offsets[T(l)]
      BY <3>1, <3>2 DEF JoinInv, MatchesExact
    <3>4. Offsets[T(k)] \in Nat  BY <1>2, <3>1 DEF RangesSplitRows
    <3> QED BY <3>3, <3>4
  <2>2. ASSUME NEW e \in AllMatches PROVE \E k \in 1 .. TotalRows : s[k] = Pair(e[1], e[2])
    <3>1. PICK t \in Threads : \E i \in 1 .. Len(matches[t]) : matches[t][i] = Pair(e[1], e[2])
      BY <1>3 DEF JoinInv, MatchesExact
    <3>2. PICK i \in 1 .. Len(matches[t]) : matches[t][i] = Pair(e[1], e[2])
      BY <3>1
    <3> QED BY <1>5, <3>2
  <2> QED BY <1>6, <1>7, <2>1, <2>2 DEF Lists
<1>9. ASSUME NEW c \in Columns PROVE Shows(out[c], c, s)
  <2>1. /\ out[c].num = TotalRows /\ offsets = Offsets
        /\ \A t \in Threads : \A i \in 1 .. Len(matches[t]) :
             ColumnAt(out[c], Offsets[t] + i - 1) =
               IF i <= written[t] THEN Pick(c, matches[t][i]) ELSE Blank
    BY DEF JoinInv, CellsExact
  <2>2. ASSUME NEW k \in 1 .. TotalRows PROVE ColumnAt(out[c], k - 1) = Pick(c, s[k])
    <3> DEFINE t == T(k)
               i == k - Offsets[t]
    <3>1. t \in Threads /\ i \in 1 .. Len(matches[t])  BY <1>4
    <3>2. k - 1 = Offsets[t] + i - 1 /\ s[k] = matches[t][i]  BY <1>4, <1>6, <3>1
    <3> HIDE DEF t, i
    <3>3. i <= written[t]
      <4>1. written[t] = Len(matches[t]) /\ Len(matches[t]) \in Nat  BY <1>1, <3>1, WorkFacts
      <4> QED BY <3>1, <4>1
    <3>4. ColumnAt(out[c], Offsets[t] + i - 1) = Pick(c, matches[t][i])
      BY <2>1, <3>1, <3>3
    <3> QED BY <3>2, <3>4
  <2> QED BY <1>7, <2>1, <2>2 DEF Shows
<1> QED BY <1>7, <1>8, <1>9

LEMMA RowsFinish ==
  ASSUME JoinInv, phase = "joined"
  PROVE  \E s \in MatchLists : Lists(s, AllMatches) /\ \A c \in Columns : Shows(out[c], c, s)
<1>1. CASE UseWorkers  BY <1>1, WorkersFinish
<1>2. CASE ~UseWorkers
  <2>1. PICK s \in Seq(Values \X Values) :
          Lists(s, Joined(0 .. seqRow - 1)) /\ \A c \in Columns : Shows(out[c], c, s)
    BY <1>2 DEF JoinInv, RowsAppended
  <2>2. seqRow = ProbeSize  BY <1>2 DEF JoinInv, PathTaken
  <2> QED BY <2>1, <2>2 DEF AllMatches, ProbeRows, MatchLists
<1> QED BY <1>1, <1>2

(* Columns that list the matches have every result row as often as it      *)
(* matches: index i of the columns is the i-th match.                      *)
LEMMA RowsCounted ==
  ASSUME buildLeft \in BOOLEAN, NEW s \in MatchLists, Lists(s, AllMatches),
         \A c \in Columns : Shows(out[c], c, s)
  PROVE  ResultRows = [v \in [Columns -> Values] |->
                         Cardinality({m \in AllMatches : Join!ResultRow(m) = v})]
<1> DEFINE n == Len(s)
           num == CHOOSE x \in {out[c].num : c \in Columns} : TRUE
           at == [i \in 0 .. n - 1 |-> [c \in Columns |-> ColumnAt(out[c], i)]]
<1>1. n \in Nat /\ \A i \in 1 .. n : s[i] \in Values \X Values  BY DEF MatchLists
<1>2. num = n
  <2>1. \A c \in Columns : out[c].num = n  BY DEF Shows
  <2>2. {out[c].num : c \in Columns} = {n}  BY <2>1, SizesAssumption DEF SizesAssumption
  <2> QED BY <2>2
<1>3. ResultRows = [v \in [Columns -> Values] |-> Cardinality({i \in 0 .. n - 1 : at[i] = v})]
  <2> DEFINE rows(x) == [v \in [Columns -> Values] |->
                           Cardinality({i \in 0 .. x - 1 :
                             [j \in 0 .. x - 1 |-> [c \in Columns |-> ColumnAt(out[c], j)]][i] = v})]
  <2>1. ~(\E c \in Columns : out[c].num # num)  BY <1>2 DEF Shows
  <2>2. ResultRows = IF \E c \in Columns : out[c].num # num THEN Blank ELSE rows(num)
    BY Zenon DEF ResultRows
  <2>3. rows(n) = [v \in [Columns -> Values] |-> Cardinality({i \in 0 .. n - 1 : at[i] = v})]
    OBVIOUS
  <2> HIDE DEF n, num, rows, at
  <2> QED BY <1>2, <2>1, <2>2, <2>3
<1>4. ASSUME NEW m \in AllMatches, NEW i \in 0 .. n - 1, s[i + 1] = Pair(m[1], m[2])
      PROVE  at[i] = Join!ResultRow(m)
  <2>1. m[1] \in BuildRows /\ m[2] \in ProbeRows  BY DEF AllMatches, Joined
  <2>2. ASSUME NEW c \in Columns
        PROVE  ColumnAt(out[c], i) = IF FromLeft[c] = buildLeft THEN m[1] ELSE m[2]
    <3>1. i + 1 \in 1 .. n /\ (i + 1) - 1 = i  BY <1>1
    <3>2. ColumnAt(out[c], i) = Pick(c, s[i + 1])  BY <3>1 DEF Shows
    <3>3. FromLeft[c] \in BOOLEAN  BY SizesAssumption DEF SizesAssumption
    <3> QED BY <1>4, <3>2, <3>3 DEF Pick, Pair
  <2>3. Join!ResultRow(m) = [c \in Columns |-> IF FromLeft[c] = buildLeft THEN m[1] ELSE m[2]]
    <3>1. \A c \in Columns : (IF FromLeft[c] = buildLeft THEN m[1] ELSE m[2]) \in Values
      BY <2>1 DEF Values
    <3> QED BY <3>1 DEF Join!ResultRow, Join!Columns, Columns
  <2> QED BY <2>2, <2>3
<1> HIDE DEF at
<1>5. ASSUME NEW v \in [Columns -> Values]
      PROVE  Cardinality({i \in 0 .. n - 1 : at[i] = v}) =
               Cardinality({m \in AllMatches : Join!ResultRow(m) = v})
  <2> DEFINE A == {i \in 0 .. n - 1 : at[i] = v}
             B == {m \in AllMatches : Join!ResultRow(m) = v}
             f == [i \in A |-> CHOOSE m \in AllMatches : s[i + 1] = Pair(m[1], m[2])]
  <2>1. ASSUME NEW i \in A
        PROVE  f[i] \in B /\ s[i + 1] = Pair(f[i][1], f[i][2])
    <3>1. i + 1 \in 1 .. Len(s)  BY <1>1
    <3>2. \E m \in AllMatches : s[i + 1] = Pair(m[1], m[2])  BY <3>1 DEF Lists
    <3>3. f[i] \in AllMatches /\ s[i + 1] = Pair(f[i][1], f[i][2])  BY <3>2, Zenon
    <3> QED BY <1>4, <3>3
  <2>2. ASSUME NEW i \in A, NEW j \in A, f[i] = f[j] PROVE i = j
    <3>1. s[i + 1] = s[j + 1]  BY <2>1, <2>2
    <3>2. i + 1 \in 1 .. Len(s) /\ j + 1 \in 1 .. Len(s) /\ i \in Nat /\ j \in Nat  BY <1>1
    <3>3. i + 1 = j + 1  BY <3>1, <3>2 DEF Lists
    <3> QED BY <3>2, <3>3
  <2>3. ASSUME NEW m \in B PROVE \E i \in A : f[i] = m
    <3>1. PICK k \in 1 .. Len(s) : s[k] = Pair(m[1], m[2])  BY DEF Lists
    <3>2. k - 1 \in 0 .. n - 1 /\ (k - 1) + 1 = k  BY <1>1
    <3>3. k - 1 \in A  BY <1>4, <3>1, <3>2
    <3>4. f[k - 1] \in AllMatches /\ s[k] = Pair(f[k - 1][1], f[k - 1][2])
      BY <2>1, <3>2, <3>3
    <3>5. f[k - 1] \in BuildRows \X ProbeRows /\ m \in BuildRows \X ProbeRows
      BY <3>4 DEF AllMatches, Joined
    <3>6. f[k - 1] = m  BY <3>1, <3>4, <3>5, PairsApart
    <3> QED BY <3>3, <3>6
  <2>4. f \in [A -> B]
    <3>1. f = [i \in A |-> f[i]]  OBVIOUS
    <3> HIDE DEF f
    <3> QED BY <2>1, <3>1
  <2>5. IsFiniteSet(A)
    <3>1. IsFiniteSet(0 .. n - 1)  BY <1>1, FS_Interval
    <3> QED BY <3>1, FS_Subset
  <2> HIDE DEF A, B, f
  <2>6. ExistsBijection(A, B)
    <3>1. f \in Injection(A, B)  BY <2>2, <2>4 DEF Injection, IsInjective
    <3>2. f \in Surjection(A, B)  BY <2>3, <2>4 DEF Surjection
    <3> QED BY <3>1, <3>2 DEF ExistsBijection, Bijection
  <2> QED BY <2>5, <2>6, FS_Bijection DEF A, B
<1> QED BY <1>3, <1>5

LEMMA CellsOfJoin ==
  /\ Join!Cells = Values /\ Join!Columns = Columns /\ Join!Matches = AllMatches
<1>1. Join!Columns = Columns /\ Join!BuildRows = BuildRows
  BY DEF Join!Columns, Join!BuildRows, Columns, BuildRows
<1>2. \A c \in Columns : {([d \in Columns |-> [x \in Values |-> x]])[c][r] : r \in BuildRows \cup ProbeRows}
                           = Values
  BY DEF Values
<1>3. Join!Cells = Values
  <2>1. Join!Cells = UNION {Values : c \in Columns}  BY <1>1, <1>2 DEF Join!Cells
  <2>2. Columns # {}  BY SizesAssumption DEF SizesAssumption
  <2> QED BY <2>1, <2>2
<1>4. Join!Matches = AllMatches
  BY <1>1 DEF Join!Matches, AllMatches, Joined
<1> QED BY <1>1, <1>3, <1>4

(* HashJoin counts with the Cardinality of its own instance of FiniteSets. *)
LEMMA SameCardinality == \A S : Join!Cardinality(S) = Cardinality(S)
BY Zenon DEF Join!Cardinality, Cardinality

(* What the columns are at the end is what HashJoin says.                  *)
Answer == [v \in [Columns -> Values] |-> Cardinality({m \in AllMatches : Join!ResultRow(m) = v})]
LEMMA AnswerReached == JoinInv => (phase = "joined" => ResultRows = Answer)
BY RowsFinish, RowsCounted DEF JoinInv, Shapes, Answer

LEMMA InputsFixed == ASSUME [Next]_vars PROVE UNCHANGED <<probeColumn, buildLeft, numThreads>>
BY DEF Next, Caller, Worker, Done, vars, inputVars, ProbeSequentially, SequentialDone, Allocate,
       MaterializeDone, ClaimChunk, ProbeRow, Materialize

(* The rows of the columns that probe_and_materialize fills, by either      *)
(* path, are the result of the join.                                        *)
THEOREM JoinCorrect == Spec => ImplementsJoin
<1> DEFINE Shown == IF phase = "joined" THEN ResultRows ELSE Null
           Counted == phase = "joined" => ResultRows = Answer
<1>1. Init => Join!Init
  <2> SUFFICES ASSUME Init PROVE Join!Init
    OBVIOUS
  <2>1. /\ probeColumn \in [ProbeRows -> Keys \cup {Null}] /\ buildLeft \in BOOLEAN
        /\ phase # "joined"
    BY DEF Init
  <2> QED BY <2>1 DEF Join!Init
<1>2. ASSUME [Next]_vars, Counted' PROVE [Join!Join]_(Join!vars)
  <2>1. UNCHANGED <<probeColumn, buildLeft, numThreads>>  BY <1>2, InputsFixed
  <2>2. CASE phase = "joined"
    <3>1. UNCHANGED vars
      BY <1>2, <2>2 DEF Next, Caller, Worker, Done, ProbeSequentially, SequentialDone, Allocate,
                        MaterializeDone, ClaimChunk, ProbeRow, Materialize
    <3>2. phase' = phase /\ out' = out  BY <3>1 DEF vars
    <3>3. ResultRows' = ResultRows  BY <3>2 DEF ResultRows, ColumnAt
    <3>4. Shown' = Shown  BY <3>2, <3>3
    <3> QED BY <2>1, <3>4 DEF Join!vars
  <2>3. CASE phase # "joined" /\ phase' # "joined"
    <3>1. Shown' = Shown  BY <2>3
    <3> QED BY <2>1, <3>1 DEF Join!vars
  <2>4. CASE phase # "joined" /\ phase' = "joined"
    <3>1. Shown = Null /\ Shown' = ResultRows'  BY <2>4
    <3>2. ResultRows' = Answer'  BY <1>2, <2>4
    <3>3. Answer' = [v \in [Join!Columns -> Join!Cells] |->
                       Cardinality({m \in Join!Matches : Join!ResultRow(m) = v})]
      <4>1. AllMatches' = AllMatches  BY <2>1 DEF AllMatches, Joined
      <4>2. \A m : Join!ResultRow(m)' = Join!ResultRow(m)  BY <2>1 DEF Join!ResultRow
      <4>3. Answer' = Answer  BY <4>1, <4>2 DEF Answer
      <4> QED BY <4>3, CellsOfJoin DEF Answer
    <3> DEFINE answer == [v \in [Join!Columns -> Join!Cells] |->
                            Cardinality({m \in Join!Matches : Join!ResultRow(m) = v})]
    <3>4. Shown = Null /\ Shown' = answer  BY <3>1, <3>2, <3>3
    <3> HIDE DEF Counted
    <3>5. answer = [v \in [Join!Columns -> Join!Cells] |->
                      Join!Cardinality({m \in Join!Matches : Join!ResultRow(m) = v})]
      BY SameCardinality
    <3>6. Join!Join  BY <2>1, <3>4, <3>5 DEF Join!Join
    <3> QED BY <3>6
  <2> QED BY <2>2, <2>3, <2>4
<1>3. JoinInv => Counted  BY AnswerReached
<1> HIDE DEF Shown, Counted
<1> QED BY <1>1, <1>2, <1>3, JoinInvariant, PTL DEF Spec, ImplementsJoin, Join!Spec
=============================================================================
