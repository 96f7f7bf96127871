------------------------ MODULE ThreadedTableProofs ------------------------
(***************************************************************************)
(* Theorems about the parallel build, for every column, number of threads, *)
(* block size, hash and tags: its variables are well typed; no two builders *)
(* are ever about to access the same directory entry; merge_partitions      *)
(* links every row once in the chain of its partition; the builders of      *)
(* postProcessBuild fill the storage without meeting; and the finished      *)
(* table implements the abstract index.                                     *)
(***************************************************************************)
EXTENDS ThreadedTable, Arithmetic, FiniteSetTheorems

-----------------------------------------------------------------------------
(* The slots of a partition.                                                *)

(* The directory's slots, when it exists: s of them for every partition. *)
LEMMA SlotsPerPartition ==
  ASSUME capacity \in DirectorySizes
  PROVE  \E s, l \in Nat \ {0} :
           /\ capacity = s * NumPartitions /\ HashSize = l * capacity
           /\ HashSize \div capacity = l /\ HashSize \div NumPartitions = l * s
           /\ \A p \in Nat : FirstSlot(p) = p * s /\ EndSlot(p) = (p + 1) * s
<1>1. PICK s \in 1 .. capacity, l \in 1 .. HashSize :
        capacity = s * NumPartitions /\ HashSize = l * capacity
  BY SizesAssumption DEF SizesAssumption
<1>2. capacity \in Nat /\ NumPartitions \in Nat \ {0} /\ HashSize \in Nat
  BY SizesAssumption DEF SizesAssumption
<1>3. s \in Nat \ {0} /\ l \in Nat \ {0}
  BY <1>2
<1>4. capacity \in Nat \ {0}
  BY <1>2, <1>3
<1>5. HashSize \div capacity = l
  BY <1>1, <1>3, <1>4, DivOfMultiple
<1>6. HashSize = (l * s) * NumPartitions /\ l * s \in Nat
  BY <1>1, <1>2, <1>3, SMTT(30)
<1>7. HashSize \div NumPartitions = l * s
  BY <1>2, <1>6, DivOfMultiple
<1>8. ASSUME NEW p \in Nat
      PROVE  FirstSlot(p) = p * s /\ EndSlot(p) = (p + 1) * s
  <2>1. p * capacity = (p * s) * NumPartitions
    BY <1>1, <1>2, <1>3, SMTT(30)
  <2>2. (p + 1) * capacity = ((p + 1) * s) * NumPartitions
    BY <1>1, <1>2, <1>3, SMTT(30)
  <2>3. p * s \in Nat /\ (p + 1) * s \in Nat
    BY <1>3, SMTT(30)
  <2> QED
    BY <2>1, <2>2, <2>3, <1>2, DivOfMultiple DEF FirstSlot, EndSlot
<1> QED
  BY <1>1, <1>3, <1>5, <1>7, <1>8

(* A hash of partition p has its slot among the slots of p. *)
LEMMA SlotOfPartition ==
  ASSUME capacity \in DirectorySizes, NEW h \in Hashes, NEW p \in Partitions, Part(h) = p
  PROVE  SlotOf(h) \in FirstSlot(p) .. EndSlot(p) - 1
<1>1. PICK s, l \in Nat \ {0} :
        /\ HashSize \div capacity = l /\ HashSize \div NumPartitions = l * s
        /\ \A q \in Nat : FirstSlot(q) = q * s /\ EndSlot(q) = (q + 1) * s
  BY SlotsPerPartition
<1>2. h \in Nat /\ p \in Nat
  BY SizesAssumption DEF SizesAssumption, Hashes, Partitions
<1>3. h \div (l * s) = p /\ SlotOf(h) = h \div l
  BY <1>1 DEF Part, SlotOf
<1>4. p * s <= h \div l /\ h \div l < (p + 1) * s
  BY <1>2, <1>3, DivWithin
<1>5. h \div l \in Nat /\ p * s \in Nat /\ (p + 1) * s \in Nat
  BY <1>2, DivBounds, SMTT(30)
<1>6. FirstSlot(p) = p * s /\ EndSlot(p) = (p + 1) * s
  BY <1>1, <1>2
<1> QED
  BY <1>3, <1>4, <1>5, <1>6

(* No slot belongs to two partitions. *)
LEMMA SlotsDisjoint ==
  ASSUME capacity \in DirectorySizes, NEW p \in Partitions, NEW q \in Partitions, p # q
  PROVE  (FirstSlot(p) .. EndSlot(p) - 1) \cap (FirstSlot(q) .. EndSlot(q) - 1) = {}
<1>1. PICK s, l \in Nat \ {0} :
        \A r \in Nat : FirstSlot(r) = r * s /\ EndSlot(r) = (r + 1) * s
  BY SlotsPerPartition
<1>2. p \in Nat /\ q \in Nat
  BY SizesAssumption DEF SizesAssumption, Partitions
<1>3. ASSUME NEW a \in Nat, NEW b \in Nat, a < b
      PROVE  EndSlot(a) <= FirstSlot(b)
  <2>1. a + 1 \in Nat /\ a + 1 <= b
    BY <1>3
  <2>2. (a + 1) * s <= b * s
    BY <2>1, TimesMonotonic
  <2> QED
    BY <1>1, <2>2
<1>4. ASSUME NEW a \in Nat
      PROVE  FirstSlot(a) \in Int /\ EndSlot(a) \in Int
  BY <1>1, SMTT(30)
<1>5. EndSlot(p) <= FirstSlot(q) \/ EndSlot(q) <= FirstSlot(p)
  BY <1>2, <1>3
<1> QED
  BY <1>2, <1>4, <1>5

(* Every hash belongs to one of the partitions. *)
LEMMA PartInRange ==
  ASSUME NEW h \in Hashes
  PROVE  Part(h) \in Partitions
<1>1. PICK c \in DirectorySizes : c >= BuildSize
  BY SizesAssumption DEF SizesAssumption
<1>2. PICK s \in 1 .. c, l \in 1 .. HashSize : c = s * NumPartitions /\ HashSize = l * c
  BY <1>1, SizesAssumption DEF SizesAssumption
<1>3. c \in Nat /\ NumPartitions \in Nat \ {0} /\ HashSize \in Nat
  BY SizesAssumption DEF SizesAssumption
<1>4. s \in Nat \ {0} /\ l \in Nat \ {0}
  BY <1>3
<1> DEFINE w == l * s
<1>5. w \in Nat \ {0} /\ HashSize = w * NumPartitions
  BY <1>2, <1>3, <1>4, SMTT(30)
<1>6. HashSize \div NumPartitions = w
  BY <1>3, <1>5, DivOfMultiple
<1>7. h \in Nat /\ h < w * NumPartitions
  BY <1>3, <1>5 DEF Hashes
<1> HIDE DEF w
<1>8. h \div w \in Nat /\ w * (h \div w) <= h
  BY <1>5, <1>7, DivBounds
<1>9. ASSUME NumPartitions <= h \div w
      PROVE  FALSE
  <2>1. NumPartitions * w <= (h \div w) * w
    BY <1>3, <1>5, <1>8, <1>9, TimesMonotonic
  <2> QED
    BY <2>1, <1>3, <1>5, <1>7, <1>8, SMTT(30)
<1> QED
  BY <1>3, <1>6, <1>8, <1>9 DEF Part, Partitions

(* The first slot of a partition is a slot number. *)
LEMMA FirstSlotNat ==
  ASSUME capacity \in DirectorySizes, NEW p \in Partitions
  PROVE  FirstSlot(p) \in Nat
<1>1. PICK s, l \in Nat \ {0} : \A q \in Nat : FirstSlot(q) = q * s
  BY SlotsPerPartition
<1>2. p \in Nat
  BY SizesAssumption DEF SizesAssumption, Partitions
<1> QED
  BY <1>1, <1>2, SMTT(30)

(* A row that is not NULL has a hash and a partition. *)
LEMMA RowHashed ==
  ASSUME column \in [Rows -> Keys \cup {Null}], NEW r \in Rows, column[r] # Null
  PROVE  Hash[column[r]] \in Hashes /\ RowPart(r) \in Partitions
<1>1. Hash[column[r]] \in Hashes
  BY KeysAssumption DEF KeysAssumption
<1> QED
  BY <1>1, PartInRange DEF RowPart

-----------------------------------------------------------------------------
(* The rows of a collector are counted from a natural number. *)
LEMMA RowRange ==
  RowsPerThread \in Nat /\ \A t \in Partitions : FirstRow(t) \in Nat
<1> USE SizesAssumption DEF SizesAssumption
<1>1. BuildSize + NumPartitions - 1 \in Nat
  OBVIOUS
<1>2. RowsPerThread \in Nat
  BY <1>1, DivBounds DEF RowsPerThread
<1>3. ASSUME NEW t \in Partitions
      PROVE  FirstRow(t) \in Nat
  BY <1>2, SMTT(30) DEF FirstRow, Partitions
<1> QED
  BY <1>2, <1>3

(* Updating a function keeps its type when the new value has it. *)
LEMMA FunctionUpdate ==
  ASSUME NEW D, NEW E, NEW f \in [D -> E], NEW x, NEW e, x \in D => e \in E
  PROVE  [f EXCEPT ![x] = e] \in [D -> E]
  OBVIOUS

(* Variables an action leaves alone keep their types. *)
LEMMA TypesUnchanged ==
  /\ CollectTypeOK /\ UNCHANGED collectVars => CollectTypeOK'
  /\ ChainTypeOK /\ UNCHANGED chainVars => ChainTypeOK'
  /\ MergeTypeOK /\ UNCHANGED mergeVars => MergeTypeOK'
  /\ TableTypeOK /\ UNCHANGED tableVars => TableTypeOK'
  /\ BuildTypeOK /\ UNCHANGED buildVars => BuildTypeOK'
<1>1. CollectTypeOK /\ UNCHANGED collectVars => CollectTypeOK'
  BY DEF CollectTypeOK, collectVars
<1>2. ChainTypeOK /\ UNCHANGED chainVars => ChainTypeOK'
  BY DEF ChainTypeOK, chainVars
<1>3. MergeTypeOK /\ UNCHANGED mergeVars => MergeTypeOK'
  BY DEF MergeTypeOK, mergeVars
<1>4. TableTypeOK /\ UNCHANGED tableVars => TableTypeOK'
  BY DEF TableTypeOK, tableVars
<1>5. BuildTypeOK /\ UNCHANGED buildVars => BuildTypeOK'
  BY DEF BuildTypeOK, buildVars
<1> QED
  BY <1>1, <1>2, <1>3, <1>4, <1>5

(* Chains stay pure when neither they nor the column change. *)
LEMMA BlocksUnchanged ==
  ASSUME BlocksPure, UNCHANGED <<column, chainVars>>
  PROVE  BlocksPure'
<1>1. UNCHANGED <<column, next, tuples>>
  BY DEF chainVars
<1> QED
  BY <1>1 DEF BlocksPure, BlockOf, RowPart

(* So do the pointers into them. *)
LEMMA PointersUnchanged ==
  ASSUME PointersPure, UNCHANGED <<column, phase, chainVars, head, heads, tail, cursor>>
  PROVE  PointersPure'
<1>1. UNCHANGED <<column, phase, tuples, head, heads, tail, cursor>>
  BY DEF chainVars
<1> QED
  BY <1>1 DEF PointersPure, BlockOf, RowPart

(* And the builders' places in them. *)
LEMMA BuilderUnchanged ==
  ASSUME BuilderSound, UNCHANGED <<column, phase, chainVars, capacity, at, bpc, slot>>
  PROVE  BuilderSound'
<1>1. UNCHANGED <<column, phase, tuples, capacity, at, bpc, slot>>
  BY DEF chainVars
<1> QED
  BY <1>1 DEF BuilderSound, BlockOf, RowPart, FirstSlot

-----------------------------------------------------------------------------
(* The inductive invariant holds at the start.                              *)
LEMMA InitIInv == Init => IInv
<1> SUFFICES ASSUME Init PROVE IInv
  OBVIOUS
<1> USE SizesAssumption, KeysAssumption DEF SizesAssumption, KeysAssumption
<1>1. \A t \in Partitions : FirstRow(t) \in Nat
  BY RowRange
<1>2. CollectTypeOK
  BY <1>1 DEF Init, CollectTypeOK
<1>3. ChainTypeOK
  BY DEF Init, ChainTypeOK, Rows
<1>4. MergeTypeOK
  BY DEF Init, MergeTypeOK, Partitions
<1>5. TableTypeOK
  BY DEF Init, TableTypeOK
<1>6. BuildTypeOK
  BY DEF Init, BuildTypeOK
<1>7. TypeOK
  BY <1>2, <1>3, <1>4, <1>5, <1>6 DEF Init, TypeOK
<1>8. BlocksPure /\ PointersPure /\ BuilderSound
  BY DEF Init, BlocksPure, PointersPure, BuilderSound, BlockOf
<1> QED
  BY <1>7, <1>8 DEF IInv

-----------------------------------------------------------------------------
(* A collector that skips a NULL moves its row index only. *)
LEMMA SkipNullIInv ==
  ASSUME IInv, NEW t \in Partitions, SkipNull(t)
  PROVE  IInv'
<1>1. row' = [row EXCEPT ![t] = @ + 1]
  BY DEF SkipNull
<1>2. UNCHANGED <<column, phase, head, counts, chainVars, mergeVars, tableVars, buildVars>>
  BY DEF SkipNull
<1>3. CollectTypeOK'
  BY <1>1, <1>2 DEF IInv, TypeOK, CollectTypeOK
<1>4. TypeOK'
  BY <1>2, <1>3, TypesUnchanged DEF IInv, TypeOK
<1>5. BlocksPure' /\ PointersPure' /\ BuilderSound'
  BY <1>2, BlocksUnchanged, PointersUnchanged, BuilderUnchanged
     DEF IInv, mergeVars, tableVars, buildVars
<1> QED
  BY <1>4, <1>5 DEF IInv

(* A consumed tuple goes to a block of its own partition, an old or a new   *)
(* one, and no block loses its tuples.                                      *)
LEMMA ConsumeIInv ==
  ASSUME IInv, NEW t \in Partitions, Consume(t)
  PROVE  IInv'
<1>1. row[t] \in Rows /\ column[row[t]] # Null
  <2>1. row[t] \in Nat /\ row[t] < EndRow(t) /\ column[row[t]] # Null
    BY DEF IInv, TypeOK, CollectTypeOK, Consume
  <2>2. EndRow(t) \in Nat /\ EndRow(t) <= BuildSize
    BY RowRange, SizesAssumption DEF SizesAssumption, EndRow
  <2> QED
    BY <2>1, <2>2, SizesAssumption DEF SizesAssumption, Rows
<1>2. PICK r \in Rows : r = row[t] /\ column[r] # Null
  BY <1>1
<1>3. PICK p \in Partitions : p = RowPart(r)
  BY <1>2, RowHashed DEF IInv, TypeOK
<1>4. PICK b \in Rows \cup {Nil} : b = head[t][p]
  BY DEF IInv, TypeOK, CollectTypeOK
<1>5. b # Nil => tuples[b] # <<>> /\ RowPart(b) = p /\ column[b] # Null
  BY <1>4 DEF IInv, PointersPure, BlockOf
<1>6. UNCHANGED <<column, phase, tail, heads, cursor, capacity, at, slot, bpc>>
  BY DEF Consume, mergeVars, tableVars, buildVars
<1>7. UNCHANGED <<mergeVars, tableVars, buildVars>>
  BY DEF Consume
<1>8. counts' = [counts EXCEPT ![t][p] = @ + 1] /\ row' = [row EXCEPT ![t] = @ + 1]
  BY <1>2, <1>3 DEF Consume
<1>9. tuples \in [Rows -> Seq(Rows)] /\ next \in [Rows -> Rows \cup {Nil}]
  BY DEF IInv, TypeOK, ChainTypeOK
<1>10. head \in [Partitions -> [Partitions -> Rows \cup {Nil}]]
  BY DEF IInv, TypeOK, CollectTypeOK
(* What is left to show, given what the two cases say of the blocks.        *)
<1>11. ASSUME \A x \in Rows : tuples[x] # <<>> => tuples'[x] # <<>>,
              BlocksPure', CollectTypeOK', ChainTypeOK',
              \A u, q \in Partitions : head'[u][q] = head[u][q]
                \/ (q = p /\ head'[u][q] = r /\ tuples'[r] # <<>>)
       PROVE  IInv'
  <2>1. TypeOK'
    BY <1>6, <1>7, <1>11, TypesUnchanged DEF IInv, TypeOK
  <2>2. \A x, q : BlockOf(x, q) => BlockOf(x, q)'
    BY <1>6, <1>11 DEF BlockOf, RowPart
  <2>3. ASSUME NEW u \in Partitions, NEW q \in Partitions
        PROVE  BlockOf(head[u][q], q)'
    <3>1. CASE head'[u][q] = head[u][q]
      <4>1. BlockOf(head[u][q], q)
        BY DEF IInv, PointersPure
      <4> QED
        BY <4>1, <3>1, <1>6, <1>11 DEF BlockOf, RowPart
    <3>2. CASE q = p /\ head'[u][q] = r /\ tuples'[r] # <<>>
      BY <1>2, <1>3, <1>6, <3>2 DEF BlockOf, RowPart
    <3> QED
      BY <1>11, <3>1, <3>2
  <2>4. ASSUME NEW q \in Partitions
        PROVE  BlockOf(heads[q], q)'
    <3>1. BlockOf(heads[q], q)
      BY DEF IInv, PointersPure
    <3> QED
      BY <3>1, <1>6, <1>11 DEF BlockOf, RowPart
  <2>8. PointersPure'
    <3>1. BlockOf(tail, cursor[1]) /\ (phase # "merge" => tail = Nil)
      BY DEF IInv, PointersPure
    <3>2. BlockOf(tail, cursor[1])' /\ (phase # "merge" => tail = Nil)'
      BY <3>1, <1>6, <1>11 DEF BlockOf, RowPart
    <3> QED
      BY <2>3, <2>4, <3>2 DEF PointersPure
  <2>5. \A q \in Partitions : phase = "collect" => at[q][1] = Nil
    BY DEF IInv, BuilderSound
  <2>6. phase = "collect"
    BY DEF Consume
  <2>7. BuilderSound'
    BY <1>6, <2>5, <2>6 DEF IInv, BuilderSound, BlockOf, FirstSlot
  <2> QED
    BY <2>1, <2>8, <2>7, <1>11 DEF IInv
<1>12. CASE b = Nil \/ Len(tuples[b]) = TuplesPerBlock
  <2>1. /\ head' = [head EXCEPT ![t][p] = r]
        /\ next' = [next EXCEPT ![r] = b]
        /\ tuples' = [tuples EXCEPT ![r] = <<r>>]
    BY <1>12, <1>2, <1>3, <1>4 DEF Consume
  <2>2. CollectTypeOK'
    BY <1>8, <2>1 DEF IInv, TypeOK, CollectTypeOK
  <2>3. ChainTypeOK'
    BY <2>1 DEF IInv, TypeOK, ChainTypeOK
  <2>4. \A x \in Rows : x # r => tuples'[x] = tuples[x] /\ next'[x] = next[x]
    BY <1>9, <2>1
  <2>5. tuples'[r] = <<r>> /\ next'[r] = b
    BY <1>9, <2>1
  <2>6. ASSUME NEW x \in Rows, tuples'[x] # <<>>
        PROVE  /\ BlockOf(next[x], RowPart(x))'
               /\ \A i \in 1 .. Len(tuples'[x]) :
                    column[tuples'[x][i]] # Null /\ RowPart(tuples'[x][i]) = RowPart(x)
    <3>1. CASE x = r
      <4>1. \A i \in 1 .. Len(tuples'[x]) : tuples'[x][i] = r
        BY <2>5, <3>1
      <4> QED
        BY <1>2, <1>3, <1>5, <1>6, <2>4, <2>5, <3>1, <4>1, SMTT(30) DEF BlockOf, RowPart
    <3>2. CASE x # r
      <4>1. tuples'[x] = tuples[x] /\ next'[x] = next[x]
        BY <2>4, <3>2
      <4>2. BlockOf(next[x], RowPart(x))
        BY <2>6, <4>1 DEF IInv, BlocksPure
      <4>3. BlockOf(next[x], RowPart(x))'
        BY <1>6, <2>4, <2>5, <4>1, <4>2 DEF BlockOf, RowPart
      <4> QED
        BY <2>6, <4>1, <4>3 DEF IInv, BlocksPure
    <3> QED
      BY <3>1, <3>2
  <2>7. BlocksPure'
    BY <1>6, <2>6 DEF BlocksPure, RowPart
  <2>8. \A x \in Rows : tuples[x] # <<>> => tuples'[x] # <<>>
    BY <2>4, <2>5
  <2>9. \A u, q \in Partitions : head'[u][q] = head[u][q]
          \/ (q = p /\ head'[u][q] = r /\ tuples'[r] # <<>>)
    <3>1. tuples'[r] # <<>>
      BY <2>5
    <3>2. ASSUME NEW u \in Partitions, NEW q \in Partitions
          PROVE  head'[u][q] = head[u][q] \/ (q = p /\ head'[u][q] = r)
      <4>1. CASE u = t /\ q = p
        BY <1>10, <2>1, <4>1
      <4>2. CASE u # t
        BY <1>10, <2>1, <4>2
      <4>3. CASE u = t /\ q # p
        BY <1>10, <2>1, <4>3
      <4> QED
        BY <4>1, <4>2, <4>3
    <3> QED
      BY <3>1, <3>2
  <2> QED
    BY <2>2, <2>3, <2>7, <2>8, <2>9, <1>11
<1>13. CASE b # Nil /\ Len(tuples[b]) # TuplesPerBlock
  <2>1. tuples' = [tuples EXCEPT ![b] = Append(@, r)] /\ UNCHANGED <<head, next>>
    BY <1>13, <1>2, <1>3, <1>4 DEF Consume
  <2>2. CollectTypeOK'
    BY <1>8, <2>1 DEF IInv, TypeOK, CollectTypeOK
  <2>3. b \in Rows /\ tuples[b] \in Seq(Rows)
    BY <1>9, <1>13
  <2>4. tuples'[b] = Append(tuples[b], r) /\ \A x \in Rows : x # b => tuples'[x] = tuples[x]
    BY <1>9, <2>1, <2>3
  <2>5. tuples' \in [Rows -> Seq(Rows)]
    <3>1. Append(tuples[b], r) \in Seq(Rows)
      BY <2>3
    <3> QED
      BY <3>1, <1>9, <2>1
  <2>6. ChainTypeOK'
    BY <2>1, <2>5 DEF IInv, TypeOK, ChainTypeOK
  <2>7. /\ Len(tuples'[b]) = Len(tuples[b]) + 1
        /\ tuples'[b][Len(tuples[b]) + 1] = r
        /\ \A i \in 1 .. Len(tuples[b]) : tuples'[b][i] = tuples[b][i]
    <3> DEFINE old == tuples[b]
    <3>1. old \in Seq(Rows) /\ tuples'[b] = Append(old, r)
      BY <2>3, <2>4
    <3> HIDE DEF old
    <3>2. /\ Len(tuples'[b]) = Len(old) + 1
          /\ tuples'[b][Len(old) + 1] = r
          /\ \A i \in 1 .. Len(old) : tuples'[b][i] = old[i]
      BY <3>1
    <3> QED
      BY <3>2 DEF old
  <2>8. \A x \in Rows : tuples[x] # <<>> => tuples'[x] # <<>>
    BY <2>3, <2>4, <2>7
  <2>9. ASSUME NEW x \in Rows, tuples'[x] # <<>>
        PROVE  /\ BlockOf(next[x], RowPart(x))'
               /\ \A i \in 1 .. Len(tuples'[x]) :
                    column[tuples'[x][i]] # Null /\ RowPart(tuples'[x][i]) = RowPart(x)
    <3>1. tuples[x] # <<>>
      BY <1>5, <1>13, <2>4, <2>9
    <3>2. BlockOf(next[x], RowPart(x))
      BY <3>1 DEF IInv, BlocksPure
    <3>3. BlockOf(next[x], RowPart(x))'
      BY <1>6, <2>1, <2>8, <3>2 DEF BlockOf, RowPart
    <3>4. \A i \in 1 .. Len(tuples[x]) :
            column[tuples[x][i]] # Null /\ RowPart(tuples[x][i]) = RowPart(x)
      BY <3>1 DEF IInv, BlocksPure
    <3>5. CASE x # b
      BY <2>4, <3>3, <3>4, <3>5
    <3>6. CASE x = b
      <4>1. ASSUME NEW i \in 1 .. Len(tuples'[b])
            PROVE  column[tuples'[b][i]] # Null /\ RowPart(tuples'[b][i]) = RowPart(b)
        <5>1. Len(tuples[b]) \in Nat
          BY <2>3
        <5>2. CASE i = Len(tuples[b]) + 1
          BY <1>2, <1>3, <1>5, <1>13, <2>7, <5>2
        <5>3. CASE i # Len(tuples[b]) + 1
          BY <2>7, <3>4, <3>6, <5>1, <5>3
        <5> QED
          BY <5>2, <5>3
      <4> QED
        BY <3>3, <3>6, <4>1
    <3> QED
      BY <3>5, <3>6
  <2>10. BlocksPure'
    BY <1>6, <2>9 DEF BlocksPure, RowPart
  <2> QED
    BY <2>1, <2>2, <2>6, <2>8, <2>10, <1>11
<1> QED
  BY <1>12, <1>13

(* The loops over partitions and collectors stay in range. *)
LEMMA CursorInRange ==
  ASSUME MergeTypeOK, ~CursorDone
  PROVE  /\ NextCursor \in (0 .. NumPartitions) \X Partitions
         /\ cursor[1] \in Partitions /\ cursor[2] \in Partitions
<1>1. cursor[1] \in 0 .. NumPartitions /\ cursor[2] \in Partitions
  BY DEF MergeTypeOK
<1> QED
  BY <1>1, SizesAssumption DEF SizesAssumption, CursorDone, NextCursor, Partitions

(* The main thread's joins and the counting loop touch no chain. *)
LEMMA LoopsIInv ==
  ASSUME IInv, JoinCollectors \/ MergeDone \/ AddCount
  PROVE  IInv'
<1>1. \A p \in Partitions : bpc[p] = "prefix" => phase \in {"build", "built"}
  BY DEF IInv, BuilderSound
<1>2. UNCHANGED <<column, collectVars, chainVars, tableVars, buildVars>>
  BY DEF JoinCollectors, MergeDone, AddCount
<1>3. BlocksPure'
  BY <1>2, BlocksUnchanged DEF IInv
<1>4. UNCHANGED <<head, tuples, next, capacity, at, slot, bpc>>
  BY <1>2 DEF collectVars, chainVars, tableVars, buildVars
<1>5. CASE JoinCollectors
  <2>1. phase = "collect" /\ phase' = "merge" /\ UNCHANGED mergeVars
    BY <1>5 DEF JoinCollectors
  <2>2. TypeOK'
    BY <1>2, <2>1, TypesUnchanged DEF IInv, TypeOK
  <2>3. PointersPure'
    BY <1>2, <1>4, <2>1 DEF IInv, PointersPure, BlockOf, RowPart, mergeVars
  <2>4. BuilderSound'
    BY <1>2, <1>4, <2>1 DEF IInv, BuilderSound, BlockOf, RowPart
  <2> QED
    BY <1>3, <2>2, <2>3, <2>4 DEF IInv
<1>6. CASE MergeDone
  <2>1. /\ phase = "merge" /\ phase' = "offsets" /\ cursor[1] = NumPartitions
        /\ cursor' = <<0, 0>> /\ UNCHANGED <<tail, heads, offsets, running>>
    BY <1>6 DEF MergeDone, CursorDone
  <2>2. MergeTypeOK'
    BY <2>1, SizesAssumption DEF IInv, TypeOK, MergeTypeOK, SizesAssumption, Partitions
  <2>3. TypeOK'
    BY <1>2, <2>1, <2>2, TypesUnchanged DEF IInv, TypeOK
  <2>4. tail = Nil
    <3> SUFFICES ASSUME tail # Nil PROVE FALSE
      OBVIOUS
    <3>1. tail \in Rows /\ column[tail] # Null /\ RowPart(tail) = NumPartitions
      BY <2>1 DEF IInv, PointersPure, BlockOf
    <3>2. RowPart(tail) \in Partitions
      BY <3>1, RowHashed DEF IInv, TypeOK
    <3> QED
      BY <3>1, <3>2, SizesAssumption DEF SizesAssumption, Partitions
  <2>5. PointersPure'
    BY <1>2, <1>4, <2>1, <2>4 DEF IInv, PointersPure, BlockOf, RowPart
  <2>6. BuilderSound'
    BY <1>2, <1>4, <2>1 DEF IInv, BuilderSound, BlockOf, RowPart
  <2> QED
    BY <1>3, <2>3, <2>5, <2>6 DEF IInv
<1>7. CASE AddCount
  <2>1. /\ phase = "offsets" /\ phase' = phase /\ ~CursorDone /\ UNCHANGED <<tail, heads>>
        /\ running' = running + counts[cursor[2]][cursor[1]] /\ cursor' = NextCursor
        /\ offsets' = IF cursor[2] = 0
                      THEN [offsets EXCEPT ![cursor[1]] = running] ELSE offsets
    BY <1>7 DEF AddCount, SumBefore
  <2>2. cursor' \in (0 .. NumPartitions) \X Partitions
        /\ cursor[1] \in Partitions /\ cursor[2] \in Partitions
    BY <2>1, CursorInRange DEF IInv, TypeOK
  <2>3. counts[cursor[2]][cursor[1]] \in Nat
    BY <2>2 DEF IInv, TypeOK, CollectTypeOK
  <2>4. MergeTypeOK'
    BY <2>1, <2>2, <2>3 DEF IInv, TypeOK, MergeTypeOK
  <2>5. TypeOK'
    BY <1>2, <2>1, <2>4, TypesUnchanged DEF IInv, TypeOK
  <2>6. PointersPure'
    BY <1>2, <1>4, <2>1 DEF IInv, PointersPure, BlockOf, RowPart
  <2>7. BuilderSound'
    BY <1>2, <1>4, <2>1 DEF IInv, BuilderSound, BlockOf, RowPart, FirstSlot
  <2> QED
    BY <1>3, <2>5, <2>6, <2>7 DEF IInv
<1> QED
  BY <1>5, <1>6, <1>7

(* The walk to the end of a chain stays in its partition. *)
LEMMA MergeWalkIInv ==
  ASSUME IInv, MergeWalk
  PROVE  IInv'
<1>1. /\ phase = "merge" /\ tail # Nil /\ next[tail] # Nil /\ tail' = next[tail]
      /\ UNCHANGED <<column, phase, collectVars, chainVars, cursor, heads, offsets, running,
                     tableVars, buildVars>>
  BY DEF MergeWalk, AtChainEnd, TailNext
<1>2. UNCHANGED <<head, tuples, next, capacity, at, slot, bpc>>
  BY <1>1 DEF collectVars, chainVars, tableVars, buildVars
<1>3. MergeTypeOK'
  BY <1>1 DEF IInv, TypeOK, ChainTypeOK, MergeTypeOK
<1>4. TypeOK'
  BY <1>1, <1>3, TypesUnchanged DEF IInv, TypeOK
<1>5. tail \in Rows /\ tuples[tail] # <<>> /\ RowPart(tail) = cursor[1]
  BY <1>1 DEF IInv, PointersPure, BlockOf
<1>6. BlockOf(next[tail], cursor[1])
  BY <1>5 DEF IInv, BlocksPure
<1>7. PointersPure'
  BY <1>1, <1>2, <1>6 DEF IInv, PointersPure, BlockOf, RowPart
<1>8. BlocksPure' /\ BuilderSound'
  BY <1>1, <1>2, BlocksUnchanged, BuilderUnchanged DEF IInv
<1> QED
  BY <1>4, <1>7, <1>8 DEF IInv

(* So does a link: both its blocks are of the partition being merged. *)
LEMMA MergeLinkIInv ==
  ASSUME IInv, MergeLink
  PROVE  IInv'
<1>1. phase = "merge" /\ ~CursorDone
  BY DEF MergeLink
<1>2. PICK p \in Partitions, t \in Partitions : p = cursor[1] /\ t = cursor[2]
  BY <1>1, CursorInRange DEF IInv, TypeOK
<1>3. PICK c \in Rows \cup {Nil} : c = head[t][p]
  BY DEF IInv, TypeOK, CollectTypeOK
<1>4. PICK l \in Rows \cup {Nil} : l = tail
  BY DEF IInv, TypeOK, MergeTypeOK
<1>5. BlockOf(c, p) /\ BlockOf(l, p)
  BY <1>2, <1>3, <1>4 DEF IInv, PointersPure
<1>6. /\ heads' = (IF c # Nil /\ l = Nil THEN [heads EXCEPT ![p] = c] ELSE heads)
      /\ next' = (IF c # Nil /\ l # Nil THEN [next EXCEPT ![l] = c] ELSE next)
      /\ cursor' = NextCursor
      /\ (NextCursor[1] # p => tail' = Nil) /\ tail' \in {Nil, l, c}
      /\ UNCHANGED <<column, phase, collectVars, tuples, offsets, running, tableVars, buildVars>>
  BY <1>2, <1>3, <1>4 DEF MergeLink
<1>7. UNCHANGED <<column, phase, head, tuples, capacity, at, slot, bpc>>
  BY <1>6 DEF collectVars, tableVars, buildVars
<1>8. ChainTypeOK'
  BY <1>3, <1>4, <1>6 DEF IInv, TypeOK, ChainTypeOK
<1>9. MergeTypeOK'
  <2>1. NextCursor \in (0 .. NumPartitions) \X Partitions
    BY <1>1, CursorInRange DEF IInv, TypeOK
  <2> QED
    BY <2>1, <1>3, <1>4, <1>6 DEF IInv, TypeOK, MergeTypeOK
<1>10. TypeOK'
  BY <1>6, <1>8, <1>9, TypesUnchanged DEF IInv, TypeOK
<1>11. BlocksPure'
  <2> SUFFICES ASSUME NEW x \in Rows, tuples[x] # <<>>
               PROVE  BlockOf(next[x], RowPart(x))'
    BY <1>7 DEF IInv, BlocksPure, RowPart
  <2>1. BlockOf(next[x], RowPart(x))
    BY DEF IInv, BlocksPure
  <2>2. next \in [Rows -> Rows \cup {Nil}]
    BY DEF IInv, TypeOK, ChainTypeOK
  <2>3. CASE c # Nil /\ l = x
    <3>1. l # Nil
      BY <2>3, KeysAssumption DEF KeysAssumption
    <3>2. next'[x] = c /\ RowPart(x) = p
      BY <1>5, <1>6, <2>2, <2>3, <3>1 DEF BlockOf
    <3> QED
      BY <3>2, <1>5, <1>7 DEF BlockOf, RowPart
  <2>4. CASE ~(c # Nil /\ l = x)
    <3>1. next'[x] = next[x]
      BY <1>6, <2>2, <2>4
    <3> QED
      BY <3>1, <2>1, <1>7 DEF BlockOf, RowPart
  <2> QED
    BY <2>3, <2>4
<1>12. PointersPure'
  <2>1. ASSUME NEW q \in Partitions
        PROVE  BlockOf(heads[q], q)'
    <3>1. BlockOf(heads[q], q)
      BY DEF IInv, PointersPure
    <3>2. heads \in [Partitions -> Rows \cup {Nil}]
      BY DEF IInv, TypeOK, MergeTypeOK
    <3>3. heads'[q] = heads[q] \/ (q = p /\ heads'[q] = c)
      BY <1>6, <3>2
    <3> QED
      BY <1>5, <1>7, <3>1, <3>3 DEF BlockOf, RowPart
  <2>2. ASSUME NEW u \in Partitions, NEW q \in Partitions
        PROVE  BlockOf(head[u][q], q)'
    <3>1. BlockOf(head[u][q], q)
      BY DEF IInv, PointersPure
    <3> QED
      BY <1>7, <3>1 DEF BlockOf, RowPart
  <2>3. BlockOf(tail, cursor[1])'
    <3>1. CASE tail' = Nil
      BY <3>1 DEF BlockOf
    <3>2. CASE tail' # Nil
      <4>1. cursor'[1] = p /\ tail' \in {l, c}
        BY <1>6, <3>2
      <4> QED
        BY <4>1, <1>5, <1>7 DEF BlockOf, RowPart
    <3> QED
      BY <3>1, <3>2
  <2>4. phase' = "merge"
    BY <1>1, <1>6
  <2> QED
    BY <2>1, <2>2, <2>3, <2>4 DEF PointersPure
<1>13. BuilderSound'
  BY <1>7 DEF IInv, BuilderSound, BlockOf, RowPart, FirstSlot
<1> QED
  BY <1>10, <1>11, <1>12, <1>13 DEF IInv

(* The new table: builders start at the heads of their own chains. *)
LEMMA MakeTableIInv ==
  ASSUME IInv, MakeTable
  PROVE  IInv'
<1>1. /\ phase = "offsets" /\ phase' = "build" /\ capacity' \in DirectorySizes
      /\ dir' = [s \in -1 .. capacity' - 1 |->
                   [ptr |-> IF s = -1 THEN Base ELSE 0, bloom |-> {}]]
      /\ storage' = [c \in 0 .. running - 1 |-> Uninit]
      /\ at' = [p \in Partitions |-> <<heads[p], 1>>]
      /\ UNCHANGED <<column, collectVars, chainVars, mergeVars, bpc, slot, cur>>
  BY DEF MakeTable
<1>2. UNCHANGED <<head, tuples, heads, tail, cursor>>
  BY <1>1 DEF collectVars, chainVars, mergeVars
<1>3. heads \in [Partitions -> Rows \cup {Nil}] /\ running \in Nat
  BY DEF IInv, TypeOK, MergeTypeOK
<1>4. TableTypeOK'
  <2>1. dir' \in [-1 .. capacity' - 1 -> [ptr : Nat, bloom : SUBSET TagBits]]
    BY <1>1, SizesAssumption DEF SizesAssumption
  <2> QED
    BY <1>1, <1>3, <2>1 DEF TableTypeOK
<1>5. BuildTypeOK'
  <2>1. at' \in [Partitions -> (Rows \cup {Nil}) \X (Nat \ {0})]
    BY <1>1, <1>3
  <2> QED
    BY <1>1, <2>1 DEF IInv, TypeOK, BuildTypeOK
<1>6. TypeOK'
  BY <1>1, <1>4, <1>5, TypesUnchanged DEF IInv, TypeOK
<1>7. BlocksPure'
  BY <1>1, BlocksUnchanged DEF IInv
<1>8. PointersPure'
  BY <1>1, <1>2 DEF IInv, PointersPure, BlockOf, RowPart
<1>9. BuilderSound'
  <2>1. \A p \in Partitions : bpc'[p] # "prefix"
    BY <1>1 DEF IInv, BuilderSound
  <2>2. ASSUME NEW p \in Partitions
        PROVE  /\ BlockOf(at[p][1], p)'
               /\ at'[p][1] # Nil => at'[p][2] \in 1 .. Len(tuples'[at'[p][1]])
    <3>1. at'[p][1] = heads[p] /\ at'[p][2] = 1
      BY <1>1
    <3>2. BlockOf(heads[p], p)
      BY DEF IInv, PointersPure
    <3>3. heads[p] # Nil => tuples[heads[p]] \in Seq(Rows) /\ tuples[heads[p]] # <<>>
      BY <3>2 DEF BlockOf, IInv, TypeOK, ChainTypeOK
    <3> QED
      BY <1>1, <1>2, <3>1, <3>2, <3>3 DEF BlockOf, RowPart
  <2> QED
    BY <1>1, <2>1, <2>2 DEF BuilderSound
<1> QED
  BY <1>6, <1>7, <1>8, <1>9 DEF IInv

(* The tuple a walking builder is at is of its partition; so is the place   *)
(* the walk goes to next.                                                   *)
LEMMA WalkInPartition ==
  ASSUME IInv, NEW p \in Partitions, at[p][1] # Nil
  PROVE  /\ TupleAt(p) \in Rows /\ column[TupleAt(p)] # Null /\ RowPart(TupleAt(p)) = p
         /\ After(at[p]) \in (Rows \cup {Nil}) \X (Nat \ {0})
         /\ BlockOf(After(at[p])[1], p)
         /\ After(at[p])[1] # Nil => After(at[p])[2] \in 1 .. Len(tuples[After(at[p])[1]])
<1>1. PICK b \in Rows, i \in Nat \ {0} : at[p] = <<b, i>>
  BY DEF IInv, TypeOK, BuildTypeOK
<1>2. BlockOf(b, p) /\ i \in 1 .. Len(tuples[b]) /\ b # Nil
  BY <1>1 DEF IInv, BuilderSound
<1>3. tuples[b] \in Seq(Rows) /\ tuples[b] # <<>> /\ RowPart(b) = p
  BY <1>2 DEF BlockOf, IInv, TypeOK, ChainTypeOK
<1>4. TupleAt(p) = tuples[b][i]
  BY <1>1 DEF TupleAt
<1>5. TupleAt(p) \in Rows /\ column[TupleAt(p)] # Null /\ RowPart(TupleAt(p)) = p
  BY <1>2, <1>3, <1>4 DEF IInv, BlocksPure
<1>6. CASE i < Len(tuples[b])
  <2>1. After(at[p]) = <<b, i + 1>>
    BY <1>1, <1>6 DEF After
  <2> QED
    BY <1>2, <1>3, <1>5, <1>6, <2>1
<1>7. CASE ~(i < Len(tuples[b]))
  <2>1. After(at[p]) = <<next[b], 1>>
    BY <1>1, <1>7 DEF After
  <2>2. next[b] \in Rows \cup {Nil} /\ BlockOf(next[b], p)
    BY <1>3 DEF IInv, BlocksPure, TypeOK, ChainTypeOK
  <2>3. next[b] # Nil => tuples[next[b]] \in Seq(Rows) /\ tuples[next[b]] # <<>>
    BY <2>2 DEF BlockOf, IInv, TypeOK, ChainTypeOK
  <2> QED
    BY <1>5, <2>1, <2>2, <2>3
<1> QED
  BY <1>6, <1>7

(* What a builder changes of the places in the chains, whatever its phase.  *)
LEMMA BuilderMoves ==
  ASSUME IInv, NEW p \in Partitions, phase = "build",
         UNCHANGED <<column, phase, collectVars, chainVars, mergeVars, capacity>>,
         BuildTypeOK', TableTypeOK',
         \A q \in Partitions : q # p => at'[q] = at[q] /\ bpc'[q] = bpc[q] /\ slot'[q] = slot[q],
         BlockOf(at'[p][1], p),
         at'[p][1] # Nil => at'[p][2] \in 1 .. Len(tuples[at'[p][1]]),
         bpc'[p] = "prefix" => FirstSlot(p) <= slot'[p]
  PROVE  IInv'
<1>1. UNCHANGED <<tuples, head, heads, tail, cursor>>
  BY DEF collectVars, chainVars, mergeVars
<1>2. TypeOK'
  BY TypesUnchanged DEF IInv, TypeOK
<1>3. BlocksPure' /\ PointersPure'
  BY <1>1, BlocksUnchanged, PointersUnchanged DEF IInv
<1>4. ASSUME NEW q \in Partitions
      PROVE  /\ BlockOf(at'[q][1], q)
             /\ at'[q][1] # Nil => at'[q][2] \in 1 .. Len(tuples[at'[q][1]])
             /\ bpc'[q] = "prefix" => FirstSlot(q) <= slot'[q]
  <2>1. CASE q = p
    BY <2>1
  <2>2. CASE q # p
    BY <2>2 DEF IInv, BuilderSound
  <2> QED
    BY <2>1, <2>2
<1>5. capacity \in DirectorySizes
  BY DEF IInv, BuilderSound
<1>6. BuilderSound'
  BY <1>1, <1>4, <1>5 DEF BuilderSound, BlockOf, RowPart, FirstSlot
<1> QED
  BY <1>2, <1>3, <1>6 DEF IInv

(* Each step of a builder satisfies the hypotheses of BuilderMoves. *)
LEMMA CountTupleIInv ==
  ASSUME IInv, NEW p \in Partitions, CountTuple(p)
  PROVE  IInv'
<1> DEFINE r == TupleAt(p)
<1>1. /\ phase = "build" /\ bpc[p] = "count" /\ at[p][1] # Nil
      /\ dir' = [dir EXCEPT ![RowSlot(r)] =
                   [ptr |-> @.ptr + 1, bloom |-> @.bloom \cup Tag[Hash[column[r]]]]]
      /\ at' = [at EXCEPT ![p] = After(at[p])]
      /\ UNCHANGED <<column, phase, collectVars, chainVars, mergeVars, capacity, storage,
                     bpc, slot, cur>>
  BY DEF CountTuple
<1>2. /\ r \in Rows /\ column[r] # Null
      /\ After(at[p]) \in (Rows \cup {Nil}) \X (Nat \ {0})
      /\ BlockOf(After(at[p])[1], p)
      /\ After(at[p])[1] # Nil => After(at[p])[2] \in 1 .. Len(tuples[After(at[p])[1]])
  BY <1>1, WalkInPartition
<1>3. at \in [Partitions -> (Rows \cup {Nil}) \X (Nat \ {0})]
  BY DEF IInv, TypeOK, BuildTypeOK
<1>4. BuildTypeOK'
  BY <1>1, <1>2, <1>3 DEF IInv, TypeOK, BuildTypeOK
<1>5. Tag[Hash[column[r]]] \subseteq TagBits
  BY <1>2, RowHashed, KeysAssumption DEF KeysAssumption, IInv, TypeOK
<1>6. TableTypeOK'
  <2> DEFINE s == RowSlot(r)
             tag == Tag[Hash[column[r]]]
  <2> HIDE DEF s, tag
  <2>1. dir \in [-1 .. capacity - 1 -> [ptr : Nat, bloom : SUBSET TagBits]]
    BY DEF IInv, TypeOK, TableTypeOK
  <2>2. dir' = [dir EXCEPT ![s] = [ptr |-> @.ptr + 1, bloom |-> @.bloom \cup tag]]
    BY <1>1 DEF s, tag
  <2>3. tag \subseteq TagBits
    BY <1>5 DEF tag
  <2> DEFINE new == [ptr |-> dir[s].ptr + 1, bloom |-> dir[s].bloom \cup tag]
  <2>4. s \in -1 .. capacity - 1 => new \in [ptr : Nat, bloom : SUBSET TagBits]
    BY <2>1, <2>3
  <2>5. dir' = [dir EXCEPT ![s] = new]
    BY <2>2
  <2> HIDE DEF new
  <2>6. dir' \in [-1 .. capacity - 1 -> [ptr : Nat, bloom : SUBSET TagBits]]
    <3> DEFINE D == -1 .. capacity - 1
               E == [ptr : Nat, bloom : SUBSET TagBits]
    <3>1. dir \in [D -> E] /\ (s \in D => new \in E)
      BY <2>1, <2>4
    <3> HIDE DEF D, E
    <3>2. [dir EXCEPT ![s] = new] \in [D -> E]
      BY <3>1, FunctionUpdate, Zenon
    <3> QED
      BY <2>5, <3>2 DEF D, E
  <2> QED
    BY <1>1, <2>6 DEF IInv, TypeOK, TableTypeOK
<1>7. at'[p] = After(at[p]) /\ \A q \in Partitions : q # p => at'[q] = at[q]
  BY <1>1, <1>3
<1>8. bpc'[p] # "prefix"
  BY <1>1
<1> QED
  BY <1>1, <1>2, <1>4, <1>6, <1>7, <1>8, BuilderMoves

(* A builder ends its first walk and begins with the first slot it owns.   *)
LEMMA CountDoneIInv ==
  ASSUME IInv, NEW p \in Partitions, CountDone(p)
  PROVE  IInv'
<1>1. /\ phase = "build" /\ at[p][1] = Nil
      /\ bpc' = [bpc EXCEPT ![p] = "prefix"]
      /\ slot' = [slot EXCEPT ![p] = FirstSlot(p)]
      /\ cur' = [cur EXCEPT ![p] = Base + offsets[p]]
      /\ UNCHANGED <<column, phase, collectVars, chainVars, mergeVars, tableVars, at>>
  BY DEF CountDone, StartAddress
<1>2. capacity \in DirectorySizes
  BY <1>1 DEF IInv, BuilderSound
<1>3. FirstSlot(p) \in Nat
  BY <1>2, FirstSlotNat
<1>4. Base + offsets[p] \in Nat
  BY SizesAssumption DEF SizesAssumption, IInv, TypeOK, MergeTypeOK
<1>5. BuildTypeOK'
  BY <1>1, <1>3, <1>4 DEF IInv, TypeOK, BuildTypeOK
<1>6. TableTypeOK' /\ capacity' = capacity
  BY <1>1, TypesUnchanged DEF IInv, TypeOK, tableVars
<1>7. /\ slot'[p] = FirstSlot(p)
      /\ \A q \in Partitions : q # p => bpc'[q] = bpc[q] /\ slot'[q] = slot[q]
  BY <1>1 DEF IInv, TypeOK, BuildTypeOK
<1> QED
  BY <1>1, <1>3, <1>5, <1>6, <1>7, BuilderMoves DEF BlockOf

(* A builder's prefix sum changes the entry of a slot it owns, no chain.    *)
LEMMA PrefixSlotIInv ==
  ASSUME IInv, NEW p \in Partitions, PrefixSlot(p)
  PROVE  IInv'
<1>1. /\ phase = "build" /\ bpc[p] = "prefix" /\ slot[p] < EndSlot(p)
      /\ dir' = [dir EXCEPT ![slot[p]] = [@ EXCEPT !.ptr = cur[p]]]
      /\ cur' = [cur EXCEPT ![p] = @ + dir[slot[p]].ptr]
      /\ slot' = [slot EXCEPT ![p] = @ + 1]
      /\ UNCHANGED <<column, phase, collectVars, chainVars, mergeVars, capacity, storage, bpc, at>>
  BY DEF PrefixSlot, PointTo
<1>2. capacity \in DirectorySizes /\ FirstSlot(p) <= slot[p]
  BY <1>1 DEF IInv, BuilderSound
<1>3. slot \in [Partitions -> Nat] /\ cur \in [Partitions -> Nat]
  BY DEF IInv, TypeOK, BuildTypeOK
<1>4. dir \in [-1 .. capacity - 1 -> [ptr : Nat, bloom : SUBSET TagBits]]
  BY DEF IInv, TypeOK, TableTypeOK
<1>5. slot[p] \in -1 .. capacity - 1
  <2>1. PICK s, l \in Nat \ {0} :
          capacity = s * NumPartitions /\ \A q \in Nat : EndSlot(q) = (q + 1) * s
    BY <1>2, SlotsPerPartition
  <2>2. p \in Nat /\ p + 1 \in Nat /\ p + 1 <= NumPartitions /\ NumPartitions \in Nat
    BY SizesAssumption DEF SizesAssumption, Partitions
  <2>3. (p + 1) * s <= NumPartitions * s
    BY <2>2, TimesMonotonic
  <2>4. NumPartitions * s = capacity
    BY <2>1, <2>2, SMTT(30)
  <2>5. EndSlot(p) <= capacity /\ EndSlot(p) \in Nat /\ capacity \in Nat
    BY <1>2, <2>1, <2>2, <2>3, <2>4, SizesAssumption, SMTT(30) DEF SizesAssumption
  <2> QED
    BY <1>1, <1>3, <2>5
<1>6. TableTypeOK'
  <2>1. dir' \in [-1 .. capacity - 1 -> [ptr : Nat, bloom : SUBSET TagBits]]
    BY <1>1, <1>3, <1>4
  <2> QED
    BY <1>1, <2>1 DEF IInv, TypeOK, TableTypeOK
<1>7. dir[slot[p]].ptr \in Nat
  BY <1>4, <1>5
<1>8. BuildTypeOK'
  BY <1>1, <1>3, <1>7 DEF IInv, TypeOK, BuildTypeOK
<1>9. FirstSlot(p) \in Nat
  BY <1>2, FirstSlotNat
<1>10. slot'[p] = slot[p] + 1 /\ \A q \in Partitions : q # p => slot'[q] = slot[q]
  BY <1>1, <1>3
<1>11. FirstSlot(p) <= slot'[p]
  BY <1>2, <1>3, <1>9, <1>10
<1>12. BlockOf(at[p][1], p) /\ (at[p][1] # Nil => at[p][2] \in 1 .. Len(tuples[at[p][1]]))
  BY DEF IInv, BuilderSound
<1> QED
  BY <1>1, <1>6, <1>8, <1>10, <1>11, <1>12, BuilderMoves

(* A builder begins its second walk where it began the first.              *)
LEMMA PrefixDoneIInv ==
  ASSUME IInv, NEW p \in Partitions, PrefixDone(p)
  PROVE  IInv'
<1>1. /\ phase = "build"
      /\ bpc' = [bpc EXCEPT ![p] = "copy"]
      /\ at' = [at EXCEPT ![p] = <<heads[p], 1>>]
      /\ UNCHANGED <<column, phase, collectVars, chainVars, mergeVars, tableVars, slot, cur>>
  BY DEF PrefixDone
<1>2. BlockOf(heads[p], p) /\ heads[p] \in Rows \cup {Nil}
  BY DEF IInv, PointersPure, TypeOK, MergeTypeOK
<1>3. heads[p] # Nil => 1 \in 1 .. Len(tuples[heads[p]])
  <2> SUFFICES ASSUME heads[p] # Nil PROVE 1 \in 1 .. Len(tuples[heads[p]])
    OBVIOUS
  <2>1. tuples[heads[p]] \in Seq(Rows) /\ tuples[heads[p]] # <<>>
    BY <1>2 DEF BlockOf, IInv, TypeOK, ChainTypeOK
  <2> QED
    BY <2>1
<1>4. at \in [Partitions -> (Rows \cup {Nil}) \X (Nat \ {0})]
  BY DEF IInv, TypeOK, BuildTypeOK
<1>5. BuildTypeOK'
  BY <1>1, <1>2, <1>4 DEF IInv, TypeOK, BuildTypeOK
<1>6. TableTypeOK' /\ capacity' = capacity
  BY <1>1, TypesUnchanged DEF IInv, TypeOK, tableVars
<1>7. /\ at'[p] = <<heads[p], 1>> /\ bpc'[p] = "copy"
      /\ \A q \in Partitions : q # p => at'[q] = at[q] /\ bpc'[q] = bpc[q]
  BY <1>1, <1>4 DEF IInv, TypeOK, BuildTypeOK
<1> QED
  BY <1>1, <1>2, <1>3, <1>5, <1>6, <1>7, BuilderMoves

(* A builder copies a tuple and goes on along its partition's chain.       *)
LEMMA CopyTupleIInv ==
  ASSUME IInv, NEW p \in Partitions, CopyTuple(p)
  PROVE  IInv'
<1> DEFINE r == TupleAt(p)
           s == RowSlot(r)
<1>1. /\ phase = "build" /\ bpc[p] = "copy" /\ at[p][1] # Nil
      /\ storage' = [storage EXCEPT ![dir[s].ptr - Base] = r]
      /\ dir' = [dir EXCEPT ![s].ptr = @ + 1]
      /\ at' = [at EXCEPT ![p] = After(at[p])]
      /\ UNCHANGED <<column, phase, collectVars, chainVars, mergeVars, capacity, bpc, slot, cur>>
  BY DEF CopyTuple
<1>2. /\ r \in Rows
      /\ After(at[p]) \in (Rows \cup {Nil}) \X (Nat \ {0})
      /\ BlockOf(After(at[p])[1], p)
      /\ After(at[p])[1] # Nil => After(at[p])[2] \in 1 .. Len(tuples[After(at[p])[1]])
  BY <1>1, WalkInPartition
<1>3. at \in [Partitions -> (Rows \cup {Nil}) \X (Nat \ {0})]
  BY DEF IInv, TypeOK, BuildTypeOK
<1>4. BuildTypeOK'
  BY <1>1, <1>2, <1>3 DEF IInv, TypeOK, BuildTypeOK
<1>5. TableTypeOK'
  <2> HIDE DEF r, s
  <2>1. /\ dir \in [-1 .. capacity - 1 -> [ptr : Nat, bloom : SUBSET TagBits]]
        /\ DOMAIN storage \subseteq Nat
        /\ \A c \in DOMAIN storage : storage[c] \in Rows \cup {Uninit}
    BY DEF IInv, TypeOK, TableTypeOK
  <2> DEFINE new == [dir[s] EXCEPT !.ptr = @ + 1]
  <2>4. s \in -1 .. capacity - 1 => new \in [ptr : Nat, bloom : SUBSET TagBits]
    BY <2>1
  <2>5. dir' = [dir EXCEPT ![s] = new]
    BY <1>1
  <2> HIDE DEF new
  <2>2. dir' \in [-1 .. capacity - 1 -> [ptr : Nat, bloom : SUBSET TagBits]]
    <3> DEFINE D == -1 .. capacity - 1
               E == [ptr : Nat, bloom : SUBSET TagBits]
    <3>1. dir \in [D -> E] /\ (s \in D => new \in E)
      BY <2>1, <2>4
    <3> HIDE DEF D, E
    <3>2. [dir EXCEPT ![s] = new] \in [D -> E]
      BY <3>1, FunctionUpdate, Zenon
    <3> QED
      BY <2>5, <3>2 DEF D, E
  <2>3. /\ DOMAIN storage' \subseteq Nat
        /\ \A c \in DOMAIN storage' : storage'[c] \in Rows \cup {Uninit}
    BY <1>1, <1>2, <2>1
  <2> QED
    BY <1>1, <2>2, <2>3 DEF IInv, TypeOK, TableTypeOK
<1>6. at'[p] = After(at[p]) /\ \A q \in Partitions : q # p => at'[q] = at[q]
  BY <1>1, <1>3
<1>7. bpc'[p] # "prefix"
  BY <1>1
<1> QED
  BY <1>1, <1>2, <1>4, <1>5, <1>6, <1>7, BuilderMoves

(* A builder ends its second walk.                                         *)
LEMMA CopyDoneIInv ==
  ASSUME IInv, NEW p \in Partitions, CopyDone(p)
  PROVE  IInv'
<1>1. /\ phase = "build" /\ at[p][1] = Nil
      /\ bpc' = [bpc EXCEPT ![p] = "done"]
      /\ UNCHANGED <<column, phase, collectVars, chainVars, mergeVars, tableVars, at, slot, cur>>
  BY DEF CopyDone
<1>2. BuildTypeOK'
  BY <1>1 DEF IInv, TypeOK, BuildTypeOK
<1>3. TableTypeOK' /\ capacity' = capacity
  BY <1>1, TypesUnchanged DEF IInv, TypeOK, tableVars
<1>4. bpc'[p] = "done" /\ \A q \in Partitions : q # p => bpc'[q] = bpc[q]
  BY <1>1 DEF IInv, TypeOK, BuildTypeOK
<1> QED
  BY <1>1, <1>2, <1>3, <1>4, BuilderMoves DEF BlockOf

(* The main thread joins the builders: only phase changes.                 *)
LEMMA JoinBuildersIInv ==
  ASSUME IInv, JoinBuilders
  PROVE  IInv'
<1>1. /\ phase = "build" /\ phase' = "built"
      /\ UNCHANGED <<column, collectVars, chainVars, mergeVars, tableVars, buildVars>>
  BY DEF JoinBuilders
<1>2. UNCHANGED <<tuples, head, heads, tail, cursor, capacity, at, bpc, slot>>
  BY <1>1 DEF collectVars, chainVars, mergeVars, tableVars, buildVars
<1>3. TypeOK'
  BY <1>1, TypesUnchanged DEF IInv, TypeOK
<1>4. BlocksPure'
  BY <1>1, BlocksUnchanged DEF IInv
<1>5. PointersPure'
  BY <1>1, <1>2 DEF IInv, PointersPure, BlockOf, RowPart
<1>6. BuilderSound'
  BY <1>1, <1>2 DEF IInv, BuilderSound, BlockOf, RowPart, FirstSlot
<1> QED
  BY <1>3, <1>4, <1>5, <1>6 DEF IInv

-----------------------------------------------------------------------------
(* Every step of the program preserves the inductive invariant. *)
LEMMA NextIInv == IInv /\ [Next]_vars => IInv'
<1> SUFFICES ASSUME IInv, [Next]_vars PROVE IInv'
  OBVIOUS
<1>1. ASSUME NEW t \in Partitions, Collector(t)
      PROVE  IInv'
  BY <1>1, SkipNullIInv, ConsumeIInv DEF Collector
<1>2. ASSUME NEW p \in Partitions, Builder(p)
      PROVE  IInv'
  BY <1>2, CountTupleIInv, CountDoneIInv, PrefixSlotIInv, PrefixDoneIInv, CopyTupleIInv,
     CopyDoneIInv DEF Builder
<1>3. CASE Main
  BY <1>3, LoopsIInv, MergeWalkIInv, MergeLinkIInv, MakeTableIInv, JoinBuildersIInv DEF Main
<1>4. CASE UNCHANGED vars
  <2>1. UNCHANGED <<column, phase, collectVars, chainVars, mergeVars, tableVars, buildVars>>
    BY <1>4 DEF vars
  <2>2. TypeOK'
    BY <2>1, TypesUnchanged DEF IInv, TypeOK
  <2>3. UNCHANGED <<head, heads, tail, cursor, capacity, at, bpc, slot>>
    BY <2>1 DEF collectVars, mergeVars, tableVars, buildVars
  <2> QED
    BY <2>1, <2>2, <2>3, BlocksUnchanged, PointersUnchanged, BuilderUnchanged DEF IInv
<1> QED
  BY <1>1, <1>2, <1>3, <1>4 DEF Next, Done

(* The variables of the build keep their types in every behaviour of        *)
(* JoinAlgorithm::run, for every column, hash and number of threads.        *)
THEOREM TypeCorrect == Spec => []TypeOK
<1>1. IInv => TypeOK
  BY DEF IInv
<1> QED
  BY <1>1, InitIInv, NextIInv, PTL DEF Spec

(* A builder accesses only directory entries of its own partition. *)
LEMMA AccessInPartition ==
  ASSUME IInv, phase = "build", NEW p \in Partitions
  PROVE  DirAccess(p) \subseteq FirstSlot(p) .. EndSlot(p) - 1
<1>1. capacity \in DirectorySizes
  BY DEF IInv, BuilderSound
<1>2. CASE Walking(p)
  <2>1. at[p][1] # Nil
    BY <1>2 DEF Walking
  <2>2. TupleAt(p) \in Rows /\ column[TupleAt(p)] # Null /\ RowPart(TupleAt(p)) = p
    BY <2>1, WalkInPartition
  <2>3. Hash[column[TupleAt(p)]] \in Hashes
    BY <2>2, RowHashed DEF IInv, TypeOK
  <2>4. RowSlot(TupleAt(p)) \in FirstSlot(p) .. EndSlot(p) - 1
    BY <1>1, <2>2, <2>3, SlotOfPartition DEF RowPart, RowSlot
  <2> QED
    BY <1>2, <2>4 DEF DirAccess
<1>3. CASE ~Walking(p) /\ bpc[p] = "prefix" /\ slot[p] < EndSlot(p)
  <2>1. FirstSlot(p) <= slot[p] /\ slot[p] \in Nat
    BY <1>3 DEF IInv, BuilderSound, TypeOK, BuildTypeOK
  <2>2. PICK s, l \in Nat \ {0} : \A q \in Nat : EndSlot(q) = (q + 1) * s
    BY <1>1, SlotsPerPartition
  <2>3. p \in Nat
    BY SizesAssumption DEF SizesAssumption, Partitions
  <2>4. EndSlot(p) \in Nat
    BY <2>2, <2>3, SMTT(30)
  <2>5. FirstSlot(p) \in Nat
    BY <1>1, FirstSlotNat
  <2> QED
    BY <1>3, <2>1, <2>4, <2>5 DEF DirAccess
<1> QED
  BY <1>2, <1>3 DEF DirAccess

(* No two builders of postProcessBuild are ever about to access the same    *)
(* directory entry, which is why the directory needs no lock.               *)
THEOREM BuildersNeverRace == Spec => []DirectoryRaceFree
<1>1. IInv => DirectoryRaceFree
  <2> SUFFICES ASSUME IInv, phase = "build", NEW p \in Partitions, NEW q \in Partitions, p # q
               PROVE  DirAccess(p) \cap DirAccess(q) = {}
    BY DEF DirectoryRaceFree
  <2>1. capacity \in DirectorySizes
    BY DEF IInv, BuilderSound
  <2> QED
    BY <2>1, AccessInPartition, SlotsDisjoint
<1> QED
  BY <1>1, InitIInv, NextIInv, PTL DEF Spec

(***************************************************************************)
(* The first half of the build: what the collectors partition and          *)
(* merge_partitions links is every row, once, in the chain of its           *)
(* partition.                                                              *)
(***************************************************************************)
-----------------------------------------------------------------------------
(* The collectors' intervals of rows.                                       *)
LEMMA OwnerOfRow ==
  ASSUME NEW r \in Rows
  PROVE  /\ Owner(r) \in Partitions /\ Owner(r) \in Nat
         /\ FirstRow(Owner(r)) <= r /\ r < EndRow(Owner(r))
<1>1. BuildSize \in Nat /\ NumPartitions \in Nat \ {0} /\ r \in Nat /\ r < BuildSize
  BY SizesAssumption DEF SizesAssumption, Rows
<1> DEFINE w == RowsPerThread
           x == BuildSize + NumPartitions - 1
<1>2. w \in Nat /\ x \in Nat /\ x < NumPartitions * (w + 1)
  <2>1. x \in Nat  BY <1>1
  <2> HIDE DEF x
  <2>2. x \div NumPartitions \in Nat /\ x < NumPartitions * ((x \div NumPartitions) + 1)
    BY <1>1, <2>1, DivBounds
  <2>3. w = x \div NumPartitions  BY DEF RowsPerThread, x
  <2> QED BY <2>1, <2>2, <2>3
<1> HIDE DEF w
<1>3. BuildSize <= w * NumPartitions
  <2>1. NumPartitions * (w + 1) = (w * NumPartitions) + NumPartitions
    BY <1>1, <1>2, SMTT(30)
  <2>2. w * NumPartitions \in Nat  BY <1>1, <1>2, SMTT(30)
  <2> QED BY <1>1, <1>2, <2>1, <2>2 DEF x
<1>4. w \in Nat \ {0}  BY <1>1, <1>2, <1>3, SMTT(30)
<1>5. r \div w \in 0 .. NumPartitions - 1
  <2>1. r < w * NumPartitions
    <3>1. w * NumPartitions \in Nat  BY <1>1, <1>2, SMTT(30)
    <3> QED BY <1>1, <1>3, <3>1
  <2> QED BY <1>1, <1>4, <2>1, DivInRange
<1>6. r \div w \in Nat /\ w * (r \div w) <= r /\ r < w * ((r \div w) + 1)
  BY <1>1, <1>4, DivBounds
<1> DEFINE o == r \div w
<1>7. o * w <= r /\ r < o * w + w /\ o * w \in Nat
  <2> HIDE DEF o
  <2>1. o \in Nat /\ w * o <= r /\ r < w * (o + 1)  BY <1>6 DEF o
  <2> QED BY <1>4, <2>1, SMTT(30)
<1>8. Owner(r) = o /\ FirstRow(o) = o * w
  BY DEF Owner, FirstRow, w
<1>9. r < EndRow(o)
  BY <1>1, <1>7, <1>8 DEF EndRow, w
<1> QED BY <1>5, <1>7, <1>8, <1>9 DEF Partitions

LEMMA OwnerInInterval ==
  ASSUME NEW t \in Partitions, NEW r \in Nat, FirstRow(t) <= r, r < EndRow(t)
  PROVE  r \in Rows /\ Owner(r) = t
<1>1. RowsPerThread \in Nat /\ FirstRow(t) \in Nat /\ t \in Nat /\ BuildSize \in Nat
  BY RowRange, SizesAssumption DEF SizesAssumption, Partitions
<1>2. r < FirstRow(t) + RowsPerThread /\ r < BuildSize
  BY <1>1 DEF EndRow
<1>3. r \in Rows /\ RowsPerThread # 0
  BY <1>1, <1>2 DEF Rows
<1> DEFINE w == RowsPerThread
           o == r \div w
<1>4. w \in Nat \ {0}  BY <1>1, <1>3
<1> HIDE DEF w
<1>5. o \in Nat /\ w * o <= r /\ r < w * (o + 1)  BY <1>4, DivBounds
<1>6. t * w <= r /\ r < t * w + w  BY <1>2 DEF FirstRow, w
<1> HIDE DEF o
<1>7. ASSUME NEW a \in Nat, NEW b \in Nat, a * w <= r, r < w * (b + 1)
      PROVE  a <= b
  <2> SUFFICES ASSUME b + 1 <= a PROVE FALSE
    OBVIOUS
  <2>1. (b + 1) * w <= a * w  BY <1>4, TimesMonotonic
  <2> QED BY <1>4, <1>7, <2>1, SMTT(30)
<1>8. o * w <= r /\ r < w * (t + 1)
  BY <1>1, <1>4, <1>5, <1>6, SMTT(30)
<1>9. t <= o /\ o <= t
  BY <1>1, <1>5, <1>6, <1>7, <1>8
<1> QED BY <1>1, <1>3, <1>5, <1>9 DEF Owner, o, w

(* Before is a strict total order on the rows. *)
LEMMA BeforeOrder ==
  /\ \A x \in Rows : ~Before(x, x)
  /\ \A x, y, z \in Rows : Before(x, y) /\ Before(y, z) => Before(x, z)
  /\ \A x, y \in Rows : x = y \/ Before(x, y) \/ Before(y, x)
<1>1. \A x \in Rows : Owner(x) \in Nat /\ x \in Nat
  BY OwnerOfRow, SizesAssumption DEF Rows, SizesAssumption
<1> QED BY <1>1 DEF Before

-----------------------------------------------------------------------------
(* One row more.                                                            *)
LEMMA RowsFinite == IsFiniteSet(Rows) /\ \A S : IsFiniteSet({r \in Rows : r \in S})
<1>1. IsFiniteSet(Rows)
  BY FS_Interval, SizesAssumption DEF SizesAssumption, Rows
<1> QED BY <1>1, FS_Subset

(* What a collector is about to consume is its own and was not consumed;    *)
(* its next row is one more.                                                *)
LEMMA ConsumeNext ==
  ASSUME IInv, CountsExact, NEW t \in Partitions, row[t] < EndRow(t),
         row' = [row EXCEPT ![t] = @ + 1], column' = column
  PROVE  /\ row[t] \in Rows /\ Owner(row[t]) = t /\ ~Consumed(row[t])
         /\ \A r \in Rows : Consumed(r)' <=>
              Consumed(r) \/ (r = row[t] /\ column[r] # Null)
         /\ \A r \in Rows : Consumed(r) /\ Owner(r) = t => r < row[t]
         /\ \A u \in Partitions : row[u] <= row'[u]
<1>1. row \in [Partitions -> Nat] /\ FirstRow(t) <= row[t]
  BY DEF IInv, TypeOK, CollectTypeOK, CountsExact
<1>2. row[t] \in Rows /\ Owner(row[t]) = t
  BY <1>1, OwnerInInterval
<1>3. \A u \in Partitions : row'[u] = IF u = t THEN row[u] + 1 ELSE row[u]
  BY <1>1
<1>4. \A r \in Rows : Owner(r) \in Partitions /\ r \in Nat
  BY OwnerOfRow, SizesAssumption DEF SizesAssumption, Rows
<1>5. \A r \in Rows : r < row'[Owner(r)] <=> r < row[Owner(r)] \/ r = row[t]
  BY <1>1, <1>2, <1>3, <1>4
<1>6. \A r \in Rows : Consumed(r)' <=> Consumed(r) \/ (r = row[t] /\ column[r] # Null)
  BY <1>5 DEF Consumed
<1>7. ~Consumed(row[t])
  BY <1>1, <1>2, <1>4 DEF Consumed
<1>8. \A r \in Rows : Consumed(r) /\ Owner(r) = t => r < row[t]
  BY DEF Consumed
<1> QED BY <1>1, <1>2, <1>3, <1>6, <1>7, <1>8

-----------------------------------------------------------------------------
(* The counts of the collectors.                                            *)
Counted(t, p) == {r \in Rows : Consumed(r) /\ Owner(r) = t /\ RowPart(r) = p}

LEMMA CountedFinite ==
  \A t, p : IsFiniteSet(Counted(t, p))
<1> SUFFICES ASSUME NEW t, NEW p PROVE IsFiniteSet(Counted(t, p))
  OBVIOUS
<1>1. Counted(t, p) \in SUBSET Rows  BY DEF Counted
<1> QED BY <1>1, RowsFinite, FS_Subset

LEMMA SkipNullCounts ==
  ASSUME IInv, CountsExact, NEW t \in Partitions, SkipNull(t)
  PROVE  CountsExact' /\ \A r \in Rows : Consumed(r)' <=> Consumed(r)
<1>1. /\ phase = "collect" /\ row[t] < EndRow(t) /\ column[row[t]] = Null
      /\ row' = [row EXCEPT ![t] = @ + 1]
      /\ UNCHANGED <<column, phase, counts, cursor, running>>
  BY DEF SkipNull, mergeVars
<1>2. \A r \in Rows : Consumed(r)' <=> Consumed(r)
  BY <1>1, ConsumeNext
<1>3. \A r \in Rows : RowPart(r)' = RowPart(r)
  BY <1>1 DEF RowPart
<1>4. \A u, p : Counted(u, p)' = Counted(u, p)
  BY <1>2, <1>3 DEF Counted
<1>5. \A u \in Partitions : FirstRow(u) <= row'[u]
  <2>1. \A u \in Partitions : FirstRow(u) <= row[u] /\ row[u] <= row'[u] /\ row[u] \in Nat
          /\ row'[u] \in Nat /\ FirstRow(u) \in Nat
    BY <1>1, ConsumeNext, RowRange DEF CountsExact, IInv, TypeOK, CollectTypeOK
  <2> QED BY <2>1
<1>6. \A u, p \in Partitions : counts[u][p] = Cardinality(Counted(u, p))
  BY DEF CountsExact, Counted
<1>7. \A u, p \in Partitions : counts'[u][p] = Cardinality(Counted(u, p)')
  BY <1>1, <1>4, <1>6
<1> QED BY <1>1, <1>2, <1>5, <1>7 DEF CountsExact, Counted

LEMMA ConsumeCounts ==
  ASSUME IInv, CountsExact, NEW t \in Partitions, Consume(t)
  PROVE  CountsExact'
<1> DEFINE r == row[t]
           p == RowPart(r)
<1>1. /\ phase = "collect" /\ row[t] < EndRow(t) /\ column[r] # Null
      /\ row' = [row EXCEPT ![t] = @ + 1]
      /\ counts' = [counts EXCEPT ![t][p] = @ + 1]
      /\ UNCHANGED <<column, phase, cursor, running>>
  BY DEF Consume, mergeVars
<1>2. r \in Rows /\ Owner(r) = t /\ ~Consumed(r)
  BY <1>1, ConsumeNext
<1>3. \A x \in Rows : Consumed(x)' <=> Consumed(x) \/ x = r
  BY <1>1, ConsumeNext
<1>4. \A x \in Rows : RowPart(x)' = RowPart(x)
  BY <1>1 DEF RowPart
<1>5. p \in Partitions
  BY <1>1, <1>2, RowHashed DEF IInv, TypeOK
<1> HIDE DEF r
<1>6. \A u, q \in Partitions :
        Counted(u, q)' = IF u = t /\ q = p THEN Counted(u, q) \cup {r} ELSE Counted(u, q)
  BY <1>2, <1>3, <1>4 DEF Counted
<1>7. r \notin Counted(t, p)
  BY <1>2 DEF Counted
<1> HIDE DEF p
<1>8. \A u, q \in Partitions :
        counts'[u][q] = IF u = t /\ q = p THEN counts[u][q] + 1 ELSE counts[u][q]
  <2>1. counts \in [Partitions -> [Partitions -> Nat]]
    BY DEF IInv, TypeOK, CollectTypeOK
  <2> QED BY <1>1, <1>5, <2>1
<1>9. \A u, q \in Partitions : counts[u][q] = Cardinality(Counted(u, q))
  BY DEF CountsExact, Counted
<1>10. ASSUME NEW u \in Partitions, NEW q \in Partitions
       PROVE  counts'[u][q] = Cardinality(Counted(u, q)')
  <2>1. CASE u = t /\ q = p
    <3>1. Cardinality(Counted(t, p) \cup {r}) = Cardinality(Counted(t, p)) + 1
      BY <1>7, CountedFinite, FS_AddElement
    <3> QED BY <1>5, <1>6, <1>8, <1>9, <2>1, <3>1
  <2>2. CASE ~(u = t /\ q = p)
    BY <1>6, <1>8, <1>9, <2>2
  <2> QED BY <2>1, <2>2
<1>11. \A u \in Partitions : FirstRow(u) <= row'[u]
  <2>1. \A u \in Partitions : FirstRow(u) <= row[u] /\ row[u] <= row'[u] /\ row[u] \in Nat
          /\ row'[u] \in Nat /\ FirstRow(u) \in Nat
    <3>1. row \in [Partitions -> Nat] /\ row' \in [Partitions -> Nat]
      BY <1>1 DEF IInv, TypeOK, CollectTypeOK
    <3> QED BY <1>1, <3>1, ConsumeNext, RowRange DEF CountsExact
  <2> QED BY <2>1
<1> QED BY <1>1, <1>10, <1>11 DEF CountsExact, Counted

(* Later steps consume and count nothing. *)
LEMMA LaterCounts ==
  ASSUME IInv, CountsExact, UNCHANGED <<column, row, counts>>,
         phase = "collect" => \/ UNCHANGED <<phase, cursor, running>>
                              \/ JoinCollectors,
         phase # "collect" => phase' # "collect",
         phase' = "merge" => phase \in {"collect", "merge"} /\ UNCHANGED running
  PROVE  CountsExact'
<1>1. \A r \in Rows : (Consumed(r)' <=> Consumed(r)) /\ RowPart(r)' = RowPart(r)
  BY DEF Consumed, RowPart
<1>2. \A u, p : Counted(u, p)' = Counted(u, p)
  BY <1>1 DEF Counted
<1>3. \A u, p \in Partitions : counts'[u][p] = Cardinality(Counted(u, p)')
  <2>1. \A u, p \in Partitions : counts[u][p] = Cardinality(Counted(u, p))
    BY DEF CountsExact, Counted
  <2> QED BY <1>2, <2>1
<1>4. phase' = "collect" => phase = "collect" /\ UNCHANGED <<phase, cursor, running>>
  BY DEF JoinCollectors
<1>5. phase' # "collect" => \A r \in Rows : r < row'[Owner(r)]
  <2>1. CASE phase # "collect"  BY <2>1 DEF CountsExact
  <2>2. CASE phase = "collect"
    <3> SUFFICES ASSUME JoinCollectors, NEW r \in Rows PROVE r < row[Owner(r)]
      BY <2>2
    <3>1. Owner(r) \in Partitions /\ r < EndRow(Owner(r)) /\ row[Owner(r)] >= EndRow(Owner(r))
      BY OwnerOfRow DEF JoinCollectors
    <3>2. EndRow(Owner(r)) \in Nat /\ row[Owner(r)] \in Nat /\ r \in Nat
      BY <3>1, RowRange, SizesAssumption
      DEF IInv, TypeOK, CollectTypeOK, EndRow, Rows, SizesAssumption
    <3> QED BY <3>1, <3>2
  <2> QED BY <2>1, <2>2
<1>6. phase' \in {"collect", "merge"} => running' = 0
  <2>1. phase' = "merge" => phase = "merge" \/ phase = "collect"
    OBVIOUS
  <2> QED BY <1>4, <2>1 DEF CountsExact
<1> QED BY <1>3, <1>4, <1>5, <1>6 DEF CountsExact, Counted

-----------------------------------------------------------------------------
(* Where a collector puts a row: at the end of one of its own blocks of the *)
(* row's partition, which is the newest or has just become it.              *)
LEMMA ConsumePlace ==
  ASSUME IInv, CountsExact, TuplesExact, ChainsExact, NEW t \in Partitions, Consume(t),
         NEW r \in Rows, r = row[t]
  PROVE  /\ RowPart(r) \in Partitions /\ column[r] # Null /\ tuples[r] = <<>>
         /\ UNCHANGED <<column, phase, cursor, tail, heads>>
         /\ \A u, q \in Partitions :
              head'[u][q] = IF u = t /\ q = RowPart(r) /\ tuples'[r] # <<>> THEN r ELSE head[u][q]
         /\ \A x \in Rows : next'[x] = IF x = r /\ tuples'[r] # <<>> THEN head[t][RowPart(r)] ELSE next[x]
         /\ \E b \in Rows :
              /\ Owner(b) = t /\ RowPart(b) = RowPart(r) /\ Len(tuples[b]) + 1 <= TuplesPerBlock
              /\ tuples'[b] = Append(tuples[b], r) /\ (b = r \/ tuples[b] # <<>>)
              /\ \A x \in Rows : x # b => tuples'[x] = tuples[x]
<1> DEFINE p == RowPart(r)
           b == head[t][p]
<1>1. /\ phase = "collect" /\ row[t] < EndRow(t) /\ column[r] # Null
      /\ row' = [row EXCEPT ![t] = @ + 1]
      /\ IF b = Nil \/ Len(tuples[b]) = TuplesPerBlock
         THEN /\ head' = [head EXCEPT ![t][p] = r]
              /\ next' = [next EXCEPT ![r] = b]
              /\ tuples' = [tuples EXCEPT ![r] = <<r>>]
         ELSE /\ tuples' = [tuples EXCEPT ![b] = Append(@, r)]
              /\ UNCHANGED <<head, next>>
      /\ UNCHANGED <<column, phase, cursor, tail, heads>>
  BY DEF Consume, mergeVars
<1>2. Owner(r) = t /\ ~Consumed(r)
  BY <1>1, ConsumeNext
<1>3. p \in Partitions
  BY <1>1, RowHashed DEF IInv, TypeOK
<1>4. /\ tuples \in [Rows -> Seq(Rows)] /\ next \in [Rows -> Rows \cup {Nil}]
      /\ head \in [Partitions -> [Partitions -> Rows \cup {Nil}]]
      /\ TuplesPerBlock \in Nat \ {0}
  BY SizesAssumption DEF IInv, TypeOK, ChainTypeOK, CollectTypeOK, SizesAssumption
<1>5. tuples[r] = <<>>
  <2> SUFFICES ASSUME tuples[r] # <<>> PROVE FALSE
    OBVIOUS
  <2>1. tuples[r][1] = r /\ 1 \in 1 .. Len(tuples[r])
    BY <1>4 DEF TuplesExact
  <2> QED BY <1>2, <2>1 DEF TuplesExact
<1>6. CASE b = Nil \/ Len(tuples[b]) = TuplesPerBlock
  <2> HIDE DEF p
  <2>1. tuples'[r] = <<r>> /\ \A x \in Rows : x # r => tuples'[x] = tuples[x]
    BY <1>1, <1>4, <1>6
  <2>2. tuples'[r] = Append(tuples[r], r) /\ Len(tuples[r]) + 1 <= TuplesPerBlock /\ tuples'[r] # <<>>
    <3>1. Append(<<>>, r) = <<r>> /\ Len(<<>>) = 0 /\ <<r>> # <<>>  OBVIOUS
    <3> QED BY <1>4, <1>5, <2>1, <3>1
  <2>3. \A x \in Rows : next'[x] = IF x = r THEN b ELSE next[x]
    BY <1>1, <1>4, <1>6
  <2>4. \A u, q \in Partitions : head'[u][q] = IF u = t /\ q = p THEN r ELSE head[u][q]
    BY <1>1, <1>3, <1>4, <1>6
  <2>5. \E a \in Rows :
           /\ Owner(a) = t /\ RowPart(a) = RowPart(r) /\ Len(tuples[a]) + 1 <= TuplesPerBlock
           /\ tuples'[a] = Append(tuples[a], r) /\ (a = r \/ tuples[a] # <<>>)
           /\ \A x \in Rows : x # a => tuples'[x] = tuples[x]
    BY <1>2, <2>1, <2>2
  <2>6. /\ \A u, q \in Partitions :
              head'[u][q] = IF u = t /\ q = p /\ tuples'[r] # <<>> THEN r ELSE head[u][q]
        /\ \A x \in Rows : next'[x] = IF x = r /\ tuples'[r] # <<>> THEN b ELSE next[x]
    <3> HIDE DEF b
    <3> QED BY <2>2, <2>3, <2>4
  <2> QED BY <1>1, <1>3, <1>5, <2>5, <2>6, Zenon DEF p
<1>7. CASE b # Nil /\ Len(tuples[b]) # TuplesPerBlock
  <2>1. First(b, {x \in Blocks(p) : Owner(x) = t})
    BY <1>3 DEF ChainsExact
  <2>2. b \in Blocks(p) /\ Owner(b) = t
    BY <1>7, <2>1 DEF First
  <2>3. b \in Rows /\ tuples[b] # <<>> /\ RowPart(b) = p /\ b # r
    BY <1>5, <2>2 DEF Blocks
  <2> HIDE DEF b, p
  <2>4. tuples' = [tuples EXCEPT ![b] = Append(@, r)] /\ UNCHANGED <<head, next>>
    BY <1>1, <1>7
  <2>5. tuples'[b] = Append(tuples[b], r) /\ \A x \in Rows : x # b => tuples'[x] = tuples[x]
    BY <1>4, <2>3, <2>4
  <2>6. Len(tuples[b]) + 1 <= TuplesPerBlock
    <3>1. Len(tuples[b]) <= TuplesPerBlock /\ Len(tuples[b]) \in Nat
      BY <1>4, <2>3 DEF TuplesExact
    <3> QED BY <1>4, <1>7, <3>1
  <2>7. tuples'[r] = <<>>  BY <1>5, <2>3, <2>5
  <2> QED BY <1>1, <1>2, <1>3, <1>5, <2>2, <2>3, <2>4, <2>5, <2>6, <2>7 DEF p
<1> QED BY <1>6, <1>7

LEMMA ConsumeTuples ==
  ASSUME IInv, CountsExact, TuplesExact, ChainsExact, NEW t \in Partitions, Consume(t)
  PROVE  TuplesExact'
<1>1. /\ row[t] < EndRow(t) /\ row' = [row EXCEPT ![t] = @ + 1] /\ column' = column
      /\ column[row[t]] # Null
  BY DEF Consume
<1>2. PICK r \in Rows : r = row[t] /\ Owner(r) = t /\ ~Consumed(r)
  BY <1>1, ConsumeNext
<1>3. \A x \in Rows : Consumed(x)' <=> Consumed(x) \/ x = r
  BY <1>1, <1>2, ConsumeNext
<1>4. PICK b \in Rows :
        /\ Owner(b) = t /\ Len(tuples[b]) + 1 <= TuplesPerBlock
        /\ tuples'[b] = Append(tuples[b], r) /\ (b = r \/ tuples[b] # <<>>)
        /\ \A x \in Rows : x # b => tuples'[x] = tuples[x]
  BY <1>2, ConsumePlace
<1>5. tuples[r] = <<>>  BY <1>2, ConsumePlace
<1>6. tuples \in [Rows -> Seq(Rows)]
  BY DEF IInv, TypeOK, ChainTypeOK
<1> DEFINE k == Len(tuples[b]) + 1
<1>7. /\ k \in Nat \ {0} /\ Len(tuples'[b]) = k /\ tuples'[b][k] = r /\ k \in 1 .. Len(tuples'[b])
      /\ \A i \in 1 .. Len(tuples'[b]) : i # k => i \in 1 .. Len(tuples[b]) /\ tuples'[b][i] = tuples[b][i]
      /\ \A i \in 1 .. Len(tuples[b]) : i # k /\ i \in 1 .. Len(tuples'[b])
  <2> DEFINE old == tuples[b]
  <2>1. old \in Seq(Rows) /\ tuples'[b] = Append(old, r)  BY <1>4, <1>6
  <2> HIDE DEF old
  <2>2. /\ Len(old) + 1 \in Nat \ {0} /\ Len(tuples'[b]) = Len(old) + 1
        /\ tuples'[b][Len(old) + 1] = r
        /\ \A i \in 1 .. Len(old) : tuples'[b][i] = old[i]
    BY <2>1
  <2>3. Len(old) \in Nat  BY <2>1
  <2> QED BY <2>2, <2>3 DEF old
<1> HIDE DEF k
(* The places after the step: those before it, and one for r.               *)
<1>8. ASSUME NEW x \in Rows, NEW i \in 1 .. Len(tuples'[x])
      PROVE  \/ x = b /\ i = k /\ tuples'[x][i] = r
             \/ i \in 1 .. Len(tuples[x]) /\ tuples'[x][i] = tuples[x][i]
  <2>1. CASE x = b  BY <1>7, <2>1
  <2>2. CASE x # b  BY <1>4, <2>2
  <2> QED BY <2>1, <2>2
<1>9. ASSUME NEW x \in Rows, NEW i \in 1 .. Len(tuples[x])
      PROVE  /\ i \in 1 .. Len(tuples'[x]) /\ tuples'[x][i] = tuples[x][i]
             /\ tuples[x][i] # r /\ tuples[x][i] \in Rows
  <2>1. tuples[x][i] # r
    BY <1>2 DEF TuplesExact
  <2>2. tuples[x][i] \in Rows
    BY <1>6
  <2>3. CASE x = b  BY <1>7, <2>1, <2>2, <2>3
  <2>4. CASE x # b  BY <1>4, <2>1, <2>2, <2>4
  <2> QED BY <2>3, <2>4
<1>10. \A x \in Rows : \A i \in 1 .. Len(tuples'[x]) :
         (Consumed(tuples[x][i]) /\ Owner(tuples[x][i]) = Owner(x))'
  <2> SUFFICES ASSUME NEW x \in Rows, NEW i \in 1 .. Len(tuples'[x])
      PROVE (Consumed(tuples[x][i]) /\ Owner(tuples[x][i]) = Owner(x))'
    OBVIOUS
  <2>1. PICK y \in Rows : y = tuples'[x][i] /\ Consumed(y)' /\ Owner(y) = Owner(x)
    <3>1. CASE tuples'[x][i] = r /\ x = b
      BY <1>2, <1>3, <1>4, <3>1
    <3>2. CASE i \in 1 .. Len(tuples[x]) /\ tuples'[x][i] = tuples[x][i]
      <4>1. Consumed(tuples[x][i]) /\ Owner(tuples[x][i]) = Owner(x)  BY <3>2 DEF TuplesExact
      <4>2. PICK y \in Rows : y = tuples[x][i]  BY <1>9, <3>2
      <4> QED BY <1>3, <3>2, <4>1, <4>2
    <3> QED BY <1>8, <3>1, <3>2
  <2> QED BY <2>1 DEF Consumed
<1>11. \A x \in Rows : Len(tuples'[x]) <= TuplesPerBlock /\ (tuples'[x] # <<>> => tuples'[x][1] = x)
  <2> SUFFICES ASSUME NEW x \in Rows
      PROVE  Len(tuples'[x]) <= TuplesPerBlock /\ (tuples'[x] # <<>> => tuples'[x][1] = x)
    OBVIOUS
  <2>1. Len(tuples[x]) <= TuplesPerBlock /\ (tuples[x] # <<>> => tuples[x][1] = x)
    BY DEF TuplesExact
  <2>2. CASE x # b  BY <1>4, <2>1, <2>2
  <2>3. CASE x = b /\ tuples[b] = <<>>
    <3>1. k = 1 /\ b = r  BY <1>4, <2>3 DEF k
    <3> QED BY <1>4, <1>7, <2>3, <3>1 DEF k
  <2>4. CASE x = b /\ tuples[b] # <<>>
    <3>1. 1 \in 1 .. Len(tuples[b])  BY <1>6, <2>4
    <3>2. tuples'[b][1] = tuples[b][1]  BY <1>9, <3>1
    <3> QED BY <1>4, <1>7, <2>1, <2>4, <3>2 DEF k
  <2> QED BY <2>2, <2>3, <2>4
<1>12. \A x, y \in Rows : \A i \in 1 .. Len(tuples'[x]), j \in 1 .. Len(tuples'[y]) :
         tuples'[x][i] = tuples'[y][j] => x = y /\ i = j
  <2> SUFFICES ASSUME NEW x \in Rows, NEW y \in Rows,
                      NEW i \in 1 .. Len(tuples'[x]), NEW j \in 1 .. Len(tuples'[y]),
                      tuples'[x][i] = tuples'[y][j]
               PROVE  x = y /\ i = j
    OBVIOUS
  <2>1. CASE x = b /\ i = k /\ tuples'[x][i] = r
    BY <1>8, <1>9, <2>1
  <2>2. CASE y = b /\ j = k /\ tuples'[y][j] = r
    BY <1>8, <1>9, <2>2
  <2>3. CASE /\ i \in 1 .. Len(tuples[x]) /\ tuples'[x][i] = tuples[x][i]
             /\ j \in 1 .. Len(tuples[y]) /\ tuples'[y][j] = tuples[y][j]
    <3>1. tuples[x][i] = tuples[y][j]  BY <2>3
    <3>2. \A u \in 1 .. Len(tuples[x]), v \in 1 .. Len(tuples[y]) :
            tuples[x][u] = tuples[y][v] => x = y /\ u = v
      BY DEF TuplesExact
    <3> QED BY <2>3, <3>1, <3>2
  <2> QED BY <1>8, <2>1, <2>2, <2>3
<1>13. \A x \in Rows : Consumed(x)' => \E c \in Rows : \E i \in 1 .. Len(tuples'[c]) : tuples'[c][i] = x
  <2> SUFFICES ASSUME NEW x \in Rows, Consumed(x)'
               PROVE  \E c \in Rows : \E i \in 1 .. Len(tuples'[c]) : tuples'[c][i] = x
    OBVIOUS
  <2>1. CASE x = r  BY <1>7, <2>1
  <2>2. CASE Consumed(x)
    <3>1. PICK c \in Rows : \E i \in 1 .. Len(tuples[c]) : tuples[c][i] = x
      BY <2>2 DEF TuplesExact
    <3> QED BY <1>9, <3>1
  <2> QED BY <1>3, <2>1, <2>2
<1> QED BY <1>10, <1>11, <1>12, <1>13 DEF TuplesExact

(* Steps that consume nothing. *)
LEMMA TuplesKept ==
  ASSUME TuplesExact, UNCHANGED tuples, \A r \in Rows : Consumed(r)' <=> Consumed(r),
         tuples \in [Rows -> Seq(Rows)]
  PROVE  TuplesExact'
<1>1. \A b \in Rows : \A i \in 1 .. Len(tuples'[b]) :
        (Consumed(tuples[b][i]) /\ Owner(tuples[b][i]) = Owner(b))'
  <2> SUFFICES ASSUME NEW b \in Rows, NEW i \in 1 .. Len(tuples[b])
      PROVE  (Consumed(tuples[b][i]) /\ Owner(tuples[b][i]) = Owner(b))'
    OBVIOUS
  <2>1. Consumed(tuples[b][i]) /\ Owner(tuples[b][i]) = Owner(b)  BY DEF TuplesExact
  <2>2. PICK x \in Rows : x = tuples[b][i]  OBVIOUS
  <2>3. Consumed(x)'  BY <2>1, <2>2
  <2> QED BY <2>1, <2>2, <2>3 DEF Consumed
<1>2. \A r \in Rows : Consumed(r)' => \E b \in Rows : \E i \in 1 .. Len(tuples[b]) : tuples[b][i] = r
  BY DEF TuplesExact
<1> QED BY <1>1, <1>2 DEF TuplesExact

-----------------------------------------------------------------------------
(* The first block of a set.                                                *)
LEMMA FirstAdd ==
  ASSUME NEW S, NEW x, \A d \in S : Before(x, d)
  PROVE  First(x, S \cup {x})
BY DEF First

(* A block is named by a row that its collector consumed first.             *)
LEMMA BlockConsumed ==
  ASSUME IInv, TuplesExact, NEW p, NEW b \in Blocks(p)
  PROVE  b \in Rows /\ tuples[b] # <<>> /\ RowPart(b) = p /\ Consumed(b)
         /\ Owner(b) \in Partitions
<1>1. b \in Rows /\ tuples[b] # <<>> /\ RowPart(b) = p
  BY DEF Blocks
<1>2. tuples[b][1] = b /\ 1 \in 1 .. Len(tuples[b])
  BY <1>1 DEF IInv, TypeOK, ChainTypeOK, TuplesExact
<1>3. Consumed(b)
  BY <1>1, <1>2 DEF TuplesExact
<1> QED BY <1>1, <1>3, OwnerOfRow

(* While rows are collected, no chains are merged.                          *)
LEMMA CollectChains ==
  ASSUME phase = "collect"
  PROVE  /\ \A p, t : ~Merged(p, t)
         /\ \A p, b : Successors(p, b) = {c \in Blocks(p) : Before(b, c) /\ Owner(b) = Owner(c)}
         /\ \A p : {b \in Blocks(p) : Merged(p, Owner(b))} = {}
BY DEF Merged, Successors, SameChain

LEMMA ConsumeChains ==
  ASSUME IInv, CountsExact, TuplesExact, ChainsExact, NEW t \in Partitions, Consume(t)
  PROVE  ChainsExact'
<1>1. /\ row[t] < EndRow(t) /\ row' = [row EXCEPT ![t] = @ + 1] /\ column' = column
      /\ phase = "collect" /\ phase' = "collect"
  BY DEF Consume
<1>2. PICK r \in Rows : /\ r = row[t] /\ Owner(r) = t
                        /\ \A x \in Rows : Consumed(x) /\ Owner(x) = t => x < r
  BY <1>1, ConsumeNext
<1> DEFINE p == RowPart(r)
           new == tuples'[r] # <<>>
<1>3. /\ p \in Partitions /\ tuples[r] = <<>> /\ heads' = heads
      /\ \A u, q \in Partitions : head'[u][q] = IF u = t /\ q = p /\ new THEN r ELSE head[u][q]
      /\ \A x \in Rows : next'[x] = IF x = r /\ new THEN head[t][p] ELSE next[x]
  BY <1>2, ConsumePlace
<1>4. \A x \in Rows : x # r => (tuples'[x] # <<>> <=> tuples[x] # <<>>)
  <2>1. PICK b \in Rows :
          /\ tuples'[b] = Append(tuples[b], r) /\ (b = r \/ tuples[b] # <<>>)
          /\ \A x \in Rows : x # b => tuples'[x] = tuples[x]
    BY <1>2, ConsumePlace
  <2>2. Append(tuples[b], r) # <<>>
    <3>1. tuples[b] \in Seq(Rows)  BY DEF IInv, TypeOK, ChainTypeOK
    <3>2. Len(Append(tuples[b], r)) = Len(tuples[b]) + 1 /\ Len(tuples[b]) \in Nat  BY <3>1
    <3> QED BY <3>2
  <2> QED BY <2>1, <2>2
<1>5. \A q : Blocks(q)' = IF q = p /\ new THEN Blocks(q) \cup {r} ELSE Blocks(q)
  <2>1. \A x \in Rows : RowPart(x)' = RowPart(x)  BY <1>1 DEF RowPart
  <2> QED BY <1>3, <1>4, <2>1 DEF Blocks
<1>6. \A q : \A b \in Blocks(q) : b \in Rows /\ (Owner(b) = t => b < r /\ Before(r, b) /\ ~Before(b, r))
             /\ Owner(b) \in Nat
  <2>1. \A q : \A b \in Blocks(q) : b \in Rows /\ Consumed(b)  BY BlockConsumed
  <2>2. \A b \in Rows : b \in Nat /\ Owner(b) \in Nat
    BY OwnerOfRow, SizesAssumption DEF Rows, SizesAssumption
  <2> QED BY <1>2, <2>1, <2>2 DEF Before
<1> HIDE DEF p, new
<1>7. ASSUME NEW q \in Partitions, NEW b \in Blocks(q)'
      PROVE  First(next'[b], Successors(q, b)')
  <2>1. Successors(q, b)' = {c \in Blocks(q)' : Before(b, c) /\ Owner(b) = Owner(c)}
    BY <1>1, CollectChains DEF Successors, SameChain, Merged
  <2>2. CASE b \in Blocks(q)
    <3>1. First(next[b], Successors(q, b))  BY <2>2 DEF ChainsExact
    <3>2. Successors(q, b)' = Successors(q, b)
      BY <1>1, <1>2, <1>5, <1>6, <2>1, <2>2, CollectChains
    <3>3. b \in Rows /\ (b # r \/ ~new)  BY <1>3, <2>2 DEF Blocks, new
    <3> QED BY <1>3, <3>1, <3>2, <3>3
  <2>3. CASE b = r /\ q = p /\ new
    <3>1. First(head[t][p], {c \in Blocks(p) : Owner(c) = t})
      BY <1>3 DEF ChainsExact
    <3>2. Successors(q, b)' = {c \in Blocks(p) : Owner(c) = t}
      <4>1. ~Before(r, r)  BY BeforeOrder
      <4> QED BY <1>2, <1>5, <1>6, <2>1, <2>3, <4>1
    <3> QED BY <1>3, <2>3, <3>1, <3>2
  <2> QED BY <1>5, <2>2, <2>3
<1>8. ASSUME NEW u \in Partitions, NEW q \in Partitions
      PROVE  First(head'[u][q], {b \in Blocks(q)' : Owner(b) = u})
  <2> DEFINE S == {b \in Blocks(q) : Owner(b) = u}
  <2>1. First(head[u][q], S)  BY DEF ChainsExact
  <2>2. CASE u = t /\ q = p /\ new
    <3>1. \A b \in S : Before(r, b)  BY <1>6, <2>2
    <3>2. {b \in Blocks(q)' : Owner(b) = u} = S \cup {r}  BY <1>2, <1>5, <2>2
    <3> HIDE DEF S
    <3>3. First(r, S \cup {r})  BY <3>1, FirstAdd
    <3>4. head'[u][q] = r  BY <1>3, <2>2
    <3> QED BY <3>2, <3>3, <3>4
  <2>3. CASE ~(u = t /\ q = p /\ new)
    <3>1. {b \in Blocks(q)' : Owner(b) = u} = S  BY <1>2, <1>5, <2>3
    <3> QED BY <1>3, <2>1, <2>3, <3>1
  <2> QED BY <2>2, <2>3
<1>9. ASSUME NEW q \in Partitions
      PROVE  First(heads[q], {b \in Blocks(q) : Merged(q, Owner(b))})'
  <2>1. First(heads[q], {})  BY <1>1, CollectChains DEF ChainsExact
  <2>2. {b \in Blocks(q) : Merged(q, Owner(b))}' = {}  BY <1>1 DEF Merged
  <2> QED BY <1>3, <2>1, <2>2
<1>10. /\ \A q \in Partitions : \A b \in Blocks(q)' : First(next'[b], Successors(q, b)')
       /\ \A u, q \in Partitions : First(head'[u][q], {b \in Blocks(q)' : Owner(b) = u})
  BY <1>7, <1>8
<1> QED BY <1>1, <1>9, <1>10 DEF ChainsExact

-----------------------------------------------------------------------------
(* The order in which the loops pass partitions and collectors.             *)
LEMMA PassedNext ==
  ASSUME MergeTypeOK, ~CursorDone, cursor' = NextCursor
  PROVE  /\ cursor[1] \in Partitions /\ cursor[2] \in Partitions
         /\ \A p, t \in Partitions :
              Passed(p, t)' <=> Passed(p, t) \/ (p = cursor[1] /\ t = cursor[2])
<1>1. NumPartitions \in Nat \ {0}  BY SizesAssumption DEF SizesAssumption
<1>2. cursor[1] \in Partitions /\ cursor[2] \in Partitions
  BY CursorInRange
<1>3. cursor[1] \in Nat /\ cursor[2] \in Nat /\ cursor[2] < NumPartitions
      /\ \A t \in Partitions : t \in Nat /\ t < NumPartitions
  BY <1>1, <1>2 DEF Partitions
<1>4. CASE cursor[2] + 1 < NumPartitions
  <2>1. cursor'[1] = cursor[1] /\ cursor'[2] = cursor[2] + 1
    BY <1>4 DEF NextCursor
  <2> QED BY <1>2, <1>3, <2>1 DEF Passed
<1>5. CASE ~(cursor[2] + 1 < NumPartitions)
  <2>1. cursor'[1] = cursor[1] + 1 /\ cursor'[2] = 0
    BY <1>5 DEF NextCursor
  <2>2. cursor[2] = NumPartitions - 1  BY <1>1, <1>3, <1>5
  <2> QED BY <1>1, <1>2, <1>3, <2>1, <2>2 DEF Passed
<1> QED BY <1>4, <1>5

(* Linking a collector's chain behind those before it. *)
LEMMA MergeLinkChains ==
  ASSUME IInv, TuplesExact, ChainsExact, MergeLink
  PROVE  ChainsExact'
<1>0. PICK p \in Partitions, u \in Partitions : p = cursor[1] /\ u = cursor[2]
  BY CursorInRange DEF MergeLink, IInv, TypeOK
<1> DEFINE current == head[u][p]
           H == {b \in Blocks(p) : Owner(b) = u}
           M == {b \in Blocks(p) : Merged(p, Owner(b))}
<1>1. /\ phase = "merge" /\ phase' = "merge" /\ ~CursorDone
      /\ heads' = IF current # Nil /\ tail = Nil THEN [heads EXCEPT ![p] = current] ELSE heads
      /\ next' = IF current # Nil /\ tail # Nil THEN [next EXCEPT ![tail] = current] ELSE next
      /\ cursor' = NextCursor
      /\ tail' = IF NextCursor[1] = p
                 THEN IF current = Nil THEN tail ELSE IF tail = Nil THEN current ELSE tail
                 ELSE Nil
      /\ UNCHANGED <<column, head, tuples>>
  BY <1>0 DEF MergeLink, collectVars
<1>2. tail # Nil => next[tail] = Nil
  BY DEF MergeLink, AtChainEnd
<1>3. /\ p \in Partitions /\ u \in Partitions
      /\ \A q, t \in Partitions : Merged(q, t)' <=> Merged(q, t) \/ (q = p /\ t = u)
  <2>1. MergeTypeOK  BY DEF IInv, TypeOK
  <2>2. /\ cursor[1] \in Partitions /\ cursor[2] \in Partitions
        /\ \A q, t \in Partitions :
             Passed(q, t)' <=> Passed(q, t) \/ (q = cursor[1] /\ t = cursor[2])
    BY <1>1, <2>1, PassedNext
  <2> QED BY <1>0, <1>1, <2>2 DEF Merged
<1>4. p \in Nat /\ u \in Nat /\ \A t \in Partitions : t \in Nat /\ (Merged(p, t) => t < u)
  BY <1>0, <1>1, SizesAssumption DEF Merged, Passed, Partitions, SizesAssumption
<1>5. \A q : Blocks(q)' = Blocks(q)
  BY <1>1 DEF Blocks, RowPart
<1>6. \A q : \A b \in Blocks(q) : /\ b \in Rows /\ RowPart(b) = q
                                  /\ Owner(b) \in Partitions /\ Owner(b) \in Nat
  BY BlockConsumed, OwnerOfRow
<1>7. First(current, H) /\ First(heads[p], M)
  BY <1>3 DEF ChainsExact
<1>8. /\ tail = Nil => M = {}
      /\ tail # Nil => tail \in M
  BY <1>0, <1>1 DEF ChainsExact
<1>9. Nil \notin Rows
  BY KeysAssumption DEF KeysAssumption
<1>10. H = {} <=> current = Nil
  BY <1>6, <1>7, <1>9 DEF First
<1>11. tail # Nil => Successors(p, tail) = {}
  <2> SUFFICES ASSUME tail # Nil PROVE Successors(p, tail) = {}
    OBVIOUS
  <2>1. First(Nil, Successors(p, tail))
    BY <1>2, <1>3, <1>8 DEF ChainsExact
  <2>2. Nil \notin Successors(p, tail)
    BY <1>6, <1>9 DEF Successors
  <2> QED BY <2>1, <2>2 DEF First
<1>12. \A b \in M, c \in H : Before(b, c) /\ ~Before(c, b) /\ b # c
  BY <1>4, <1>6 DEF Before
<1>13. \A b \in Rows : next'[b] = IF current # Nil /\ tail # Nil /\ b = tail THEN current ELSE next[b]
  BY <1>1 DEF IInv, TypeOK, ChainTypeOK
<1>14. \A b \in M : Successors(p, b) = {c \in M : Before(b, c)}
  BY DEF Successors, SameChain
<1>15. \A b \in M : b # tail => tail # Nil /\ tail \in Successors(p, b)
  <2> SUFFICES ASSUME NEW b \in M, b # tail PROVE tail # Nil /\ tail \in Successors(p, b)
    OBVIOUS
  <2>1. tail \in M /\ tail # Nil /\ tail \in Rows /\ b \in Rows  BY <1>6, <1>8
  <2>2. Before(tail, b) => b \in Successors(p, tail)  BY <1>14, <2>1
  <2>3. Before(b, tail)  BY <1>11, <2>1, <2>2, BeforeOrder
  <2> QED BY <1>14, <2>1, <2>3
<1>16. \A q \in Partitions : \A b : Successors(q, b)' =
         {c \in Blocks(q) : Before(b, c) /\ (Owner(b) = Owner(c)
                              \/ (Merged(q, Owner(b))' /\ Merged(q, Owner(c))'))}
  BY <1>5 DEF Successors, SameChain
<1> HIDE DEF current
<1>17. ASSUME NEW q \in Partitions, NEW b \in Blocks(q)
       PROVE  First(next'[b], Successors(q, b)')
  <2>1. First(next[b], Successors(q, b)) /\ b \in Rows
    BY <1>6 DEF ChainsExact
  <2>2. CASE ~Merged(q, Owner(b))'
    <3>1. Successors(q, b)' = Successors(q, b)
      BY <1>3, <1>6, <1>16, <2>2 DEF Successors, SameChain
    <3>2. tail # Nil => b # tail
      BY <1>3, <1>6, <1>8, <2>2
    <3> QED BY <1>13, <2>1, <3>1, <3>2
  <2>3. CASE q # p
    <3>1. Successors(q, b)' = Successors(q, b)
      BY <1>3, <1>6, <1>16, <2>3 DEF Successors, SameChain
    <3>2. tail # Nil => b # tail
      BY <1>6, <1>8, <2>3
    <3> QED BY <1>13, <2>1, <3>1, <3>2
  <2>4. CASE q = p /\ b \in H
    <3>1. Successors(q, b)' = Successors(q, b)
      <4>1. ~Merged(p, u)  BY <1>3, <1>4
      <4>2. \A c \in M : ~Before(b, c)  BY <1>12, <2>4
      <4>3. \A c \in Blocks(p) : Merged(p, Owner(c))' <=> c \in M \/ c \in H
        BY <1>3, <1>6
      <4> QED BY <1>16, <2>4, <4>1, <4>2, <4>3 DEF Successors, SameChain
    <3>2. tail # Nil => b # tail
      BY <1>8, <1>12, <2>4
    <3> QED BY <1>13, <2>1, <3>1, <3>2
  <2>5. CASE q = p /\ b \in M
    <3>1. Successors(q, b)' = Successors(q, b) \cup H
      <4>1. \A c \in Blocks(p) : Merged(p, Owner(c))' <=> c \in M \/ c \in H
        BY <1>3, <1>6
      <4>2. \A c \in Blocks(p) : Owner(b) = Owner(c) => c \in M
        BY <2>5
      <4>3. \A c \in H : Before(b, c)  BY <1>12, <2>5
      <4>4. Successors(p, b) = {c \in M : Before(b, c)}  BY <1>14, <2>5
      <4>5. Merged(p, Owner(b))'  BY <2>5, <4>1
      <4> QED BY <1>16, <2>5, <4>1, <4>2, <4>3, <4>4, <4>5
    <3>2. CASE H = {}
      <4>1. next'[b] = next[b]  BY <1>10, <1>13, <2>1, <3>2
      <4>2. Successors(q, b)' = Successors(q, b)  BY <3>1, <3>2
      <4> QED BY <2>1, <4>1, <4>2
    <3>3. CASE H # {} /\ b = tail
      <4>1. tail # Nil  BY <1>8, <2>5
      <4>2. next'[b] = current  BY <1>10, <1>13, <2>1, <3>3, <4>1
      <4>3. Successors(q, b)' = H  BY <1>11, <2>5, <3>1, <3>3, <4>1
      <4> QED BY <1>7, <4>2, <4>3
    <3>4. CASE H # {} /\ b # tail
      <4>1. next'[b] = next[b]  BY <1>13, <2>1, <3>4
      <4>2. next[b] \in Successors(q, b) /\ \A d \in Successors(q, b) : d = next[b] \/ Before(next[b], d)
        BY <1>15, <2>1, <2>5, <3>4 DEF First
      <4>3. next[b] \in M  BY <1>14, <2>5, <4>2
      <4>4. \A d \in H : Before(next[b], d)  BY <1>12, <4>3
      <4> QED BY <3>1, <4>1, <4>2, <4>4 DEF First
    <3> QED BY <3>2, <3>3, <3>4
  <2> QED
    <3>1. q = p /\ Merged(q, Owner(b))' => b \in M \/ b \in H  BY <1>3, <1>6
    <3> QED BY <2>2, <2>3, <2>4, <2>5, <3>1
<1>18. ASSUME NEW q \in Partitions
       PROVE  First(heads'[q], {b \in Blocks(q) : Merged(q, Owner(b))'})
  <2>1. CASE q # p
    <3>1. {b \in Blocks(q) : Merged(q, Owner(b))'} = {b \in Blocks(q) : Merged(q, Owner(b))}
      BY <1>3, <1>6, <2>1
    <3>2. heads'[q] = heads[q]  BY <1>1, <2>1 DEF IInv, TypeOK, MergeTypeOK
    <3>3. First(heads[q], {b \in Blocks(q) : Merged(q, Owner(b))})  BY DEF ChainsExact
    <3> QED BY <3>1, <3>2, <3>3
  <2>2. CASE q = p
    <3>1. {b \in Blocks(q) : Merged(q, Owner(b))'} = M \cup H
      BY <1>3, <1>6, <2>2
    <3>2. heads'[q] = IF current # Nil /\ tail = Nil THEN current ELSE heads[q]
      BY <1>1, <1>3, <2>2 DEF IInv, TypeOK, MergeTypeOK
    <3>3. First(current, H) /\ First(heads[q], M)  BY <1>7, <2>2
    <3>4. CASE H = {}
      BY <1>10, <3>1, <3>2, <3>3, <3>4
    <3>5. CASE M = {}
      <4>1. tail = Nil  BY <1>8, <3>5
      <4>2. H # {} => heads'[q] = current  BY <1>10, <3>2, <4>1
      <4>3. M \cup H = H  BY <3>5
      <4> QED BY <3>1, <3>3, <3>4, <4>2, <4>3
    <3>6. CASE H # {} /\ M # {}
      <4>1. heads'[q] = heads[q]  BY <1>8, <3>2, <3>6
      <4>2. heads[q] \in M /\ \A d \in M : d = heads[q] \/ Before(heads[q], d)
        BY <3>3, <3>6 DEF First
      <4>3. \A d \in H : Before(heads[q], d)  BY <1>12, <4>2
      <4> QED BY <3>1, <4>1, <4>2, <4>3 DEF First
    <3> QED BY <3>4, <3>5, <3>6
  <2> QED BY <2>1, <2>2
<1>19. ASSUME NEW t \in Partitions, NEW q \in Partitions
       PROVE  First(head'[t][q], {b \in Blocks(q) : Owner(b) = t})
  <2>1. First(head[t][q], {b \in Blocks(q) : Owner(b) = t})  BY DEF ChainsExact
  <2> QED BY <1>1, <2>1
<1>20. (~CursorDone)' =>
         (IF tail = Nil THEN \A b \in Blocks(cursor[1]) : ~Merged(cursor[1], Owner(b))
          ELSE tail \in Blocks(cursor[1]) /\ Merged(cursor[1], Owner(tail)))'
  <2>1. CASE NextCursor[1] = p
    <3>1. cursor'[1] = p /\ tail' = IF current = Nil THEN tail ELSE IF tail = Nil THEN current ELSE tail
      BY <1>1, <2>1
    <3>2. \A b \in Blocks(p) : Merged(p, Owner(b))' <=> b \in M \/ b \in H
      BY <1>3, <1>6
    <3>3. current # Nil => current \in H
      BY <1>7, <1>10 DEF First
    <3>4. tail' = Nil => M = {} /\ H = {}
      BY <1>8, <1>10, <3>1
    <3>5. tail' # Nil => tail' \in M \cup H
      BY <1>8, <3>1, <3>3
    <3>6. tail' # Nil => tail' \in Blocks(p) /\ \A b \in Blocks(p) : b = tail' => Merged(p, Owner(b))'
      BY <3>2, <3>5
    <3>7. tail' # Nil => Merged(p, Owner(tail))'
      BY <1>1, <3>1, <3>6 DEF Merged, Passed
    <3>8. tail' = Nil => \A b \in Blocks(p) : ~Merged(p, Owner(b))'
      BY <3>2, <3>4
    <3>9. \A t : Merged(cursor[1], t)' <=> Merged(p, t)'
      BY <3>1 DEF Merged, Passed
    <3>10. Merged(cursor[1], Owner(tail))' <=> Merged(p, Owner(tail))'
      BY <3>1 DEF Merged, Passed
    <3>11. Blocks(cursor[1])' = Blocks(p)
      BY <1>5, <3>1 DEF Blocks
    <3> QED BY <3>6, <3>7, <3>8, <3>9, <3>10, <3>11
  <2>2. CASE NextCursor[1] # p
    <3>1. cursor' = <<p + 1, 0>> /\ tail' = Nil  BY <1>0, <1>1, <2>2 DEF NextCursor
    <3>2. \A b \in Blocks(p + 1) : ~Merged(p + 1, Owner(b))'
      BY <1>1, <1>4, <1>6, <3>1 DEF Merged, Passed
    <3>3. \A t : Merged(cursor[1], t)' <=> Merged(p + 1, t)'
      BY <3>1 DEF Merged, Passed
    <3>4. Blocks(cursor[1])' = Blocks(p + 1)
      BY <1>5, <3>1 DEF Blocks
    <3> QED BY <3>1, <3>2, <3>3, <3>4
  <2> QED BY <2>1, <2>2
<1>21. /\ \A q \in Partitions : \A b \in Blocks(q)' : First(next'[b], Successors(q, b)')
       /\ \A t, q \in Partitions : First(head'[t][q], {b \in Blocks(q)' : Owner(b) = t})
       /\ \A q \in Partitions : First(heads'[q], {b \in Blocks(q) : Merged(q, Owner(b))}')
  <2>1. \A q : {b \in Blocks(q) : Merged(q, Owner(b))}' = {b \in Blocks(q) : Merged(q, Owner(b))'}
    BY <1>5
  <2> QED BY <1>5, <1>17, <1>18, <1>19, <2>1
<1> QED BY <1>1, <1>20, <1>21 DEF ChainsExact

(* Steps that change no chain and merge nothing. *)
LEMMA ChainsKept ==
  ASSUME IInv, TuplesExact, ChainsExact, UNCHANGED <<column, tuples, next, head, heads>>,
         \A p, t \in Partitions : Merged(p, t)' <=> Merged(p, t),
         (phase = "merge" /\ ~CursorDone =>
            IF tail = Nil THEN \A b \in Blocks(cursor[1]) : ~Merged(cursor[1], Owner(b))
            ELSE tail \in Blocks(cursor[1]) /\ Merged(cursor[1], Owner(tail)))'
  PROVE  ChainsExact'
<1>1. \A p : Blocks(p)' = Blocks(p)
  BY DEF Blocks, RowPart
<1>2. \A p : \A b \in Blocks(p) : Owner(b) \in Partitions
  BY BlockConsumed
<1>3. \A p \in Partitions : \A b \in Blocks(p) : Successors(p, b)' = Successors(p, b)
  BY <1>1, <1>2 DEF Successors, SameChain
<1>4. \A p \in Partitions : {b \in Blocks(p) : Merged(p, Owner(b))}' = {b \in Blocks(p) : Merged(p, Owner(b))}
  BY <1>1, <1>2
<1>5. \A t, p \in Partitions : {b \in Blocks(p) : Owner(b) = t}' = {b \in Blocks(p) : Owner(b) = t}
  BY <1>1
<1>6. \A p \in Partitions :
        /\ \A b \in Blocks(p) : First(next[b], Successors(p, b))
        /\ \A t \in Partitions : First(head[t][p], {b \in Blocks(p) : Owner(b) = t})
        /\ First(heads[p], {b \in Blocks(p) : Merged(p, Owner(b))})
  BY DEF ChainsExact
<1>7. \A p \in Partitions :
        /\ \A b \in Blocks(p)' : First(next'[b], Successors(p, b)')
        /\ \A t \in Partitions : First(head'[t][p], {b \in Blocks(p) : Owner(b) = t}')
        /\ First(heads'[p], {b \in Blocks(p) : Merged(p, Owner(b))}')
  BY <1>1, <1>3, <1>4, <1>5, <1>6
<1> QED BY <1>7 DEF ChainsExact

LEMMA JoinCollectorsChains ==
  ASSUME IInv, CountsExact, TuplesExact, ChainsExact, JoinCollectors
  PROVE  ChainsExact'
<1>1. /\ phase = "collect" /\ phase' = "merge"
      /\ UNCHANGED <<column, tuples, next, head, heads, tail, cursor>>
  BY DEF JoinCollectors, collectVars, chainVars, mergeVars
<1>2. tail = Nil /\ cursor = <<0, 0>>
  BY <1>1 DEF IInv, PointersPure, CountsExact
<1>3. \A p, t \in Partitions : ~Merged(p, t)' /\ ~Merged(p, t)
  BY <1>1, <1>2, SizesAssumption DEF Merged, Passed, Partitions, SizesAssumption
<1>4. \A b \in Blocks(cursor[1])' : ~Merged(cursor[1], Owner(b))'
  <2>1. Blocks(cursor[1])' = Blocks(0)
    BY <1>1, <1>2 DEF Blocks, RowPart
  <2>2. 0 \in Partitions  BY SizesAssumption DEF SizesAssumption, Partitions
  <2>3. \A t \in Partitions : ~Merged(cursor[1], t)'
    BY <1>1, <1>2, SizesAssumption DEF Merged, Passed, Partitions, SizesAssumption
  <2> QED BY <2>1, <2>3, BlockConsumed
<1>5. (IF tail = Nil THEN \A b \in Blocks(cursor[1]) : ~Merged(cursor[1], Owner(b))
       ELSE tail \in Blocks(cursor[1]) /\ Merged(cursor[1], Owner(tail)))'
  BY <1>1, <1>2, <1>4
<1> QED BY <1>1, <1>3, <1>5, ChainsKept

(* The walk follows the chain linked so far. *)
LEMMA MergeWalkChains ==
  ASSUME IInv, TuplesExact, ChainsExact, MergeWalk
  PROVE  ChainsExact'
<1>1. /\ phase = "merge" /\ ~CursorDone /\ tail # Nil /\ next[tail] # Nil /\ tail' = next[tail]
      /\ UNCHANGED <<column, phase, tuples, next, head, heads, cursor>>
  BY DEF MergeWalk, AtChainEnd, TailNext, collectVars, chainVars
<1>2. PICK p \in Partitions : p = cursor[1]
  BY <1>1, CursorInRange DEF IInv, TypeOK
<1>3. tail \in Blocks(p) /\ Merged(p, Owner(tail))
  BY <1>1, <1>2 DEF ChainsExact
<1>4. next[tail] \in Successors(p, tail)
  <2>1. First(next[tail], Successors(p, tail))
    BY <1>3 DEF ChainsExact
  <2> QED BY <1>1, <2>1 DEF First
<1>5. next[tail] \in Blocks(p) /\ Merged(p, Owner(next[tail]))
  BY <1>3, <1>4 DEF Successors, SameChain
<1>6. \A q, t : Merged(q, t)' <=> Merged(q, t)
  BY <1>1 DEF Merged, Passed
<1>7. (tail \in Blocks(cursor[1]) /\ Merged(cursor[1], Owner(tail)))' /\ tail' # Nil
  <2>1. Blocks(cursor[1])' = Blocks(p)
    BY <1>1, <1>2 DEF Blocks, RowPart
  <2>2. Merged(cursor[1], Owner(tail))' <=> Merged(p, Owner(next[tail]))
    BY <1>1, <1>2 DEF Merged, Passed
  <2> QED BY <1>1, <1>5, <2>1, <2>2
<1> QED BY <1>1, <1>6, <1>7, ChainsKept

(* From the end of merge_partitions on, every chain is merged and stays. *)
LEMMA LaterChains ==
  ASSUME IInv, TuplesExact, ChainsExact, UNCHANGED <<column, tuples, next, head, heads>>,
         phase' \notin {"collect", "merge"},
         phase = "collect" => FALSE,
         phase = "merge" => MergeDone
  PROVE  ChainsExact'
<1>1. \A p, t \in Partitions : Merged(p, t)
  <2>1. CASE phase # "merge"  BY <2>1 DEF Merged
  <2>2. CASE phase = "merge"
    <3>1. cursor[1] = NumPartitions  BY <2>2 DEF MergeDone, CursorDone
    <3> QED BY <2>2, <3>1, SizesAssumption DEF Merged, Passed, Partitions, SizesAssumption
  <2> QED BY <2>1, <2>2
<1>2. \A p, t \in Partitions : Merged(p, t)'
  BY DEF Merged
<1> QED BY <1>1, <1>2, ChainsKept

LEMMA SkipNullChains ==
  ASSUME IInv, TuplesExact, ChainsExact, NEW t \in Partitions, SkipNull(t)
  PROVE  ChainsExact'
<1>1. phase = "collect" /\ UNCHANGED <<column, phase, tuples, next, head, heads, cursor>>
  BY DEF SkipNull, chainVars, mergeVars
<1>2. \A q, u : Merged(q, u)' <=> Merged(q, u)
  BY <1>1 DEF Merged, Passed
<1> QED BY <1>1, <1>2, ChainsKept

-----------------------------------------------------------------------------
(* The sums.                                                                *)
LEMMA TuplesFinite == \A S : S \subseteq Tuples => IsFiniteSet(S)
<1>1. Tuples \subseteq Rows  BY DEF Tuples
<1> QED BY <1>1, RowsFinite, FS_Subset

LEMMA TuplesKnown ==
  ASSUME IInv, NEW r \in Tuples
  PROVE  r \in Rows /\ column[r] # Null /\ RowPart(r) \in Partitions /\ Owner(r) \in Partitions
         /\ Hash[column[r]] \in Hashes
<1>1. r \in Rows /\ column[r] # Null  BY DEF Tuples
<1> QED BY <1>1, RowHashed, OwnerOfRow DEF IInv, TypeOK

LEMMA AddCountOffsets ==
  ASSUME IInv, CountsExact, OffsetsExact, AddCount
  PROVE  OffsetsExact'
<1>1. PICK p \in Partitions, t \in Partitions : p = cursor[1] /\ t = cursor[2]
  BY CursorInRange DEF AddCount, IInv, TypeOK
<1>2. /\ phase = "offsets" /\ phase' = "offsets" /\ ~CursorDone /\ cursor' = NextCursor
      /\ offsets' = IF t = 0 THEN [offsets EXCEPT ![p] = running] ELSE offsets
      /\ running' = running + counts[t][p] /\ column' = column
  BY <1>1 DEF AddCount, SumBefore
<1>3. \A q, u \in Partitions : Passed(q, u)' <=> Passed(q, u) \/ (q = p /\ u = t)
  BY <1>1, <1>2, PassedNext DEF IInv, TypeOK
<1> DEFINE A == {r \in Tuples : Passed(RowPart(r), Owner(r))}
           B == {r \in Tuples : Owner(r) = t /\ RowPart(r) = p}
<1>4. Tuples' = Tuples /\ \A r \in Tuples : RowPart(r)' = RowPart(r)
  BY <1>2 DEF Tuples, RowPart
<1>5. running = Cardinality(A) /\ counts[t][p] = Cardinality(B)
  <2>1. running = Cardinality(A)  BY <1>2 DEF OffsetsExact
  <2>2. counts[t][p] = Cardinality({r \in Rows : Consumed(r) /\ Owner(r) = t /\ RowPart(r) = p})
    BY DEF CountsExact
  <2>3. \A r \in Rows : Consumed(r) <=> column[r] # Null
    BY <1>2 DEF CountsExact, Consumed
  <2>4. {r \in Rows : Consumed(r) /\ Owner(r) = t /\ RowPart(r) = p} = B
    BY <2>3 DEF Tuples
  <2> QED BY <2>1, <2>2, <2>4
<1>6. {r \in Tuples : Passed(RowPart(r), Owner(r))}' = A \cup B
  <2>1. \A r \in Tuples : Passed(RowPart(r), Owner(r))' <=> Passed(RowPart(r), Owner(r)) \/ (RowPart(r) = p /\ Owner(r) = t)
    <3> SUFFICES ASSUME NEW r \in Tuples
        PROVE  Passed(RowPart(r), Owner(r))' <=> Passed(RowPart(r), Owner(r)) \/ (RowPart(r) = p /\ Owner(r) = t)
      OBVIOUS
    <3>1. PICK q \in Partitions : q = RowPart(r)  BY TuplesKnown
    <3>2. Owner(r) \in Partitions  BY TuplesKnown
    <3>3. RowPart(r)' = q  BY <1>4, <3>1
    <3>4. Passed(RowPart(r), Owner(r))' <=> Passed(q, Owner(r))'  BY <3>3 DEF Passed
    <3> QED BY <1>3, <3>1, <3>2, <3>4
  <2> QED BY <1>4, <2>1
<1>7. A \cap B = {}
  <2>1. ~Passed(p, t)  BY <1>1, SizesAssumption DEF Passed, Partitions, SizesAssumption
  <2> QED BY <2>1
<1>8. IsFiniteSet(A) /\ IsFiniteSet(B)  BY TuplesFinite
<1>9. running' = Cardinality({r \in Tuples : Passed(RowPart(r), Owner(r))}')
  <2> HIDE DEF A, B
  <2>1. Cardinality(A \cup B) = Cardinality(A) + Cardinality(B) - Cardinality(A \cap B)
    BY <1>8, FS_Union
  <2>2. Cardinality(A \cap B) = 0  BY <1>7, FS_EmptySet
  <2>3. Cardinality(A) \in Nat /\ Cardinality(B) \in Nat  BY <1>8, FS_CardinalityType
  <2>4. Cardinality(A \cup B) = Cardinality(A) + Cardinality(B)  BY <2>1, <2>2, <2>3
  <2>5. running' = Cardinality(A) + Cardinality(B)  BY <1>2, <1>5
  <2>6. running' = Cardinality(A \cup B)  BY <2>4, <2>5
  <2> QED BY <1>6, <2>6
<1>10. ASSUME NEW q \in Partitions, Passed(q, 0)'
       PROVE  offsets'[q] = Cardinality({r \in Tuples : RowPart(r) < q}')
  <2>1. {r \in Tuples : RowPart(r) < q}' = {r \in Tuples : RowPart(r) < q}
    BY <1>4
  <2>2. 0 \in Partitions /\ \A u \in Partitions : u \in Nat
    BY SizesAssumption DEF SizesAssumption, Partitions
  <2>3. CASE q = p /\ t = 0
    <3>1. {r \in Tuples : RowPart(r) < q} = A
      <4>1. \A r \in Tuples : RowPart(r) \in Nat /\ Owner(r) \in Nat
        BY <2>2, TuplesKnown
      <4>2. \A r \in Tuples : Passed(RowPart(r), Owner(r)) <=> RowPart(r) < q
        BY <1>1, <2>2, <2>3, <4>1 DEF Passed
      <4> QED BY <4>2
    <3>2. offsets'[q] = running
      BY <1>2, <2>3 DEF IInv, TypeOK, MergeTypeOK
    <3> QED BY <1>5, <2>1, <3>1, <3>2
  <2>4. CASE ~(q = p /\ t = 0)
    <3>1. Passed(q, 0)  BY <1>3, <1>10, <2>2, <2>4
    <3>2. offsets'[q] = offsets[q]
      <4>1. CASE t = 0
        BY <1>2, <2>4, <4>1 DEF IInv, TypeOK, MergeTypeOK
      <4>2. CASE t # 0  BY <1>2, <4>2
      <4> QED BY <4>1, <4>2
    <3>3. offsets[q] = Cardinality({r \in Tuples : RowPart(r) < q})
      BY <1>2, <3>1 DEF OffsetsExact
    <3> QED BY <2>1, <3>2, <3>3
  <2> QED BY <2>3, <2>4
<1> QED BY <1>2, <1>9, <1>10 DEF OffsetsExact

LEMMA OtherOffsets ==
  ASSUME IInv, CountsExact, OffsetsExact, [Next]_vars, ~AddCount
  PROVE  OffsetsExact'
<1>1. CASE MergeDone
  <2>1. phase' = "offsets" /\ phase = "merge" /\ cursor' = <<0, 0>> /\ UNCHANGED <<column, running>>
    BY <1>1 DEF MergeDone
  <2>2. running = 0  BY <2>1 DEF CountsExact
  <2>3. \A q, u \in Partitions : ~Passed(q, u)'
    BY <2>1, SizesAssumption DEF Passed, Partitions, SizesAssumption
  <2>4. 0 \in Partitions  BY SizesAssumption DEF SizesAssumption, Partitions
  <2>5. {r \in Tuples : Passed(RowPart(r), Owner(r))}' = {}
    <3>1. \A r \in Tuples' : r \in Tuples /\ RowPart(r)' = RowPart(r)
      BY <2>1 DEF Tuples, RowPart
    <3>2. \A r \in Tuples' : ~Passed(RowPart(r), Owner(r))'
      <4> SUFFICES ASSUME NEW r \in Tuples' PROVE ~Passed(RowPart(r), Owner(r))'
        OBVIOUS
      <4>1. PICK q \in Partitions : q = RowPart(r)  BY <3>1, TuplesKnown
      <4>2. Owner(r) \in Partitions  BY <3>1, TuplesKnown
      <4>3. Passed(RowPart(r), Owner(r))' <=> Passed(q, Owner(r))'
        BY <3>1, <4>1 DEF Passed
      <4> QED BY <2>3, <4>2, <4>3
    <3> QED BY <3>2
  <2> QED BY <2>1, <2>2, <2>3, <2>4, <2>5, FS_EmptySet DEF OffsetsExact
<1>2. CASE MakeTable
  <2>1. /\ phase = "offsets" /\ phase' = "build" /\ CursorDone
        /\ UNCHANGED <<column, running, offsets>>
    BY <1>2 DEF MakeTable, mergeVars
  <2>2. \A q, u \in Partitions : Passed(q, u)
    BY <2>1, SizesAssumption DEF Passed, CursorDone, Partitions, SizesAssumption
  <2>3. 0 \in Partitions  BY SizesAssumption DEF SizesAssumption, Partitions
  <2>4. {r \in Tuples : Passed(RowPart(r), Owner(r))} = Tuples
    BY <2>2, TuplesKnown
  <2>5. running = Cardinality(Tuples)  BY <2>1, <2>4 DEF OffsetsExact
  <2>6. \A p \in Partitions : offsets[p] = Cardinality({r \in Tuples : RowPart(r) < p})
    BY <2>1, <2>2, <2>3 DEF OffsetsExact
  <2>7. Tuples' = Tuples /\ \A r : RowPart(r)' = RowPart(r)
    BY <2>1 DEF Tuples, RowPart
  <2>8. \A p : {r \in Tuples : RowPart(r) < p}' = {r \in Tuples : RowPart(r) < p}
    BY <2>7
  <2> QED BY <2>1, <2>5, <2>6, <2>7, <2>8 DEF OffsetsExact
<1>3. CASE /\ UNCHANGED column
           /\ \/ UNCHANGED <<phase, cursor, running, offsets>>
              \/ phase' \in {"collect", "merge"}
              \/ {phase, phase'} \subseteq {"build", "built"} /\ UNCHANGED <<running, offsets>>
  <2>1. Tuples' = Tuples /\ \A r : RowPart(r)' = RowPart(r)
    BY <1>3 DEF Tuples, RowPart
  <2>2. \A p : {r \in Tuples : RowPart(r) < p}' = {r \in Tuples : RowPart(r) < p}
    BY <2>1
  <2>3. CASE UNCHANGED <<phase, cursor, running, offsets>>
    <3>1. {r \in Tuples : Passed(RowPart(r), Owner(r))}' = {r \in Tuples : Passed(RowPart(r), Owner(r))}
      BY <2>1, <2>3 DEF Passed
    <3>2. \A p : Passed(p, 0)' <=> Passed(p, 0)
      BY <2>3 DEF Passed
    <3> QED BY <2>1, <2>2, <2>3, <3>1, <3>2 DEF OffsetsExact
  <2>4. CASE phase' \in {"collect", "merge"}
    BY <2>4 DEF OffsetsExact
  <2>5. CASE {phase, phase'} \subseteq {"build", "built"} /\ UNCHANGED <<running, offsets>>
    BY <2>1, <2>2, <2>5 DEF OffsetsExact
  <2> QED BY <1>3, <2>3, <2>4, <2>5
<1>4. CASE JoinCollectors \/ MergeWalk \/ MergeLink \/ JoinBuilders
  BY <1>3, <1>4 DEF JoinCollectors, MergeWalk, MergeLink, JoinBuilders, mergeVars
<1>5. ASSUME NEW t \in Partitions, Collector(t)
      PROVE  OffsetsExact'
  BY <1>3, <1>5 DEF Collector, SkipNull, Consume, mergeVars
<1>6. ASSUME NEW p \in Partitions, Builder(p)
      PROVE  OffsetsExact'
  BY <1>3, <1>6 DEF Builder, CountTuple, CountDone, PrefixSlot, PrefixDone, CopyTuple, CopyDone, mergeVars
<1>7. CASE UNCHANGED vars
  BY <1>3, <1>7 DEF vars, mergeVars
<1> QED BY <1>1, <1>2, <1>4, <1>5, <1>6, <1>7 DEF Next, Main, Done

-----------------------------------------------------------------------------
(* Every step preserves what is known of counts, blocks and chains.         *)
LEMMA ChainInit == Init => ChainInv
<1> SUFFICES ASSUME Init PROVE ChainInv
  OBVIOUS
<1> USE DEF Init
<1>1. IInv  BY InitIInv
<1>2. \A t \in Partitions : FirstRow(t) \in Nat /\ row[t] = FirstRow(t)
  BY RowRange
<1>3. \A r \in Rows : ~Consumed(r)
  <2> SUFFICES ASSUME NEW r \in Rows PROVE ~(r < row[Owner(r)])
    BY DEF Consumed
  <2>1. Owner(r) \in Partitions /\ FirstRow(Owner(r)) <= r /\ r \in Nat
    BY OwnerOfRow, SizesAssumption DEF Rows, SizesAssumption
  <2> QED BY <1>2, <2>1
<1>4. CountsExact
  <2>1. \A t, p : {r \in Rows : Consumed(r) /\ Owner(r) = t /\ RowPart(r) = p} = {}
    BY <1>3
  <2>2. \A t, p \in Partitions : counts[t][p] = 0
    OBVIOUS
  <2>3. \A t, p \in Partitions :
          counts[t][p] = Cardinality({r \in Rows : Consumed(r) /\ Owner(r) = t /\ RowPart(r) = p})
    BY <2>1, <2>2, FS_EmptySet
  <2> QED BY <1>2, <2>3 DEF CountsExact
<1>5. TuplesExact
  <2>1. \A b \in Rows : tuples[b] = <<>> /\ Len(tuples[b]) = 0 /\ 1 .. Len(tuples[b]) = {}
    OBVIOUS
  <2> QED BY <1>3, <2>1, SizesAssumption DEF TuplesExact, SizesAssumption
<1>6. ChainsExact
  <2>1. \A p : Blocks(p) = {}  BY DEF Blocks
  <2> QED BY <2>1 DEF ChainsExact, First
<1>7. OffsetsExact  BY DEF OffsetsExact
<1> QED BY <1>4, <1>5, <1>6, <1>7 DEF ChainInv

LEMMA ChainNext == IInv /\ ChainInv /\ [Next]_vars => ChainInv'
<1> SUFFICES ASSUME IInv, CountsExact, TuplesExact, ChainsExact, OffsetsExact, [Next]_vars
             PROVE  ChainInv'
  BY DEF ChainInv
<1>1. tuples \in [Rows -> Seq(Rows)]
  BY DEF IInv, TypeOK, ChainTypeOK
<1>2. ~AddCount => OffsetsExact'
  BY OtherOffsets
<1>3. ASSUME UNCHANGED <<column, row, tuples>>
      PROVE  CountsExact' => TuplesExact'
  <2>1. \A r \in Rows : Consumed(r)' <=> Consumed(r)  BY <1>3 DEF Consumed
  <2> QED BY <1>1, <1>3, <2>1, TuplesKept
<1>4. ASSUME NEW t \in Partitions, SkipNull(t)
      PROVE  ChainInv'
  <2>1. CountsExact' /\ \A r \in Rows : Consumed(r)' <=> Consumed(r)
    BY <1>4, SkipNullCounts
  <2>2. UNCHANGED tuples /\ ~AddCount  BY <1>4 DEF SkipNull, chainVars, AddCount
  <2>3. TuplesExact'  BY <1>1, <2>1, <2>2, TuplesKept
  <2>4. ChainsExact'  BY <1>4, SkipNullChains
  <2> QED BY <1>2, <2>1, <2>2, <2>3, <2>4 DEF ChainInv
<1>5. ASSUME NEW t \in Partitions, Consume(t)
      PROVE  ChainInv'
  <2>1. ~AddCount  BY <1>5 DEF Consume, AddCount
  <2>2. CountsExact'  BY <1>5, ConsumeCounts
  <2>3. TuplesExact'  BY <1>5, ConsumeTuples
  <2>4. ChainsExact'  BY <1>5, ConsumeChains
  <2> QED BY <1>2, <2>1, <2>2, <2>3, <2>4 DEF ChainInv
<1>6. CASE JoinCollectors
  <2>1. UNCHANGED <<column, row, counts, tuples, running>> /\ phase = "collect" /\ phase' = "merge" /\ ~AddCount
    BY <1>6 DEF JoinCollectors, collectVars, chainVars, mergeVars, AddCount
  <2>2. CountsExact'  BY <1>6, <2>1, LaterCounts
  <2>3. ChainsExact'  BY <1>6, JoinCollectorsChains
  <2> QED BY <1>2, <1>3, <2>1, <2>2, <2>3 DEF ChainInv
<1>7. CASE MergeWalk
  <2>1. UNCHANGED <<column, row, counts, tuples, running, phase>> /\ phase = "merge" /\ ~AddCount
    BY <1>7 DEF MergeWalk, collectVars, chainVars, AddCount
  <2>2. CountsExact'  BY <2>1, LaterCounts
  <2>3. ChainsExact'  BY <1>7, MergeWalkChains
  <2> QED BY <1>2, <1>3, <2>1, <2>2, <2>3 DEF ChainInv
<1>8. CASE MergeLink
  <2>1. UNCHANGED <<column, row, counts, tuples, running, phase>> /\ phase = "merge" /\ ~AddCount
    BY <1>8 DEF MergeLink, collectVars, AddCount
  <2>2. CountsExact'  BY <2>1, LaterCounts
  <2>3. ChainsExact'  BY <1>8, MergeLinkChains
  <2> QED BY <1>2, <1>3, <2>1, <2>2, <2>3 DEF ChainInv
<1>9. CASE MergeDone \/ AddCount \/ MakeTable \/ JoinBuilders
  <2>1. /\ UNCHANGED <<column, row, counts, tuples, next, head, heads>>
        /\ phase # "collect" /\ phase' \notin {"collect", "merge"}
        /\ (phase = "merge" => MergeDone)
    BY <1>9 DEF MergeDone, AddCount, MakeTable, JoinBuilders, collectVars, chainVars, mergeVars
  <2>2. CountsExact'  BY <2>1, LaterCounts
  <2>3. ChainsExact'  BY <2>1, LaterChains
  <2>4. OffsetsExact'  BY <1>2, AddCountOffsets
  <2> QED BY <1>3, <2>1, <2>2, <2>3, <2>4 DEF ChainInv
<1>10. ASSUME NEW p \in Partitions, Builder(p)
       PROVE  ChainInv'
  <2>1. /\ UNCHANGED <<column, row, counts, tuples, next, head, heads, phase>>
        /\ phase = "build" /\ ~AddCount
    BY <1>10 DEF Builder, CountTuple, CountDone, PrefixSlot, PrefixDone, CopyTuple, CopyDone,
                 collectVars, chainVars, mergeVars, AddCount
  <2>2. CountsExact'  BY <2>1, LaterCounts
  <2>3. ChainsExact'  BY <2>1, LaterChains
  <2> QED BY <1>2, <1>3, <2>1, <2>2, <2>3 DEF ChainInv
<1>11. CASE UNCHANGED vars
  <2>1. UNCHANGED <<column, row, counts, tuples, next, head, heads, phase, cursor, running, tail, offsets>>
    BY <1>11 DEF vars, collectVars, chainVars, mergeVars
  <2>2. CountsExact'
    <3>1. \A u, p : Counted(u, p)' = Counted(u, p)
      BY <2>1 DEF Counted, Consumed, RowPart
    <3>2. \A u, p \in Partitions : counts[u][p] = Cardinality(Counted(u, p))
      BY DEF CountsExact, Counted
    <3>3. \A u, p \in Partitions : counts'[u][p] = Cardinality(Counted(u, p)')
      BY <2>1, <3>1, <3>2
    <3> QED BY <2>1, <3>3 DEF CountsExact, Counted
  <2>3. ChainsExact'
    <3>1. \A p, t : Merged(p, t)' <=> Merged(p, t)  BY <2>1 DEF Merged, Passed
    <3>2. (phase = "merge" /\ ~CursorDone =>
            IF tail = Nil THEN \A b \in Blocks(cursor[1]) : ~Merged(cursor[1], Owner(b))
            ELSE tail \in Blocks(cursor[1]) /\ Merged(cursor[1], Owner(tail)))'
      BY <2>1 DEF ChainsExact, CursorDone, Blocks, RowPart, Merged, Passed
    <3> QED BY <2>1, <3>1, <3>2, ChainsKept
  <2>4. OffsetsExact'
    <3>1. Tuples' = Tuples /\ (\A r : RowPart(r)' = RowPart(r)) /\ \A p, t : Passed(p, t)' <=> Passed(p, t)
      BY <2>1 DEF Tuples, RowPart, Passed
    <3>2. \A p : {r \in Tuples : RowPart(r) < p}' = {r \in Tuples : RowPart(r) < p}
      BY <3>1
    <3>3. {r \in Tuples : Passed(RowPart(r), Owner(r))}' = {r \in Tuples : Passed(RowPart(r), Owner(r))}
      BY <2>1, <3>1 DEF Passed
    <3> QED BY <2>1, <3>1, <3>2, <3>3 DEF OffsetsExact
  <2> QED BY <1>3, <2>1, <2>2, <2>3, <2>4 DEF ChainInv
<1> QED
  BY <1>4, <1>5, <1>6, <1>7, <1>8, <1>9, <1>10, <1>11 DEF Next, Main, Collector, Done

-----------------------------------------------------------------------------
(* Following the links of a chain: the recursive function that MergeExact   *)
(* walks with exists, for every length.                                     *)
IsWalk(f, first, link, N) ==
  \A n \in 0 .. N : f[n] = IF n = 0 THEN first
                           ELSE IF f[n - 1] = Nil THEN Nil ELSE link[f[n - 1]]

LEMMA WalkExists ==
  ASSUME NEW D, NEW first \in D \cup {Nil}, NEW link \in [D -> D \cup {Nil}], NEW N \in Nat
  PROVE  \E f \in [0 .. N -> D \cup {Nil}] : IsWalk(f, first, link, N)
<1> DEFINE E == D \cup {Nil}
           after(b) == IF b = Nil THEN Nil ELSE link[b]
           G(m, f) == \A n \in 0 .. m : f[n] = IF n = 0 THEN first ELSE after(f[n - 1])
           S == {m \in Nat : \E f \in [0 .. m -> E] : G(m, f)}
<1>1. 0 \in S
  <2> DEFINE f == [n \in 0 .. 0 |-> first]
  <2>1. f \in [0 .. 0 -> E] /\ G(0, f)  OBVIOUS
  <2> QED BY <2>1
<1>2. ASSUME NEW m \in Nat, m \in S PROVE m + 1 \in S
  <2>1. PICK f \in [0 .. m -> E] : G(m, f)  BY <1>2
  <2> DEFINE g == [n \in 0 .. m + 1 |-> IF n <= m THEN f[n] ELSE after(f[m])]
  <2>2. \A n \in 0 .. m : g[n] = f[n] /\ f[n] \in E  OBVIOUS
  <2>3. g \in [0 .. m + 1 -> E]
    <3>1. after(f[m]) \in E  BY <2>2
    <3> HIDE DEF after
    <3> QED BY <2>2, <3>1
  <2>4. ASSUME NEW n \in 0 .. m + 1
        PROVE  g[n] = IF n = 0 THEN first ELSE after(g[n - 1])
    <3>1. CASE n = 0  BY <3>1, <2>1
    <3>2. CASE n # 0 /\ n <= m
      <4>1. n - 1 \in 0 .. m /\ n \in 0 .. m /\ ~(n = 0)  BY <3>2
      <4> HIDE DEF after
      <4>2. f[n] = after(f[n - 1])  BY <2>1, <4>1
      <4> QED BY <4>1, <4>2, <2>2, <3>2
    <3>3. CASE n = m + 1
      <4>1. n - 1 = m /\ ~(n <= m) /\ n # 0 /\ m \in 0 .. m  BY <3>3
      <4>2. g[n] = after(f[m])  BY <4>1
      <4> QED BY <2>2, <4>1, <4>2
    <3> QED BY <3>1, <3>2, <3>3
  <2>5. G(m + 1, g)  BY <2>4
  <2> HIDE DEF G, g
  <2>6. m + 1 \in Nat  OBVIOUS
  <2> QED BY <2>3, <2>5, <2>6
<1> HIDE DEF S
<1>3. N \in S  BY <1>1, <1>2, NatSetInduction
<1>4. PICK f \in [0 .. N -> E] : G(N, f)  BY <1>3 DEF S
<1> QED BY <1>4 DEF IsWalk

LEMMA ChainBlocks ==
  ASSUME IInv, NEW p \in Partitions
  PROVE  \A n \in 0 .. BuildSize :
           ChainBlock(p)[n] = IF n = 0 THEN heads[p]
                              ELSE IF ChainBlock(p)[n - 1] = Nil THEN Nil ELSE next[ChainBlock(p)[n - 1]]
<1> DEFINE G(f) == f = [n \in 0 .. BuildSize |->
                          IF n = 0 THEN heads[p]
                          ELSE IF f[n - 1] = Nil THEN Nil ELSE next[f[n - 1]]]
<1>1. ChainBlock(p) = CHOOSE f : G(f)
  BY Zenon DEF ChainBlock
<1>2. \E f : G(f)
  <2>1. /\ BuildSize \in Nat /\ heads[p] \in Rows \cup {Nil} /\ next \in [Rows -> Rows \cup {Nil}]
    BY SizesAssumption DEF SizesAssumption, IInv, TypeOK, MergeTypeOK, ChainTypeOK
  <2>2. PICK f \in [0 .. BuildSize -> Rows \cup {Nil}] : IsWalk(f, heads[p], next, BuildSize)
    BY <2>1, WalkExists
  <2>3. G(f)  BY <2>2 DEF IsWalk
  <2> QED BY <2>3
<1> HIDE DEF G
<1>3. G(ChainBlock(p))
  BY <1>1, <1>2, Zenon
<1> QED BY <1>3 DEF G

-----------------------------------------------------------------------------
(* The chain of a partition passes its blocks one after the other: the      *)
(* block reached by n links has n blocks before it, and the chain ends      *)
(* where the blocks do.                                                     *)
Preceding(p, b) == {c \in Blocks(p) : Before(c, b)}

LEMMA BlocksFinite ==
  ASSUME NEW p
  PROVE  /\ \A S : S \subseteq Blocks(p) => IsFiniteSet(S) /\ Cardinality(S) \in Nat
         /\ Cardinality(Blocks(p)) <= BuildSize
         /\ \A b : Preceding(p, b) \subseteq Blocks(p)
<1>1. IsFiniteSet(Rows) /\ Cardinality(Rows) = BuildSize
  <2>1. BuildSize \in Nat  BY SizesAssumption DEF SizesAssumption
  <2>2. 0 \in Int /\ BuildSize - 1 \in Int  BY <2>1
  <2>3. IsFiniteSet(0 .. BuildSize - 1)
        /\ Cardinality(0 .. BuildSize - 1) = IF 0 > BuildSize - 1 THEN 0 ELSE (BuildSize - 1) - 0 + 1
    BY <2>2, FS_Interval
  <2> QED BY <2>1, <2>3 DEF Rows
<1>2. Blocks(p) \in SUBSET Rows  BY DEF Blocks
<1>3. IsFiniteSet(Blocks(p)) /\ Cardinality(Blocks(p)) <= BuildSize
  BY <1>1, <1>2, FS_Subset
<1>4. \A S : S \subseteq Blocks(p) => IsFiniteSet(S) /\ Cardinality(S) \in Nat
  BY <1>3, FS_Subset, FS_CardinalityType
<1> QED BY <1>3, <1>4 DEF Preceding

(* One block more. *)
LEMMA BlockAfter ==
  ASSUME NEW p, NEW b \in Blocks(p)
  PROVE  /\ b \notin Preceding(p, b)
         /\ Cardinality(Preceding(p, b) \cup {b}) = Cardinality(Preceding(p, b)) + 1
         /\ \A S : Preceding(p, b) \cup {b} \subseteq S /\ S \subseteq Blocks(p) =>
              Cardinality(Preceding(p, b)) + 1 <= Cardinality(S)
<1>1. b \notin Preceding(p, b)
  BY BeforeOrder DEF Preceding, Blocks
<1>2. IsFiniteSet(Preceding(p, b))
  BY BlocksFinite
<1>3. Cardinality(Preceding(p, b) \cup {b}) = Cardinality(Preceding(p, b)) + 1
  BY <1>1, <1>2, FS_AddElement
<1>4. ASSUME NEW S, Preceding(p, b) \cup {b} \subseteq S, S \subseteq Blocks(p)
      PROVE  Cardinality(Preceding(p, b)) + 1 <= Cardinality(S)
  <2>1. IsFiniteSet(S)  BY <1>4, BlocksFinite
  <2>2. Cardinality(Preceding(p, b) \cup {b}) <= Cardinality(S)
    BY <1>4, <2>1, FS_Subset
  <2> QED BY <1>3, <2>2
<1> QED BY <1>1, <1>3, <1>4

(* A block is known by how many precede it. *)
LEMMA BlockByPlace ==
  ASSUME NEW p, NEW b \in Blocks(p), NEW c \in Blocks(p),
         Cardinality(Preceding(p, b)) = Cardinality(Preceding(p, c))
  PROVE  b = c
<1>1. ASSUME NEW x \in Blocks(p), NEW y \in Blocks(p), Before(x, y)
      PROVE  Cardinality(Preceding(p, x)) + 1 <= Cardinality(Preceding(p, y))
  <2>1. Preceding(p, x) \cup {x} \subseteq Preceding(p, y)
    BY <1>1, BeforeOrder DEF Preceding, Blocks
  <2> QED BY <2>1, BlockAfter, BlocksFinite
<1>2. Cardinality(Preceding(p, b)) \in Nat
  BY BlocksFinite
<1>3. ~Before(b, c) /\ ~Before(c, b)
  BY <1>1, <1>2
<1> QED BY <1>3, BeforeOrder DEF Blocks

LEMMA ChainPlaces ==
  ASSUME IInv, ChainInv, Building, NEW p \in Partitions, NEW n \in 0 .. BuildSize
  PROVE  LET c == ChainBlock(p)[n]
         IN  \/ c = Nil /\ Cardinality(Blocks(p)) <= n
             \/ c \in Blocks(p) /\ Cardinality(Preceding(p, c)) = n
<1> DEFINE Reached(m) == LET c == ChainBlock(p)[m]
                         IN  \/ c = Nil /\ Cardinality(Blocks(p)) <= m
                             \/ c \in Blocks(p) /\ Cardinality(Preceding(p, c)) = m
           S == {m \in Nat : m <= BuildSize => Reached(m)}
<1>1. BuildSize \in Nat  BY SizesAssumption DEF SizesAssumption
<1>2. /\ First(heads[p], Blocks(p))
      /\ \A b \in Blocks(p) : First(next[b], {c \in Blocks(p) : Before(b, c)})
  <2>1. \A t \in Partitions : Merged(p, t)  BY DEF Merged, Building
  <2>2. \A b \in Blocks(p) : Owner(b) \in Partitions  BY BlockConsumed DEF ChainInv
  <2>3. {b \in Blocks(p) : Merged(p, Owner(b))} = Blocks(p)  BY <2>1, <2>2
  <2>4. \A b \in Blocks(p) : Successors(p, b) = {c \in Blocks(p) : Before(b, c)}
    BY <2>1, <2>2 DEF Successors, SameChain
  <2>5. /\ First(heads[p], {b \in Blocks(p) : Merged(p, Owner(b))})
        /\ \A b \in Blocks(p) : First(next[b], Successors(p, b))
    BY DEF ChainInv, ChainsExact
  <2> QED BY <2>3, <2>4, <2>5
<1>3. \A b \in Blocks(p) : b \in Rows  BY DEF Blocks
<1>4. Nil \notin Rows  BY KeysAssumption DEF KeysAssumption
<1>5. 0 \in S
  <2>1. ChainBlock(p)[0] = heads[p]  BY <1>1, ChainBlocks
  <2>2. CASE Blocks(p) = {}
    <3>1. heads[p] = Nil /\ Cardinality(Blocks(p)) = 0
      BY <1>2, <2>2, FS_EmptySet DEF First
    <3>2. Reached(0)  BY <2>1, <3>1
    <3> QED BY <3>2
  <2>3. CASE Blocks(p) # {}
    <3>1. heads[p] \in Blocks(p) /\ \A d \in Blocks(p) : d = heads[p] \/ Before(heads[p], d)
      BY <1>2, <2>3 DEF First
    <3>2. Preceding(p, heads[p]) = {}
      BY <1>3, <3>1, BeforeOrder DEF Preceding
    <3>3. Cardinality(Preceding(p, heads[p])) = 0  BY <3>2, FS_EmptySet
    <3>4. Reached(0)  BY <2>1, <3>1, <3>3
    <3> QED BY <3>4
  <2> QED BY <2>2, <2>3
<1>6. ASSUME NEW m \in Nat, m \in S PROVE m + 1 \in S
  <2> SUFFICES ASSUME m + 1 <= BuildSize PROVE Reached(m + 1)
    OBVIOUS
  <2> DEFINE c == ChainBlock(p)[m]
             d == ChainBlock(p)[m + 1]
  <2>1. Reached(m)  BY <1>1, <1>6
  <2>2. d = IF c = Nil THEN Nil ELSE next[c]
    <3>1. m + 1 \in 0 .. BuildSize /\ m + 1 # 0 /\ (m + 1) - 1 = m  BY <1>1
    <3> QED BY <3>1, ChainBlocks
  <2>3. \/ c = Nil /\ Cardinality(Blocks(p)) <= m
        \/ c \in Blocks(p) /\ Cardinality(Preceding(p, c)) = m
    BY <2>1
  <2> HIDE DEF c, d
  <2>4. \/ d = Nil /\ Cardinality(Blocks(p)) <= m + 1
        \/ d \in Blocks(p) /\ Cardinality(Preceding(p, d)) = m + 1
    <3>1. CASE c = Nil /\ Cardinality(Blocks(p)) <= m
      <4>1. Cardinality(Blocks(p)) \in Nat  BY BlocksFinite
      <4> QED BY <2>2, <3>1, <4>1
    <3>2. CASE c \in Blocks(p) /\ Cardinality(Preceding(p, c)) = m
      <4>1. d = next[c] /\ First(d, {x \in Blocks(p) : Before(c, x)})
        BY <1>2, <1>3, <1>4, <2>2, <3>2
      <4>2. Cardinality(Preceding(p, c) \cup {c}) = m + 1  BY <3>2, BlockAfter
      <4>3. \A x \in Blocks(p) : x = c \/ Before(c, x) \/ Before(x, c)
        BY <1>3, <3>2, BeforeOrder
      <4>4. CASE {x \in Blocks(p) : Before(c, x)} = {}
        <5>1. Blocks(p) = Preceding(p, c) \cup {c}
          BY <3>2, <4>3, <4>4 DEF Preceding
        <5>2. Cardinality(Blocks(p)) = m + 1  BY <4>2, <5>1
        <5>3. d = Nil  BY <4>1, <4>4 DEF First
        <5> QED BY <5>2, <5>3
      <4>5. CASE {x \in Blocks(p) : Before(c, x)} # {}
        <5>1. /\ d \in Blocks(p) /\ Before(c, d)
              /\ \A x \in Blocks(p) : Before(c, x) => x = d \/ Before(d, x)
          BY <4>1, <4>5 DEF First
        <5>2. Preceding(p, d) = Preceding(p, c) \cup {c}
          <6>1. \A x \in Blocks(p) : Before(x, c) => Before(x, d)
            BY <1>3, <3>2, <5>1, BeforeOrder
          <6>2. \A x \in Blocks(p) : Before(x, d) => x = c \/ Before(x, c)
            BY <1>3, <3>2, <4>3, <5>1, BeforeOrder
          <6> QED BY <3>2, <5>1, <6>1, <6>2 DEF Preceding
        <5> QED BY <4>2, <5>1, <5>2
      <4> QED BY <4>4, <4>5
    <3> QED BY <2>3, <3>1, <3>2
  <2> QED BY <2>4 DEF d
<1> HIDE DEF Reached
<1>7. n \in S
  <2> HIDE DEF S
  <2>1. Nat \subseteq S  BY <1>5, <1>6, NatSetInduction
  <2> QED BY <2>1
<1>8. Reached(n)  BY <1>1, <1>7
<1> QED BY <1>8 DEF Reached

(* The chain ends within the block's number, and reaches every block. *)
LEMMA ChainComplete ==
  ASSUME IInv, ChainInv, Building, NEW p \in Partitions
  PROVE  /\ ChainBlock(p)[BuildSize] = Nil
         /\ \A b \in Blocks(p) : \E n \in 0 .. BuildSize :
              ChainBlock(p)[n] = b /\ \A m \in 0 .. BuildSize : ChainBlock(p)[m] = b => m = n
         /\ \A n \in 0 .. BuildSize : ChainBlock(p)[n] = Nil \/ ChainBlock(p)[n] \in Blocks(p)
<1>1. BuildSize \in Nat /\ BuildSize \in 0 .. BuildSize
  BY SizesAssumption DEF SizesAssumption
<1>2. \A b \in Blocks(p) : /\ Cardinality(Preceding(p, b)) \in Nat
                           /\ Cardinality(Preceding(p, b)) + 1 <= Cardinality(Blocks(p))
  <2> SUFFICES ASSUME NEW b \in Blocks(p)
      PROVE  /\ Cardinality(Preceding(p, b)) \in Nat
             /\ Cardinality(Preceding(p, b)) + 1 <= Cardinality(Blocks(p))
    OBVIOUS
  <2>1. Preceding(p, b) \cup {b} \subseteq Blocks(p)  BY DEF Preceding
  <2> QED BY <2>1, BlockAfter, BlocksFinite
<1>3. Cardinality(Blocks(p)) \in Nat /\ Cardinality(Blocks(p)) <= BuildSize
  BY BlocksFinite
<1>4. Nil \notin Blocks(p)  BY KeysAssumption DEF KeysAssumption, Blocks
<1>5. ChainBlock(p)[BuildSize] = Nil
  <2> SUFFICES ASSUME ChainBlock(p)[BuildSize] # Nil PROVE FALSE
    OBVIOUS
  <2>1. PICK c \in Blocks(p) : Cardinality(Preceding(p, c)) = BuildSize
    BY <1>1, ChainPlaces
  <2> QED BY <1>1, <1>2, <1>3, <2>1
<1>6. ASSUME NEW b \in Blocks(p)
      PROVE  \E n \in 0 .. BuildSize :
               ChainBlock(p)[n] = b /\ \A m \in 0 .. BuildSize : ChainBlock(p)[m] = b => m = n
  <2> DEFINE n == Cardinality(Preceding(p, b))
  <2>1. n \in 0 .. BuildSize /\ ~(Cardinality(Blocks(p)) <= n)
    BY <1>1, <1>2, <1>3
  <2>2. \A m \in 0 .. BuildSize : ChainBlock(p)[m] = b => m = n
    BY <1>4, ChainPlaces
  <2>3. ChainBlock(p)[n] \in Blocks(p) /\ Cardinality(Preceding(p, ChainBlock(p)[n])) = n
    <3> HIDE DEF n
    <3> QED BY <2>1, ChainPlaces
  <2>4. ChainBlock(p)[n] = b
    <3>1. PICK c \in Blocks(p) : c = ChainBlock(p)[n]  BY <2>3
    <3>2. Cardinality(Preceding(p, b)) = Cardinality(Preceding(p, c))  BY <2>3, <3>1
    <3> QED BY <3>1, <3>2, BlockByPlace
  <2> QED BY <2>1, <2>2, <2>4
<1>7. \A n \in 0 .. BuildSize : ChainBlock(p)[n] = Nil \/ ChainBlock(p)[n] \in Blocks(p)
  BY ChainPlaces
<1> QED BY <1>5, <1>6, <1>7

(* A tuple has one place in the chain of its partition, and none elsewhere. *)
LEMMA PlacesExact ==
  ASSUME IInv, ChainInv, Building, NEW p \in Partitions, NEW r \in Rows
  PROVE  Cardinality(Places(p, r)) = IF column[r] # Null /\ RowPart(r) = p THEN 1 ELSE 0
<1>1. \A b \in Blocks(p) : b \in Rows /\ b # Nil /\ \A i \in 1 .. Len(tuples[b]) :
        column[tuples[b][i]] # Null /\ RowPart(tuples[b][i]) = p
  BY KeysAssumption DEF KeysAssumption, Blocks, IInv, BlocksPure
<1>2. \A b \in Rows : Len(tuples[b]) \in Nat /\ Len(tuples[b]) <= TuplesPerBlock
  BY DEF ChainInv, TuplesExact, IInv, TypeOK, ChainTypeOK
<1>3. TuplesPerBlock \in Nat  BY SizesAssumption DEF SizesAssumption
<1>4. \A place \in Places(p, r) :
        LET b == ChainBlock(p)[place[1]]
        IN  /\ place \in (0 .. BuildSize) \X (1 .. TuplesPerBlock)
            /\ b \in Blocks(p) /\ place[2] \in 1 .. Len(tuples[b]) /\ tuples[b][place[2]] = r
  <2> SUFFICES ASSUME NEW place \in Places(p, r)
      PROVE  LET b == ChainBlock(p)[place[1]]
             IN  /\ place \in (0 .. BuildSize) \X (1 .. TuplesPerBlock)
                 /\ b \in Blocks(p) /\ place[2] \in 1 .. Len(tuples[b]) /\ tuples[b][place[2]] = r
    OBVIOUS
  <2> DEFINE b == ChainBlock(p)[place[1]]
  <2>1. /\ place \in (0 .. BuildSize) \X (1 .. TuplesPerBlock)
        /\ b # Nil /\ place[2] <= Len(tuples[b]) /\ tuples[b][place[2]] = r
    BY DEF Places
  <2>2. place[1] \in 0 .. BuildSize /\ place[2] \in 1 .. TuplesPerBlock  BY <2>1
  <2>3. b \in Blocks(p)  BY <2>1, <2>2, ChainComplete
  <2> HIDE DEF b
  <2>4. place[2] \in 1 .. Len(tuples[b])  BY <1>1, <1>2, <1>3, <2>1, <2>2, <2>3
  <2> QED BY <2>1, <2>3, <2>4 DEF b
<1>5. CASE ~(column[r] # Null /\ RowPart(r) = p)
  <2>1. Places(p, r) = {}
    BY <1>1, <1>4, <1>5
  <2> QED BY <1>5, <2>1, FS_EmptySet
<1>6. CASE column[r] # Null /\ RowPart(r) = p
  <2>1. Consumed(r)
    BY <1>6 DEF Building, ChainInv, CountsExact, Consumed
  <2>9. PICK b \in Rows : \E i \in 1 .. Len(tuples[b]) : tuples[b][i] = r
    BY <2>1 DEF ChainInv, TuplesExact
  <2>2. PICK i \in 1 .. Len(tuples[b]) : tuples[b][i] = r
    BY <2>9
  <2>3. tuples[b] # <<>> /\ b \in Blocks(p)
    <3>1. tuples[b] # <<>>  BY <2>2
    <3>2. RowPart(b) = p  BY <1>6, <2>2, <3>1 DEF IInv, BlocksPure
    <3> QED BY <3>1, <3>2 DEF Blocks
  <2>4. PICK n \in 0 .. BuildSize :
          ChainBlock(p)[n] = b /\ \A m \in 0 .. BuildSize : ChainBlock(p)[m] = b => m = n
    BY <2>3, ChainComplete
  <2>5. i \in 1 .. TuplesPerBlock /\ i <= Len(tuples[b])
    BY <1>2, <1>3
  <2>6. <<n, i>> \in Places(p, r)
    BY <1>1, <2>2, <2>3, <2>4, <2>5 DEF Places
  <2>7. \A place \in Places(p, r) : place = <<n, i>>
    <3> SUFFICES ASSUME NEW place \in Places(p, r) PROVE place = <<n, i>>
      OBVIOUS
    <3>1. PICK c \in Rows, m \in 0 .. BuildSize, j \in Nat :
            /\ place = <<m, j>> /\ c = ChainBlock(p)[m]
            /\ j \in 1 .. Len(tuples[c]) /\ tuples[c][j] = r
      <4>1. /\ place \in (0 .. BuildSize) \X (1 .. TuplesPerBlock)
            /\ ChainBlock(p)[place[1]] \in Blocks(p)
            /\ place[2] \in 1 .. Len(tuples[ChainBlock(p)[place[1]]])
            /\ tuples[ChainBlock(p)[place[1]]][place[2]] = r
        BY <1>4
      <4>2. place = <<place[1], place[2]>> /\ place[1] \in 0 .. BuildSize  BY <4>1
      <4> QED BY <1>1, <4>1, <4>2
    <3>2. c = b /\ j = i
      <4>1. \A u \in 1 .. Len(tuples[c]), v \in 1 .. Len(tuples[b]) :
              tuples[c][u] = tuples[b][v] => c = b /\ u = v
        BY DEF ChainInv, TuplesExact
      <4> QED BY <2>2, <3>1, <4>1
    <3> QED BY <2>4, <3>1, <3>2
  <2>8. Places(p, r) = {<<n, i>>}  BY <2>6, <2>7
  <2> QED BY <1>6, <2>8, FS_Singleton
<1> QED BY <1>5, <1>6

(* merge_partitions and the collectors before it lose, duplicate and        *)
(* misplace no row, for every column, hash, block size and number of        *)
(* threads: each linked chain ends, holds every row of its partition once,  *)
(* and the offset of a partition counts the tuples of those before it.      *)
THEOREM MergeCorrect == Spec => []MergeExact
<1>1. IInv /\ ChainInv => MergeExact
  <2> SUFFICES ASSUME IInv, ChainInv, Building, NEW p \in Partitions
      PROVE  /\ ChainBlock(p)[BuildSize] = Nil
             /\ \A r \in Rows :
                  Cardinality(Places(p, r)) = IF column[r] # Null /\ RowPart(r) = p THEN 1 ELSE 0
             /\ offsets[p] = Cardinality({r \in Rows : column[r] # Null /\ RowPart(r) < p})
    BY DEF MergeExact, Building
  <2>1. offsets[p] = Cardinality({r \in Tuples : RowPart(r) < p})
    BY DEF ChainInv, OffsetsExact, Building
  <2>2. {r \in Tuples : RowPart(r) < p} = {r \in Rows : column[r] # Null /\ RowPart(r) < p}
    BY DEF Tuples
  <2> QED BY <2>1, <2>2, ChainComplete, PlacesExact
<1> QED BY <1>1, InitIInv, NextIInv, ChainInit, ChainNext, PTL DEF Spec

(***************************************************************************)
(* The second half: the builders fill the storage without meeting, and the *)
(* finished table implements the abstract index.                           *)
(***************************************************************************)
-----------------------------------------------------------------------------
(* The slots of the partitions.                                             *)
LEMMA SlotRange ==
  ASSUME capacity \in DirectorySizes, NEW p \in Partitions
  PROVE  /\ FirstSlot(p) \in Nat /\ EndSlot(p) \in Nat /\ capacity \in Nat
         /\ FirstSlot(p) < EndSlot(p) /\ EndSlot(p) <= capacity
         /\ \A q \in Partitions : q < p => EndSlot(q) <= FirstSlot(p)
         /\ \A q \in Partitions : p <= q => FirstSlot(p) <= FirstSlot(q)
<1>1. PICK k, l \in Nat \ {0} :
        capacity = k * NumPartitions /\ \A q \in Nat : FirstSlot(q) = q * k /\ EndSlot(q) = (q + 1) * k
  BY SlotsPerPartition
<1>2. NumPartitions \in Nat /\ \A q \in Partitions : q \in Nat /\ q + 1 \in Nat /\ q + 1 <= NumPartitions
  BY SizesAssumption DEF SizesAssumption, Partitions
<1>3. \A q \in Nat : q * k \in Nat /\ (q + 1) * k = q * k + k
  BY SMTT(30)
<1>4. NumPartitions * k = capacity  BY <1>1, <1>2, SMTT(30)
<1>5. (p + 1) * k <= NumPartitions * k  BY <1>2, TimesMonotonic
<1>6. ASSUME NEW q \in Partitions, q < p PROVE EndSlot(q) <= FirstSlot(p)
  <2>1. q + 1 <= p  BY <1>2, <1>6
  <2>2. (q + 1) * k <= p * k  BY <1>2, <2>1, TimesMonotonic
  <2> QED BY <1>1, <1>2, <2>2
<1>7. ASSUME NEW q \in Partitions, p <= q PROVE FirstSlot(p) <= FirstSlot(q)
  <2>1. p * k <= q * k  BY <1>2, <1>7, TimesMonotonic
  <2> QED BY <1>1, <1>2, <2>1
<1>8. FirstSlot(p) = p * k /\ EndSlot(p) = (p + 1) * k /\ p * k \in Nat /\ (p + 1) * k = p * k + k
  BY <1>1, <1>2, <1>3
<1>9. FirstSlot(p) \in Nat /\ EndSlot(p) \in Nat /\ FirstSlot(p) < EndSlot(p)
  BY <1>8
<1>10. EndSlot(p) <= capacity  BY <1>4, <1>5, <1>8
<1>11. capacity \in Nat  BY SizesAssumption DEF SizesAssumption
<1> QED BY <1>6, <1>7, <1>9, <1>10, <1>11

(* Every slot belongs to a partition. *)
LEMMA SlotOwner ==
  ASSUME capacity \in DirectorySizes, NEW s \in Nat, s < capacity
  PROVE  \E p \in Partitions : s \in SlotsOf(p)
<1>1. PICK k, l \in Nat \ {0} :
        capacity = k * NumPartitions /\ \A q \in Nat : FirstSlot(q) = q * k /\ EndSlot(q) = (q + 1) * k
  BY SlotsPerPartition
<1>2. NumPartitions \in Nat  BY SizesAssumption DEF SizesAssumption
<1>3. s \div k \in 0 .. NumPartitions - 1  BY <1>1, <1>2, DivInRange
<1>4. s \div k \in Nat /\ k * (s \div k) <= s /\ s < k * ((s \div k) + 1)  BY DivBounds
<1> DEFINE p == s \div k
<1>5. p \in Partitions /\ p \in Nat  BY <1>3, <1>4 DEF Partitions
<1>6. FirstSlot(p) = p * k /\ EndSlot(p) = (p + 1) * k  BY <1>1, <1>5
<1> HIDE DEF p
<1>7. p * k <= s /\ s < (p + 1) * k  BY <1>4, <1>5, SMTT(30) DEF p
<1>8. p * k \in Int /\ (p + 1) * k \in Int  BY <1>5, SMTT(30)
<1>9. s \in SlotsOf(p)  BY <1>6, <1>7, <1>8 DEF SlotsOf
<1> QED BY <1>5, <1>9

(* A tuple's slot is one of its partition, and of no other.                 *)
LEMMA TupleSlot ==
  ASSUME IInv, capacity \in DirectorySizes, NEW r \in Tuples
  PROVE  /\ RowSlot(r) \in SlotsOf(RowPart(r)) /\ RowSlot(r) \in Nat /\ RowSlot(r) < capacity
         /\ \A p \in Partitions : RowSlot(r) \in SlotsOf(p) => p = RowPart(r)
<1>1. RowPart(r) \in Partitions /\ Hash[column[r]] \in Hashes  BY TuplesKnown
<1>2. RowSlot(r) \in SlotsOf(RowPart(r))
  BY <1>1, SlotOfPartition DEF RowSlot, RowPart, SlotsOf
<1>3. \A p \in Partitions : RowSlot(r) \in SlotsOf(p) => p = RowPart(r)
  BY <1>1, <1>2, SlotsDisjoint DEF SlotsOf
<1>4. FirstSlot(RowPart(r)) \in Nat /\ EndSlot(RowPart(r)) <= capacity /\ EndSlot(RowPart(r)) \in Nat
      /\ capacity \in Nat
  BY <1>1, SlotRange
<1>5. RowSlot(r) \in FirstSlot(RowPart(r)) .. EndSlot(RowPart(r)) - 1
  BY <1>2 DEF SlotsOf
<1> HIDE DEF RowSlot
<1>6. RowSlot(r) \in Nat /\ RowSlot(r) < capacity  BY <1>4, <1>5
<1> QED BY <1>2, <1>3, <1>6

(* The starts of the slots are the sums of the slots before them.           *)
LEMMA Starts ==
  ASSUME NEW s \in Nat
  PROVE  /\ Start(s) \in Nat /\ Base <= Start(s) /\ Start(s) <= Base + Cardinality(Tuples)
         /\ Cardinality(Tuples) \in Nat
         /\ Cardinality(SlotTuples({s})) \in Nat
         /\ Start(s + 1) = Start(s) + Cardinality(SlotTuples({s}))
         /\ \A t \in Nat : s <= t => Start(s) <= Start(t)
<1> DEFINE A(t) == SlotTuples(0 .. t - 1)
<1>1. IsFiniteSet(Tuples) /\ \A S : SlotTuples(S) \subseteq Tuples /\ IsFiniteSet(SlotTuples(S))
  BY TuplesFinite DEF SlotTuples
<1>2. \A S : Cardinality(SlotTuples(S)) \in Nat /\ Cardinality(SlotTuples(S)) <= Cardinality(Tuples)
  BY <1>1, FS_Subset, FS_CardinalityType
<1>3. Base \in Nat  BY SizesAssumption DEF SizesAssumption
<1>4. Cardinality(A(s + 1)) = Cardinality(A(s)) + Cardinality(SlotTuples({s}))
  <2>1. 0 .. (s + 1) - 1 = (0 .. s - 1) \cup {s} /\ s \notin 0 .. s - 1  OBVIOUS
  <2>2. A(s + 1) = A(s) \cup SlotTuples({s}) /\ A(s) \cap SlotTuples({s}) = {}
    BY <2>1 DEF SlotTuples
  <2>3. Cardinality(A(s) \cup SlotTuples({s})) =
          Cardinality(A(s)) + Cardinality(SlotTuples({s})) - Cardinality(A(s) \cap SlotTuples({s}))
    BY <1>1, FS_Union
  <2>4. Cardinality(A(s + 1)) = Cardinality(A(s) \cup SlotTuples({s}))  BY <2>2
  <2>5. Cardinality(A(s) \cap SlotTuples({s})) = 0  BY <2>2, FS_EmptySet
  <2>6. Cardinality(A(s)) \in Nat /\ Cardinality(SlotTuples({s})) \in Nat  BY <1>2
  <2> QED BY <2>3, <2>4, <2>5, <2>6
<1>5. ASSUME NEW t \in Nat, s <= t PROVE Cardinality(A(s)) <= Cardinality(A(t))
  <2>1. 0 .. s - 1 \subseteq 0 .. t - 1  BY <1>5
  <2>2. A(s) \subseteq A(t)  BY <2>1 DEF SlotTuples
  <2>3. IsFiniteSet(A(t))  BY <1>1
  <2> HIDE DEF A
  <2> QED BY <2>2, <2>3, FS_Subset
<1>6. \A t : Start(t) = Base + Cardinality(A(t)) /\ Cardinality(A(t)) \in Nat
             /\ Cardinality(A(t)) <= Cardinality(Tuples)
  BY <1>2 DEF Start
<1>7. Cardinality(Tuples) \in Nat  BY <1>1, FS_CardinalityType
<1>8. Cardinality(SlotTuples({s})) \in Nat  BY <1>2
<1> HIDE DEF A
<1>9. Start(s) \in Nat /\ Base <= Start(s) /\ Start(s) <= Base + Cardinality(Tuples)
  BY <1>3, <1>6, <1>7
<1>10. Start(s + 1) = Start(s) + Cardinality(SlotTuples({s}))
  <2>1. Start(s + 1) = Base + Cardinality(A(s + 1))  BY <1>6
  <2>2. Start(s) = Base + Cardinality(A(s)) /\ Cardinality(A(s)) \in Nat  BY <1>6
  <2> QED BY <1>3, <1>4, <1>8, <2>1, <2>2
<1>11. ASSUME NEW t \in Nat, s <= t PROVE Start(s) <= Start(t)
  <2>1. Start(t) = Base + Cardinality(A(t)) /\ Cardinality(A(t)) \in Nat  BY <1>6
  <2>2. Start(s) = Base + Cardinality(A(s)) /\ Cardinality(A(s)) \in Nat  BY <1>6
  <2>3. Cardinality(A(s)) <= Cardinality(A(t))  BY <1>5, <1>11
  <2> QED BY <1>3, <2>1, <2>2, <2>3
<1> QED BY <1>7, <1>8, <1>9, <1>10, <1>11

(* Where the tuples of a partition's first slot start. *)
LEMMA StartOfPartition ==
  ASSUME IInv, capacity \in DirectorySizes, NEW p \in Partitions
  PROVE  Start(FirstSlot(p)) = Base + Cardinality({r \in Tuples : RowPart(r) < p})
<1>1. \A r \in Tuples : RowSlot(r) \in 0 .. FirstSlot(p) - 1 <=> RowPart(r) < p
  <2> SUFFICES ASSUME NEW r \in Tuples
      PROVE  RowSlot(r) \in 0 .. FirstSlot(p) - 1 <=> RowPart(r) < p
    OBVIOUS
  <2>1. PICK q \in Partitions : q = RowPart(r)  BY TuplesKnown
  <2>2. PICK s \in Nat : s = RowSlot(r)  BY TupleSlot
  <2>3. s \in FirstSlot(q) .. EndSlot(q) - 1  BY <2>1, <2>2, TupleSlot DEF SlotsOf
  <2>4. p \in Int /\ q \in Int  BY SizesAssumption DEF SizesAssumption, Partitions
  <2>5. FirstSlot(q) \in Nat /\ EndSlot(q) \in Nat /\ FirstSlot(p) \in Nat  BY SlotRange
  <2>6. q < p => EndSlot(q) <= FirstSlot(p)  BY SlotRange
  <2>7. p <= q => FirstSlot(p) <= FirstSlot(q)  BY SlotRange
  <2>8. s \in 0 .. FirstSlot(p) - 1 <=> q < p  BY <2>3, <2>4, <2>5, <2>6, <2>7
  <2> QED BY <2>1, <2>2, <2>8
<1>2. SlotTuples(0 .. FirstSlot(p) - 1) = {r \in Tuples : RowPart(r) < p}
  BY <1>1 DEF SlotTuples
<1> QED BY <1>2 DEF Start

-----------------------------------------------------------------------------
(* The walks.  A finished chain follows the order of its blocks.            *)
LEMMA ChainOrder ==
  ASSUME IInv, ChainInv, phase \notin {"collect", "merge"}, NEW p \in Partitions
  PROVE  /\ First(heads[p], Blocks(p))
         /\ \A b \in Blocks(p) : First(next[b], {c \in Blocks(p) : Before(b, c)})
         /\ \A b \in Blocks(p) : b \in Rows /\ b # Nil /\ Len(tuples[b]) \in Nat \ {0}
<1>1. \A t \in Partitions : Merged(p, t)  BY DEF Merged
<1>2. \A b \in Blocks(p) : Owner(b) \in Partitions  BY BlockConsumed DEF ChainInv
<1>3. {b \in Blocks(p) : Merged(p, Owner(b))} = Blocks(p)  BY <1>1, <1>2
<1>4. \A b \in Blocks(p) : Successors(p, b) = {c \in Blocks(p) : Before(b, c)}
  BY <1>1, <1>2 DEF Successors, SameChain
<1>5. /\ First(heads[p], {b \in Blocks(p) : Merged(p, Owner(b))})
      /\ \A b \in Blocks(p) : First(next[b], Successors(p, b))
  BY DEF ChainInv, ChainsExact
<1>6. \A b \in Blocks(p) : b \in Rows /\ b # Nil /\ Len(tuples[b]) \in Nat \ {0}
  <2> SUFFICES ASSUME NEW b \in Blocks(p)
      PROVE  b \in Rows /\ b # Nil /\ Len(tuples[b]) \in Nat \ {0}
    OBVIOUS
  <2>1. b \in Rows /\ tuples[b] # <<>>  BY DEF Blocks
  <2>2. tuples[b] \in Seq(Rows)  BY <2>1 DEF IInv, TypeOK, ChainTypeOK
  <2>3. Len(tuples[b]) \in Nat \ {0}  BY <2>1, <2>2
  <2> QED BY <2>1, <2>3, KeysAssumption DEF KeysAssumption
<1> QED BY <1>3, <1>4, <1>5, <1>6

(* At the head of the chain, a walk has passed nothing. *)
LEMMA WalkStart ==
  ASSUME IInv, ChainInv, phase \notin {"collect", "merge"}, NEW p \in Partitions
  PROVE  WalkedTo(p, <<heads[p], 1>>) = {}
<1> SUFFICES ASSUME NEW b \in Blocks(p), NEW i \in 1 .. Len(tuples[b]), Past(b, i, <<heads[p], 1>>)
    PROVE  FALSE
  BY DEF WalkedTo
<1>1. heads[p] \in Blocks(p) /\ (b = heads[p] \/ Before(heads[p], b))
  BY ChainOrder DEF First
<1>2. heads[p] \in Rows /\ b \in Rows /\ heads[p] # Nil  BY <1>1, ChainOrder
<1>3. ~Before(b, heads[p])  BY <1>1, <1>2, BeforeOrder
<1>4. b = heads[p] /\ i < 1  BY <1>2, <1>3 DEF Past
<1>5. Len(tuples[b]) \in Nat  BY ChainOrder
<1> QED BY <1>4, <1>5

(* At the end of the chain, a walk has passed every tuple of the partition. *)
LEMMA WalkEnd ==
  ASSUME IInv, ChainInv, Building, NEW p \in Partitions, NEW a, a[1] = Nil
  PROVE  WalkedTo(p, a) = {r \in Tuples : RowPart(r) = p}
<1>1. ASSUME NEW r \in Tuples, RowPart(r) = p PROVE r \in WalkedTo(p, a)
  <2>1. Consumed(r) /\ r \in Rows
    BY DEF Building, ChainInv, CountsExact, Consumed, Tuples
  <2>2. PICK b \in Rows : \E i \in 1 .. Len(tuples[b]) : tuples[b][i] = r
    BY <2>1 DEF ChainInv, TuplesExact
  <2>3. PICK i \in 1 .. Len(tuples[b]) : tuples[b][i] = r  BY <2>2
  <2>4. tuples[b] # <<>>  BY <2>3
  <2>5. RowPart(b) = p  BY <1>1, <2>3, <2>4 DEF IInv, BlocksPure
  <2>6. b \in Blocks(p)  BY <2>4, <2>5 DEF Blocks
  <2> QED BY <2>3, <2>6 DEF WalkedTo, Past
<1>2. ASSUME NEW r \in WalkedTo(p, a) PROVE r \in Tuples /\ RowPart(r) = p
  <2>1. PICK b \in Blocks(p) : \E i \in 1 .. Len(tuples[b]) : tuples[b][i] = r
    BY DEF WalkedTo
  <2>2. PICK i \in 1 .. Len(tuples[b]) : tuples[b][i] = r  BY <2>1
  <2>3. RowPart(r) = RowPart(b) /\ RowPart(b) = p  BY <2>2 DEF IInv, BlocksPure, Blocks
  <2>4. r \in Tuples  BY DEF WalkedTo
  <2> QED BY <2>3, <2>4
<1> QED BY <1>1, <1>2

(* A step of a walk passes the tuple it stands at. *)
LEMMA WalkStep ==
  ASSUME IInv, ChainInv, Building, NEW p \in Partitions, at[p][1] # Nil
  PROVE  /\ TupleAt(p) \in Tuples /\ TupleAt(p) \notin Walked(p) /\ RowPart(TupleAt(p)) = p
         /\ WalkedTo(p, After(at[p])) = Walked(p) \cup {TupleAt(p)}
<1>1. PICK b \in Rows, i \in Nat \ {0} : at[p] = <<b, i>>
  BY DEF IInv, TypeOK, BuildTypeOK
<1>2. PICK r \in Rows : r = TupleAt(p)  BY WalkInPartition
<1>3. r \in Tuples /\ RowPart(r) = p  BY <1>2, WalkInPartition DEF Tuples
<1>4. i \in 1 .. Len(tuples[b]) /\ b \in Blocks(p) /\ r = tuples[b][i]
  BY <1>1, <1>2 DEF IInv, BuilderSound, BlockOf, Blocks, TupleAt
<1>5. b # Nil /\ Len(tuples[b]) \in Nat  BY <1>4, ChainOrder DEF Building
<1>6. \A c \in Blocks(p) : \A j \in 1 .. Len(tuples[c]) : tuples[c][j] = r => c = b /\ j = i
  BY <1>4 DEF ChainInv, TuplesExact, Blocks
<1>7. Walked(p) = WalkedTo(p, <<b, i>>)  BY <1>1 DEF Walked
<1>8. r \notin Walked(p)
  <2> SUFFICES ASSUME r \in WalkedTo(p, <<b, i>>) PROVE FALSE
    BY <1>7
  <2>1. PICK c \in Blocks(p) : \E j \in 1 .. Len(tuples[c]) : tuples[c][j] = r /\ Past(c, j, <<b, i>>)
    BY DEF WalkedTo
  <2>2. Past(b, i, <<b, i>>)  BY <1>6, <2>1
  <2> QED BY <1>5, <2>2, BeforeOrder DEF Past
<1> DEFINE a == After(<<b, i>>)
<1>9. \A c \in Blocks(p) : \A j \in 1 .. Len(tuples[c]) :
        Past(c, j, a) <=> Past(c, j, <<b, i>>) \/ (c = b /\ j = i)
  <2> SUFFICES ASSUME NEW c \in Blocks(p), NEW j \in 1 .. Len(tuples[c])
      PROVE  Past(c, j, a) <=> Past(c, j, <<b, i>>) \/ (c = b /\ j = i)
    OBVIOUS
  <2>1. c \in Rows /\ Len(tuples[c]) \in Nat  BY ChainOrder DEF Building
  <2>2. CASE i < Len(tuples[b])
    <3>1. a = <<b, i + 1>>  BY <2>2 DEF After
    <3> QED BY <1>5, <2>1, <3>1 DEF Past
  <2>3. CASE ~(i < Len(tuples[b]))
    <3>1. a = <<next[b], 1>> /\ i = Len(tuples[b])  BY <1>4, <1>5, <2>3 DEF After
    <3>2. First(next[b], {d \in Blocks(p) : Before(b, d)})  BY <1>4, ChainOrder DEF Building
    <3>3. c = b \/ Before(c, b) \/ Before(b, c)  BY <2>1, BeforeOrder
    <3>4. Past(c, j, <<b, i>>) \/ (c = b /\ j = i) <=> ~Before(b, c)
      <4>1. c = b => ~Before(b, c) /\ ~Before(c, b) /\ (j < i \/ j = i)
        BY <2>1, <3>1, BeforeOrder
      <4>2. Before(c, b) => ~Before(b, c)  BY <2>1, BeforeOrder
      <4> QED BY <1>5, <3>3, <4>1, <4>2 DEF Past
    <3>5. Past(c, j, a) <=> ~Before(b, c)
      <4>1. CASE next[b] = Nil
        <5>1. next[b] \notin Blocks(p)  BY <4>1, ChainOrder DEF Building
        <5>2. ~Before(b, c)  BY <3>2, <5>1 DEF First
        <5> QED BY <3>1, <4>1, <5>2 DEF Past
      <4>2. CASE next[b] # Nil
        <5>1. /\ next[b] \in Blocks(p) /\ Before(b, next[b])
              /\ \A d \in Blocks(p) : Before(b, d) => d = next[b] \/ Before(next[b], d)
          BY <3>2, <4>2 DEF First
        <5>2. next[b] \in Rows  BY <5>1 DEF Blocks
        <5>3. Past(c, j, a) <=> Before(c, next[b]) \/ (c = next[b] /\ j < 1)
          BY <3>1, <4>2 DEF Past
        <5>4. ~(j < 1)  BY <2>1
        <5>5. Before(b, c) => ~Before(c, next[b])
          BY <2>1, <5>1, <5>2, BeforeOrder
        <5>6. ~Before(b, c) => Before(c, next[b])
          BY <2>1, <3>3, <5>1, <5>2, BeforeOrder
        <5> QED BY <5>3, <5>4, <5>5, <5>6
      <4> QED BY <4>1, <4>2
    <3> QED BY <3>4, <3>5
  <2> QED BY <2>2, <2>3
<1>10. WalkedTo(p, a) = WalkedTo(p, <<b, i>>) \cup {r}
  <2> HIDE DEF a
  <2>1. ASSUME NEW x \in WalkedTo(p, a) PROVE x \in WalkedTo(p, <<b, i>>) \cup {r}
    <3>1. PICK c \in Blocks(p) : \E j \in 1 .. Len(tuples[c]) : tuples[c][j] = x /\ Past(c, j, a)
      BY <2>1 DEF WalkedTo
    <3>2. PICK j \in 1 .. Len(tuples[c]) : tuples[c][j] = x /\ Past(c, j, a)  BY <3>1
    <3>3. Past(c, j, <<b, i>>) \/ (c = b /\ j = i)  BY <1>9, <3>2
    <3>4. x \in Tuples  BY <2>1 DEF WalkedTo
    <3> QED BY <1>4, <3>2, <3>3, <3>4 DEF WalkedTo
  <2>2. ASSUME NEW x \in WalkedTo(p, <<b, i>>) PROVE x \in WalkedTo(p, a)
    <3>1. PICK c \in Blocks(p) : \E j \in 1 .. Len(tuples[c]) : tuples[c][j] = x /\ Past(c, j, <<b, i>>)
      BY <2>2 DEF WalkedTo
    <3>2. PICK j \in 1 .. Len(tuples[c]) : tuples[c][j] = x /\ Past(c, j, <<b, i>>)  BY <3>1
    <3>3. Past(c, j, a)  BY <1>9, <3>2
    <3>4. x \in Tuples  BY <2>2 DEF WalkedTo
    <3> QED BY <3>2, <3>3, <3>4 DEF WalkedTo
  <2>3. r \in WalkedTo(p, a)
    <3>1. Past(b, i, a)  BY <1>4, <1>9
    <3> QED BY <1>3, <1>4, <3>1 DEF WalkedTo
  <2> QED BY <2>1, <2>2, <2>3
<1> QED BY <1>1, <1>2, <1>3, <1>7, <1>8, <1>10

-----------------------------------------------------------------------------
(* What a builder's walk says of its slots.                                 *)
LEMMA Slots ==
  \A p \in Partitions : \A s \in SlotsOf(p) :
    capacity \in DirectorySizes =>
      /\ s \in Nat /\ s + 1 \in Nat /\ s < capacity /\ s \in -1 .. capacity - 1 /\ s # -1
      /\ Start(s) \in Nat /\ Base <= Start(s)
      /\ Start(s + 1) \in Nat /\ Start(s + 1) <= Base + Cardinality(Tuples)
<1> SUFFICES ASSUME capacity \in DirectorySizes, NEW p \in Partitions, NEW s \in SlotsOf(p)
    PROVE  /\ s \in Nat /\ s + 1 \in Nat /\ s < capacity /\ s \in -1 .. capacity - 1 /\ s # -1
           /\ Start(s) \in Nat /\ Base <= Start(s)
           /\ Start(s + 1) \in Nat /\ Start(s + 1) <= Base + Cardinality(Tuples)
  OBVIOUS
<1>1. s \in Nat /\ s + 1 \in Nat /\ s < capacity /\ s \in -1 .. capacity - 1 /\ s # -1
  BY SlotRange DEF SlotsOf
<1>2. Start(s) \in Nat /\ Base <= Start(s)  BY <1>1, Starts
<1>3. Start(s + 1) \in Nat /\ Start(s + 1) <= Base + Cardinality(Tuples)  BY <1>1, Starts
<1> QED BY <1>1, <1>2, <1>3

LEMMA SeenBounds ==
  ASSUME IInv, ChainInv, Building, NEW p \in Partitions, NEW s \in SlotsOf(p)
  PROVE  /\ Seen(p, s) \in Nat /\ Start(s) + Seen(p, s) <= Start(s + 1)
         /\ Start(s + 1) = Start(s) + Cardinality(SlotTuples({s}))
         /\ Cardinality(SlotTuples({s})) \in Nat
         /\ at[p][1] = Nil => Seen(p, s) = Cardinality(SlotTuples({s}))
         /\ \A r \in SlotTuples({s}) : r \notin Walked(p) => Start(s) + Seen(p, s) < Start(s + 1)
<1>1. capacity \in DirectorySizes  BY DEF Building, IInv, BuilderSound
<1>2. s \in Nat /\ Start(s) \in Nat /\ Start(s + 1) \in Nat  BY <1>1, Slots
<1>3. /\ Start(s + 1) = Start(s) + Cardinality(SlotTuples({s}))
      /\ Cardinality(SlotTuples({s})) \in Nat
  BY <1>2, Starts
<1> DEFINE T == SlotTuples({s})
           W == T \cap Walked(p)
<1>4. IsFiniteSet(T) /\ W \subseteq T  BY TuplesFinite DEF SlotTuples
<1>5. Seen(p, s) = Cardinality(W)  BY DEF Seen
<1>6. at[p][1] = Nil => W = T
  <2> SUFFICES ASSUME at[p][1] = Nil, NEW r \in T PROVE r \in Walked(p)
    OBVIOUS
  <2>1. r \in Tuples /\ RowSlot(r) \in SlotsOf(p)  BY DEF SlotTuples
  <2>2. RowPart(r) = p  BY <1>1, <2>1, TupleSlot
  <2>3. Walked(p) = {x \in Tuples : RowPart(x) = p}  BY WalkEnd DEF Walked
  <2> QED BY <2>1, <2>2, <2>3
<1> HIDE DEF T, W
<1>7. Cardinality(W) \in Nat /\ Cardinality(W) <= Cardinality(T)
  BY <1>4, FS_Subset, FS_CardinalityType
<1>8. ASSUME NEW r \in T, r \notin Walked(p) PROVE Cardinality(W) < Cardinality(T)
  <2>1. W # T  BY <1>8 DEF W
  <2>2. Cardinality(W) # Cardinality(T)  BY <1>4, <2>1, FS_Subset
  <2>3. Cardinality(T) \in Nat  BY <1>3 DEF T
  <2> QED BY <1>7, <2>2, <2>3
<1>9. Start(s + 1) = Start(s) + Cardinality(T) /\ Cardinality(T) \in Nat  BY <1>3 DEF T
<1>10. Start(s) + Seen(p, s) <= Start(s + 1)  BY <1>2, <1>5, <1>7, <1>9
<1>11. at[p][1] = Nil => Seen(p, s) = Cardinality(T)  BY <1>5, <1>6
<1>12. \A r \in T : r \notin Walked(p) => Start(s) + Seen(p, s) < Start(s + 1)
  BY <1>2, <1>5, <1>7, <1>8, <1>9
<1> QED BY <1>3, <1>5, <1>7, <1>10, <1>11, <1>12 DEF T

(* The cells of a slot are filled up to where its next slot starts at most. *)
LEMMA FilledBounds ==
  ASSUME IInv, ChainInv, Building, NEW p \in Partitions, NEW s \in SlotsOf(p), SlotsExact(p)
  PROVE  /\ FilledTo(p, s) = Start(s) + IF Copying(p) THEN Seen(p, s) ELSE 0
         /\ FilledTo(p, s) \in Nat /\ Start(s) <= FilledTo(p, s) /\ FilledTo(p, s) <= Start(s + 1)
         /\ Filled(p, s) \subseteq Start(s) .. Start(s + 1) - 1
<1>1. capacity \in DirectorySizes  BY DEF Building, IInv, BuilderSound
<1>2. Start(s) \in Nat /\ Start(s + 1) \in Nat  BY <1>1, Slots
<1>3. /\ Seen(p, s) \in Nat /\ Start(s) + Seen(p, s) <= Start(s + 1)
      /\ Start(s + 1) = Start(s) + Cardinality(SlotTuples({s})) /\ Cardinality(SlotTuples({s})) \in Nat
  BY SeenBounds
<1>4. Copying(p) => FilledTo(p, s) = Start(s) + Seen(p, s)  BY DEF SlotsExact, FilledTo
<1>5. ~Copying(p) => FilledTo(p, s) = Start(s)  BY DEF FilledTo
<1>6. FilledTo(p, s) \in Nat /\ Start(s) <= FilledTo(p, s) /\ FilledTo(p, s) <= Start(s + 1)
  BY <1>2, <1>3, <1>4, <1>5
<1>7. Filled(p, s) \subseteq Start(s) .. Start(s + 1) - 1  BY <1>2, <1>6 DEF Filled
<1> QED BY <1>2, <1>4, <1>5, <1>6, <1>7

(* The cells of two slots are different. *)
LEMMA CellsApart ==
  ASSUME capacity \in DirectorySizes, NEW p \in Partitions, NEW q \in Partitions,
         NEW s \in SlotsOf(p), NEW t \in SlotsOf(q), s # t,
         NEW a \in Start(s) .. Start(s + 1) - 1, NEW b \in Start(t) .. Start(t + 1) - 1
  PROVE  a # b
<1>1. /\ s \in Nat /\ s + 1 \in Nat /\ t \in Nat /\ t + 1 \in Nat
      /\ Start(s) \in Nat /\ Start(s + 1) \in Nat /\ Start(t) \in Nat /\ Start(t + 1) \in Nat
  BY Slots
<1>2. s + 1 <= t \/ t + 1 <= s  BY <1>1
<1>3. s + 1 <= t => Start(s + 1) <= Start(t)  BY <1>1, Starts
<1>4. t + 1 <= s => Start(t + 1) <= Start(s)  BY <1>1, Starts
<1> QED BY <1>1, <1>2, <1>3, <1>4

-----------------------------------------------------------------------------
(* What builders' steps leave alone.                                        *)
LEMMA SlotsKept ==
  ASSUME column' = column, capacity' = capacity
  PROVE  /\ Tuples' = Tuples /\ \A r : RowSlot(r)' = RowSlot(r) /\ RowPart(r)' = RowPart(r)
         /\ \A S : SlotTuples(S)' = SlotTuples(S)
         /\ \A s : Start(s)' = Start(s)
         /\ \A p : SlotsOf(p)' = SlotsOf(p) /\ FirstSlot(p)' = FirstSlot(p) /\ EndSlot(p)' = EndSlot(p)
BY DEF Tuples, RowSlot, RowPart, SlotOf, SlotTuples, Start, SlotsOf, FirstSlot, EndSlot

LEMMA WalkKept ==
  ASSUME column' = column, tuples' = tuples
  PROVE  \A p, a : WalkedTo(p, a)' = WalkedTo(p, a)
BY DEF WalkedTo, Tuples, Blocks, Past, Before, RowPart

LEMMA SeenNext ==
  ASSUME column' = column, capacity' = capacity, NEW p \in Partitions,
         NEW r \in Tuples, r \notin Walked(p), Walked(p)' = Walked(p) \cup {r}, NEW s
  PROVE  Seen(p, s)' = IF s = RowSlot(r) THEN Seen(p, s) + 1 ELSE Seen(p, s)
<1> DEFINE W == SlotTuples({s}) \cap Walked(p)
<1>1. SlotTuples({s})' = SlotTuples({s})  BY SlotsKept
<1>2. Seen(p, s) = Cardinality(W) /\ Seen(p, s)' = Cardinality(SlotTuples({s}) \cap (Walked(p) \cup {r}))
  BY <1>1 DEF Seen
<1>3. IsFiniteSet(W)  BY TuplesFinite DEF SlotTuples
<1>4. CASE s = RowSlot(r)
  <2>1. SlotTuples({s}) \cap (Walked(p) \cup {r}) = W \cup {r} /\ r \notin W
    BY <1>4 DEF SlotTuples
  <2>2. Seen(p, s)' = Cardinality(W \cup {r})  BY <1>2, <2>1
  <2> HIDE DEF W
  <2>3. Cardinality(W \cup {r}) = Cardinality(W) + 1  BY <1>3, <2>1, FS_AddElement
  <2> QED BY <1>2, <1>4, <2>2, <2>3
<1>5. CASE s # RowSlot(r)
  <2>1. SlotTuples({s}) \cap (Walked(p) \cup {r}) = W  BY <1>5 DEF SlotTuples
  <2> HIDE DEF W
  <2> QED BY <1>2, <1>5, <2>1
<1> QED BY <1>4, <1>5

(* A builder whose own state, slots and cells do not change is as exact as  *)
(* before.                                                                  *)
LEMMA BuilderSame ==
  ASSUME IInv, ChainInv, Building, UNCHANGED <<column, tuples, capacity>>,
         NEW q \in Partitions, SlotsExact(q), BloomsCover(q), CellsExact(q),
         at'[q] = at[q], bpc'[q] = bpc[q], slot'[q] = slot[q], cur'[q] = cur[q],
         \A s \in SlotsOf(q) : dir'[s] = dir[s],
         \A s \in SlotsOf(q) : \A a \in Start(s) .. Start(s + 1) - 1 : storage'[a - Base] = storage[a - Base]
  PROVE  SlotsExact(q)' /\ BloomsCover(q)' /\ CellsExact(q)'
<1>1. capacity \in DirectorySizes  BY DEF Building, IInv, BuilderSound
<1>2. Walked(q)' = Walked(q)
  <2>1. PICK a : a = at[q]  OBVIOUS
  <2>2. WalkedTo(q, a)' = WalkedTo(q, a)  BY WalkKept
  <2> QED BY <2>1, <2>2 DEF Walked
<1>3. \A s : SlotTuples({s})' = SlotTuples({s}) /\ Start(s)' = Start(s) /\ Seen(q, s)' = Seen(q, s)
  BY <1>2, SlotsKept DEF Seen
<1>4. SlotsOf(q)' = SlotsOf(q) /\ EndSlot(q)' = EndSlot(q) /\ (Copying(q)' <=> Copying(q))
  BY SlotsKept DEF Copying
<1>5. SlotsExact(q)'
  <2>1. (bpc[q] = "prefix" => slot[q] <= EndSlot(q) /\ cur[q] = Start(slot[q]))'
    <3>1. PICK s : s = slot[q]  OBVIOUS
    <3>2. Start(s)' = Start(s)  BY <1>3
    <3> QED BY <1>4, <3>1, <3>2 DEF SlotsExact
  <2>2. (bpc[q] \in {"prefix", "done"} => at[q][1] = Nil)'  BY DEF SlotsExact
  <2>3. ASSUME NEW s \in SlotsOf(q)
        PROVE  (dir[s].ptr = IF Copying(q) THEN Start(s) + Seen(q, s)
                             ELSE IF bpc[q] = "prefix" /\ s < slot[q] THEN Start(s) ELSE Seen(q, s))'
    <3>1. dir[s].ptr = IF Copying(q) THEN Start(s) + Seen(q, s)
                       ELSE IF bpc[q] = "prefix" /\ s < slot[q] THEN Start(s) ELSE Seen(q, s)
      BY DEF SlotsExact
    <3> QED BY <1>3, <1>4, <3>1
  <2> QED BY <1>4, <2>1, <2>2, <2>3 DEF SlotsExact
<1>6. BloomsCover(q)'
  <2>1. Tuples' = Tuples /\ \A r : RowSlot(r)' = RowSlot(r) /\ RowPart(r)' = RowPart(r)
    BY SlotsKept
  <2>2. ASSUME NEW r \in Tuples, RowPart(r) = q, bpc[q] = "count" => r \in Walked(q)
        PROVE  Tag[Hash[column[r]]] \subseteq dir'[RowSlot(r)].bloom
    <3>1. RowSlot(r) \in SlotsOf(q)  BY <1>1, <2>2, TupleSlot
    <3>2. Tag[Hash[column[r]]] \subseteq dir[RowSlot(r)].bloom  BY <2>2 DEF BloomsCover
    <3> QED BY <3>1, <3>2
  <2>3. ASSUME NEW r \in Tuples
        PROVE  (RowPart(r) = q /\ (bpc[q] = "count" => r \in Walked(q)) =>
                 Tag[Hash[column[r]]] \subseteq dir[RowSlot(r)].bloom)'
    <3>1. PICK s : s = RowSlot(r)  OBVIOUS
    <3>2. RowSlot(r)' = s  BY <2>1, <3>1
    <3> QED BY <1>2, <2>1, <2>2, <3>1, <3>2
  <2> QED BY <2>1, <2>3 DEF BloomsCover
<1>7. CellsExact(q)'
  <2> SUFFICES ASSUME NEW s \in SlotsOf(q)
      PROVE  SlotCells(q, s)'
    BY <1>4 DEF CellsExact
  <2>1. FilledTo(q, s)' = FilledTo(q, s)  BY <1>3, <1>4 DEF FilledTo
  <2>2. Filled(q, s)' = Filled(q, s)  BY <1>3, <2>1 DEF Filled
  <2>3. /\ FilledTo(q, s) \in Nat /\ Start(s) <= FilledTo(q, s)
        /\ Filled(q, s) \subseteq Start(s) .. Start(s + 1) - 1
    BY FilledBounds
  <2>4. Start(s) \in Nat /\ Start(s + 1) \in Nat  BY <1>1, Slots
  <2>5. \A a \in FilledTo(q, s) .. Start(s + 1) - 1 : a \in Start(s) .. Start(s + 1) - 1
    BY <2>3, <2>4
  <2>6. /\ \A a \in Filled(q, s) : storage'[a - Base] = storage[a - Base]
        /\ \A a \in FilledTo(q, s) .. Start(s + 1) - 1 : storage'[a - Base] = storage[a - Base]
    BY <2>3, <2>5
  <2>7. /\ \A a \in Filled(q, s) : storage[a - Base] \in SlotTuples({s}) \cap Walked(q)
        /\ \A a, b \in Filled(q, s) : storage[a - Base] = storage[b - Base] => a = b
        /\ Copying(q) => \A r \in SlotTuples({s}) \cap Walked(q) :
                           \E a \in Filled(q, s) : storage[a - Base] = r
        /\ \A a \in FilledTo(q, s) .. Start(s + 1) - 1 : storage[a - Base] = Uninit
    BY DEF CellsExact, SlotCells
  <2>8. Start(s + 1)' = Start(s + 1)  BY <1>3
  <2>9. (\A a \in Filled(q, s) : storage[a - Base] \in SlotTuples({s}) \cap Walked(q))'
    BY <1>2, <1>3, <2>2, <2>6, <2>7
  <2>10. (\A a, b \in Filled(q, s) : storage[a - Base] = storage[b - Base] => a = b)'
    BY <2>2, <2>6, <2>7
  <2>11. (Copying(q) => \A r \in SlotTuples({s}) \cap Walked(q) :
                                 \E a \in Filled(q, s) : storage[a - Base] = r)'
    <3>1. Copying(q) => \A r \in SlotTuples({s}) \cap Walked(q) :
                          \E a \in Filled(q, s) : storage'[a - Base] = r
      BY <2>6, <2>7
    <3> QED BY <1>2, <1>3, <1>4, <2>2, <3>1
  <2>12. (\A a \in FilledTo(q, s) .. Start(s + 1) - 1 : storage[a - Base] = Uninit)'
    BY <2>1, <2>6, <2>7, <2>8
  <2> QED BY <2>9, <2>10, <2>11, <2>12 DEF SlotCells
<1> QED BY <1>5, <1>6, <1>7

(* A builder's step is proved for its own slots; the others keep theirs.    *)
LEMMA BuilderStep ==
  ASSUME IInv, ChainInv, TableInv, phase = "build", UNCHANGED <<column, tuples, capacity, phase>>,
         NEW p \in Partitions,
         \A q \in Partitions : q # p =>
           at'[q] = at[q] /\ bpc'[q] = bpc[q] /\ slot'[q] = slot[q] /\ cur'[q] = cur[q],
         dir'[-1] = dir[-1], DOMAIN storage' = DOMAIN storage,
         \A q \in Partitions : q # p => \A s \in SlotsOf(q) :
           /\ dir'[s] = dir[s]
           /\ \A a \in Start(s) .. Start(s + 1) - 1 : storage'[a - Base] = storage[a - Base],
         SlotsExact(p)', BloomsCover(p)', CellsExact(p)'
  PROVE  TableInv'
<1>1. Building  BY DEF Building
<1>2. ASSUME NEW q \in Partitions PROVE SlotsExact(q)' /\ BloomsCover(q)' /\ CellsExact(q)'
  <2>1. CASE q = p  BY <2>1
  <2>2. CASE q # p
    <3>1. SlotsExact(q) /\ BloomsCover(q) /\ CellsExact(q)  BY <1>1 DEF TableInv
    <3>2. /\ at'[q] = at[q] /\ bpc'[q] = bpc[q] /\ slot'[q] = slot[q] /\ cur'[q] = cur[q]
          /\ \A s \in SlotsOf(q) : dir'[s] = dir[s]
          /\ \A s \in SlotsOf(q) : \A a \in Start(s) .. Start(s + 1) - 1 :
               storage'[a - Base] = storage[a - Base]
      BY <2>2
    <3> QED BY <1>1, <3>1, <3>2, BuilderSame
  <2> QED BY <2>1, <2>2
<1>3. (dir[-1].ptr = Base /\ DOMAIN storage = 0 .. Cardinality(Tuples) - 1)'
  BY <1>1 DEF TableInv, Tuples
<1>4. Building' /\ phase' # "built"  BY DEF Building
<1> QED BY <1>2, <1>3, <1>4 DEF TableInv

(* An updated directory entry. *)
LEMMA DirNext ==
  ASSUME IInv, capacity \in DirectorySizes, NEW p \in Partitions, NEW s \in SlotsOf(p),
         NEW new, dir' = [dir EXCEPT ![s] = new]
  PROVE  /\ dir'[s] = new /\ dir'[-1] = dir[-1]
         /\ \A q \in Partitions : \A t \in SlotsOf(q) : t # s \/ q # p => dir'[t] = dir[t]
         /\ dir[s] \in [ptr : Nat, bloom : SUBSET TagBits]
<1>1. DOMAIN dir = -1 .. capacity - 1 /\ \A t \in -1 .. capacity - 1 : dir[t] \in [ptr : Nat, bloom : SUBSET TagBits]
  BY DEF IInv, TypeOK, TableTypeOK
<1>2. s \in -1 .. capacity - 1 /\ s # -1 /\ -1 \in -1 .. capacity - 1
  <2>1. s \in -1 .. capacity - 1 /\ s # -1 /\ s \in Nat /\ s < capacity  BY Slots
  <2>2. capacity \in Nat  BY SizesAssumption DEF SizesAssumption
  <2> QED BY <2>1, <2>2
<1>3. ASSUME NEW q \in Partitions, NEW t \in SlotsOf(q), t # s \/ q # p PROVE dir'[t] = dir[t]
  <2>1. t # s  BY <1>3, SlotsDisjoint DEF SlotsOf
  <2>2. t \in -1 .. capacity - 1  BY Slots
  <2> QED BY <1>1, <2>1, <2>2
<1> QED BY <1>1, <1>2, <1>3

(* Before its copies, a builder's cells are free. *)
LEMMA NoCopies ==
  ASSUME IInv, capacity \in DirectorySizes, UNCHANGED <<column, capacity, storage>>,
         NEW p \in Partitions, CellsExact(p), ~Copying(p), ~Copying(p)'
  PROVE  CellsExact(p)'
<1>1. /\ \A s : SlotTuples({s})' = SlotTuples({s}) /\ Start(s)' = Start(s)
      /\ SlotsOf(p)' = SlotsOf(p)
  BY SlotsKept
<1> SUFFICES ASSUME NEW s \in SlotsOf(p)
    PROVE  SlotCells(p, s)'
  BY <1>1 DEF CellsExact
<1>2. FilledTo(p, s)' = Start(s) /\ FilledTo(p, s) = Start(s)  BY <1>1 DEF FilledTo
<1>3. Start(s) \in Nat  BY Slots
<1>4. Filled(p, s)' = {}  BY <1>1, <1>2, <1>3 DEF Filled
<1>5. \A a \in FilledTo(p, s) .. Start(s + 1) - 1 : storage[a - Base] = Uninit
  BY DEF CellsExact, SlotCells
<1>6. Start(s + 1)' = Start(s + 1)  BY <1>1
<1>7. (\A a \in FilledTo(p, s) .. Start(s + 1) - 1 : storage[a - Base] = Uninit)'
  BY <1>2, <1>5, <1>6
<1>8. ~Copying(p)'  OBVIOUS
<1> QED BY <1>4, <1>7, <1>8 DEF SlotCells

(* Where a walk goes when its builder steps along the chain. *)
LEMMA WalkNext ==
  ASSUME IInv, ChainInv, phase = "build", NEW p \in Partitions, at[p][1] # Nil,
         UNCHANGED <<column, tuples>>, at' = [at EXCEPT ![p] = After(@)]
  PROVE  /\ Walked(p)' = Walked(p) \cup {TupleAt(p)}
         /\ \A q \in Partitions : q # p => at'[q] = at[q]
<1>1. at' = [at EXCEPT ![p] = After(at[p])] /\ at \in [Partitions -> (Rows \cup {Nil}) \X (Nat \ {0})]
  BY DEF IInv, TypeOK, BuildTypeOK
<1>2. PICK a : a = After(at[p])  OBVIOUS
<1>3. at'[p] = a /\ \A q \in Partitions : q # p => at'[q] = at[q]  BY <1>1, <1>2
<1>4. WalkedTo(p, a)' = WalkedTo(p, a)  BY WalkKept
<1>5. Walked(p)' = WalkedTo(p, a)  BY <1>3, <1>4 DEF Walked
<1>6. WalkedTo(p, a) = Walked(p) \cup {TupleAt(p)}  BY <1>2, WalkStep DEF Building
<1> QED BY <1>3, <1>5, <1>6

-----------------------------------------------------------------------------
(* The builders' steps.                                                     *)
LEMMA CountTupleTable ==
  ASSUME IInv, ChainInv, TableInv, NEW p \in Partitions, CountTuple(p)
  PROVE  TableInv'
<1>1. PICK r \in Rows : r = TupleAt(p)  BY WalkInPartition DEF CountTuple
<1>2. PICK s : s = RowSlot(r)  OBVIOUS
<1> DEFINE tag == Tag[Hash[column[r]]]
           new == [ptr |-> dir[s].ptr + 1, bloom |-> dir[s].bloom \cup tag]
<1>3. /\ phase = "build" /\ bpc[p] = "count" /\ at[p][1] # Nil
      /\ dir' = [dir EXCEPT ![s] = new]
      /\ at' = [at EXCEPT ![p] = After(@)]
      /\ UNCHANGED <<column, phase, tuples, capacity, storage, bpc, slot, cur>>
  BY <1>1, <1>2 DEF CountTuple, chainVars
<1>4. Building /\ capacity \in DirectorySizes  BY <1>3 DEF Building, IInv, BuilderSound
<1>5. r \in Tuples /\ r \notin Walked(p) /\ RowPart(r) = p  BY <1>1, <1>3, <1>4, WalkStep
<1>6. s \in SlotsOf(p)  BY <1>2, <1>4, <1>5, TupleSlot
<1>7. SlotsExact(p) /\ BloomsCover(p) /\ CellsExact(p)  BY <1>4 DEF TableInv
<1>8. /\ Walked(p)' = Walked(p) \cup {r}
      /\ \A q \in Partitions : q # p => at'[q] = at[q]
  BY <1>1, <1>3, WalkNext
<1> HIDE DEF new
<1>9. /\ dir'[s] = new /\ dir'[-1] = dir[-1]
      /\ \A q \in Partitions : \A t \in SlotsOf(q) : t # s \/ q # p => dir'[t] = dir[t]
      /\ dir[s] \in [ptr : Nat, bloom : SUBSET TagBits]
  BY <1>3, <1>4, <1>6, DirNext
<1>10. /\ SlotsOf(p)' = SlotsOf(p) /\ EndSlot(p)' = EndSlot(p)
       /\ \A t : RowSlot(t)' = RowSlot(t) /\ RowPart(t)' = RowPart(t)
       /\ Tuples' = Tuples
  BY <1>3, SlotsKept
<1>11. SlotsExact(p)'
  <2>1. ~Copying(p)' /\ bpc'[p] = "count" /\ ~Copying(p)  BY <1>3 DEF Copying
  <2>2. ASSUME NEW t \in SlotsOf(p) PROVE dir'[t].ptr = Seen(p, t)'
    <3>1. dir[t].ptr = Seen(p, t)  BY <1>3, <1>7, <2>1 DEF SlotsExact
    <3>2. Seen(p, t)' = IF t = s THEN Seen(p, t) + 1 ELSE Seen(p, t)
      BY <1>2, <1>3, <1>5, <1>8, SeenNext
    <3>3. CASE t = s
      <4>1. dir'[t].ptr = dir[t].ptr + 1  BY <1>9, <3>3 DEF new
      <4> QED BY <3>1, <3>2, <3>3, <4>1
    <3>4. CASE t # s  BY <1>9, <3>1, <3>2, <3>4
    <3> QED BY <3>3, <3>4
  <2> QED BY <1>10, <2>1, <2>2 DEF SlotsExact
<1>12. BloomsCover(p)'
  <2>1. ASSUME NEW x \in Tuples, RowPart(x) = p, x \in Walked(p) \cup {r}, NEW t, t = RowSlot(x)
        PROVE  Tag[Hash[column[x]]] \subseteq dir'[t].bloom
    <3>1. CASE x = r  BY <1>2, <1>9, <2>1, <3>1 DEF new
    <3>2. CASE x # r
      <4>1. Tag[Hash[column[x]]] \subseteq dir[t].bloom
        BY <1>7, <2>1, <3>2 DEF BloomsCover
      <4>2. t \in SlotsOf(p)  BY <1>4, <2>1, TupleSlot
      <4>3. CASE t = s  BY <1>9, <4>1, <4>3 DEF new
      <4>4. CASE t # s  BY <1>9, <4>1, <4>2, <4>4
      <4> QED BY <4>3, <4>4
    <3> QED BY <3>1, <3>2
  <2>2. ASSUME NEW x \in Tuples
        PROVE  (RowPart(x) = p /\ (bpc[p] = "count" => x \in Walked(p)) =>
                 Tag[Hash[column[x]]] \subseteq dir[RowSlot(x)].bloom)'
    <3>1. PICK t : t = RowSlot(x)  OBVIOUS
    <3>2. RowSlot(x)' = t  BY <1>10, <3>1
    <3> QED BY <1>3, <1>8, <1>10, <2>1, <3>1, <3>2
  <2> QED BY <1>10, <2>2 DEF BloomsCover
<1>13. CellsExact(p)'
  <2>1. ~Copying(p) /\ ~Copying(p)'  BY <1>3 DEF Copying
  <2> QED BY <1>3, <1>4, <1>7, <2>1, NoCopies
<1>14. \A q \in Partitions : q # p => \A t \in SlotsOf(q) :
         /\ dir'[t] = dir[t]
         /\ \A a \in Start(t) .. Start(t + 1) - 1 : storage'[a - Base] = storage[a - Base]
  BY <1>3, <1>9
<1> QED BY <1>3, <1>8, <1>9, <1>11, <1>12, <1>13, <1>14, BuilderStep

LEMMA CountDoneTable ==
  ASSUME IInv, ChainInv, TableInv, NEW p \in Partitions, CountDone(p)
  PROVE  TableInv'
<1>1. /\ phase = "build" /\ bpc[p] = "count" /\ at[p][1] = Nil
      /\ bpc' = [bpc EXCEPT ![p] = "prefix"]
      /\ slot' = [slot EXCEPT ![p] = FirstSlot(p)]
      /\ cur' = [cur EXCEPT ![p] = Base + offsets[p]]
      /\ UNCHANGED <<column, phase, tuples, capacity, dir, storage, at>>
  BY DEF CountDone, StartAddress, chainVars, tableVars
<1>2. Building /\ capacity \in DirectorySizes  BY <1>1 DEF Building, IInv, BuilderSound
<1>3. SlotsExact(p) /\ BloomsCover(p) /\ CellsExact(p)  BY <1>2 DEF TableInv
<1>4. /\ bpc'[p] = "prefix" /\ slot'[p] = FirstSlot(p) /\ cur'[p] = Base + offsets[p]
      /\ \A q \in Partitions : q # p => bpc'[q] = bpc[q] /\ slot'[q] = slot[q] /\ cur'[q] = cur[q]
  BY <1>1 DEF IInv, TypeOK, BuildTypeOK
<1>5. Base + offsets[p] = Start(FirstSlot(p))
  <2>1. offsets[p] = Cardinality({r \in Tuples : RowPart(r) < p})
    BY <1>2 DEF ChainInv, OffsetsExact, Building
  <2> QED BY <1>2, <2>1, StartOfPartition
<1>6. /\ SlotsOf(p)' = SlotsOf(p) /\ EndSlot(p)' = EndSlot(p)
      /\ \A t : Start(t)' = Start(t) /\ SlotTuples({t})' = SlotTuples({t})
      /\ \A t : RowSlot(t)' = RowSlot(t) /\ RowPart(t)' = RowPart(t)
      /\ Tuples' = Tuples
  BY <1>1, SlotsKept
<1>7. Walked(p)' = Walked(p) /\ Walked(p) = {r \in Tuples : RowPart(r) = p}
  <2>1. PICK a : a = at[p]  OBVIOUS
  <2>2. WalkedTo(p, a)' = WalkedTo(p, a)  BY <1>1, WalkKept
  <2>3. Walked(p) = {r \in Tuples : RowPart(r) = p}  BY <1>1, <1>2, WalkEnd DEF Walked
  <2> QED BY <1>1, <2>1, <2>2, <2>3 DEF Walked
<1>8. PICK first : first = FirstSlot(p)  OBVIOUS
<1>9. SlotsExact(p)'
  <2>1. FirstSlot(p) \in Nat /\ FirstSlot(p) <= EndSlot(p) /\ EndSlot(p) \in Nat  BY <1>2, SlotRange
  <2>2. (bpc[p] = "prefix" => slot[p] <= EndSlot(p) /\ cur[p] = Start(slot[p]))'
    BY <1>4, <1>5, <1>6, <1>8, <2>1
  <2>3. ~Copying(p)' /\ ~Copying(p)  BY <1>1, <1>4 DEF Copying
  <2>4. ASSUME NEW t \in SlotsOf(p) PROVE dir'[t].ptr = Seen(p, t)' /\ ~(t < slot'[p])
    <3>1. dir[t].ptr = Seen(p, t)  BY <1>1, <1>3, <2>3 DEF SlotsExact
    <3>2. Seen(p, t)' = Seen(p, t)  BY <1>6, <1>7 DEF Seen
    <3>3. ~(t < FirstSlot(p))  BY <2>1 DEF SlotsOf
    <3> QED BY <1>1, <1>4, <3>1, <3>2, <3>3
  <2> QED BY <1>1, <1>6, <2>2, <2>3, <2>4 DEF SlotsExact
<1>10. BloomsCover(p)'
  <2> SUFFICES ASSUME NEW x \in Tuples, RowPart(x) = p
      PROVE  (Tag[Hash[column[x]]] \subseteq dir[RowSlot(x)].bloom)'
    BY <1>6 DEF BloomsCover
  <2>1. PICK t : t = RowSlot(x)  OBVIOUS
  <2>2. Tag[Hash[column[x]]] \subseteq dir[t].bloom  BY <1>3, <1>7, <2>1 DEF BloomsCover
  <2>3. RowSlot(x)' = t  BY <1>6, <2>1
  <2> QED BY <1>1, <2>2, <2>3
<1>11. CellsExact(p)'
  <2>1. ~Copying(p) /\ ~Copying(p)'  BY <1>1, <1>4 DEF Copying
  <2> QED BY <1>1, <1>2, <1>3, <2>1, NoCopies
<1> QED BY <1>1, <1>4, <1>9, <1>10, <1>11, BuilderStep

LEMMA PrefixSlotTable ==
  ASSUME IInv, ChainInv, TableInv, NEW p \in Partitions, PrefixSlot(p)
  PROVE  TableInv'
<1>1. PICK s \in Nat : s = slot[p]  BY DEF IInv, TypeOK, BuildTypeOK
<1> DEFINE new == [dir[s] EXCEPT !.ptr = cur[p]]
<1>2. /\ phase = "build" /\ bpc[p] = "prefix" /\ s < EndSlot(p)
      /\ dir' = [dir EXCEPT ![s] = new]
      /\ cur' = [cur EXCEPT ![p] = @ + dir[s].ptr]
      /\ slot' = [slot EXCEPT ![p] = @ + 1]
      /\ UNCHANGED <<column, phase, tuples, capacity, storage, bpc, at>>
  BY <1>1 DEF PrefixSlot, PointTo, chainVars
<1>3. Building /\ capacity \in DirectorySizes  BY <1>2 DEF Building, IInv, BuilderSound
<1>4. SlotsExact(p) /\ BloomsCover(p) /\ CellsExact(p)  BY <1>3 DEF TableInv
<1>5. s \in SlotsOf(p)
  <2>1. FirstSlot(p) <= s  BY <1>1, <1>2 DEF IInv, BuilderSound
  <2>2. FirstSlot(p) \in Nat /\ EndSlot(p) \in Nat  BY <1>3, SlotRange
  <2> QED BY <1>2, <2>1, <2>2 DEF SlotsOf
<1>6. /\ slot'[p] = s + 1 /\ cur'[p] = cur[p] + dir[s].ptr
      /\ \A q \in Partitions : q # p => slot'[q] = slot[q] /\ cur'[q] = cur[q]
  BY <1>1, <1>2 DEF IInv, TypeOK, BuildTypeOK
<1>7. ~Copying(p) /\ ~Copying(p)'  BY <1>2 DEF Copying
<1>8. at[p][1] = Nil /\ cur[p] = Start(s) /\ dir[s].ptr = Seen(p, s)
  <2>1. at[p][1] = Nil /\ cur[p] = Start(s)  BY <1>1, <1>2, <1>4 DEF SlotsExact
  <2>2. dir[s].ptr = Seen(p, s)  BY <1>1, <1>2, <1>4, <1>5, <1>7 DEF SlotsExact
  <2> QED BY <2>1, <2>2
<1>9. cur'[p] = Start(s + 1)
  <2>1. Seen(p, s) = Cardinality(SlotTuples({s})) /\ Start(s + 1) = Start(s) + Cardinality(SlotTuples({s}))
    BY <1>3, <1>5, <1>8, SeenBounds
  <2> QED BY <1>6, <1>8, <2>1
<1> HIDE DEF new
<1>10. /\ dir'[s] = new /\ dir'[-1] = dir[-1]
       /\ \A q \in Partitions : \A t \in SlotsOf(q) : t # s \/ q # p => dir'[t] = dir[t]
       /\ dir[s] \in [ptr : Nat, bloom : SUBSET TagBits]
  BY <1>2, <1>3, <1>5, DirNext
<1>11. new.ptr = Start(s) /\ new.bloom = dir[s].bloom  BY <1>8, <1>10 DEF new
<1>12. /\ SlotsOf(p)' = SlotsOf(p) /\ EndSlot(p)' = EndSlot(p)
       /\ \A t : Start(t)' = Start(t) /\ SlotTuples({t})' = SlotTuples({t})
       /\ \A t : RowSlot(t)' = RowSlot(t) /\ RowPart(t)' = RowPart(t)
       /\ Tuples' = Tuples
  BY <1>2, SlotsKept
<1>13. Walked(p)' = Walked(p)
  <2>1. PICK a : a = at[p]  OBVIOUS
  <2>2. WalkedTo(p, a)' = WalkedTo(p, a)  BY <1>2, WalkKept
  <2> QED BY <1>2, <2>1, <2>2 DEF Walked
<1>14. SlotsExact(p)'
  <2>1. s + 1 <= EndSlot(p)
    <3>1. EndSlot(p) \in Nat  BY <1>3, SlotRange
    <3> QED BY <1>2, <3>1
  <2>2. (slot[p] <= EndSlot(p) /\ cur[p] = Start(slot[p]))'
    <3>1. PICK t : t = s + 1  OBVIOUS
    <3>2. Start(t)' = Start(t)  BY <1>12
    <3> QED BY <1>6, <1>9, <1>12, <2>1, <3>1, <3>2
  <2>3. ASSUME NEW t \in SlotsOf(p)
        PROVE  dir'[t].ptr = IF t < slot'[p] THEN Start(t)' ELSE Seen(p, t)'
    <3>1. dir[t].ptr = IF t < s THEN Start(t) ELSE Seen(p, t)
      BY <1>1, <1>2, <1>4, <1>7 DEF SlotsExact
    <3>2. Seen(p, t)' = Seen(p, t)  BY <1>12, <1>13 DEF Seen
    <3>3. t \in Nat  BY <1>3, Slots
    <3>4. CASE t = s  BY <1>6, <1>10, <1>11, <1>12, <3>4
    <3>5. CASE t # s
      <4>1. dir'[t] = dir[t]  BY <1>10, <3>5
      <4>2. t < s <=> t < slot'[p]  BY <1>6, <3>3, <3>5
      <4> QED BY <1>12, <3>1, <3>2, <4>1, <4>2
    <3> QED BY <3>4, <3>5
  <2> QED BY <1>2, <1>7, <1>8, <1>12, <2>2, <2>3 DEF SlotsExact
<1>15. BloomsCover(p)'
  <2> SUFFICES ASSUME NEW x \in Tuples, RowPart(x) = p
      PROVE  (Tag[Hash[column[x]]] \subseteq dir[RowSlot(x)].bloom)'
    BY <1>12 DEF BloomsCover
  <2>1. PICK t : t = RowSlot(x)  OBVIOUS
  <2>2. Tag[Hash[column[x]]] \subseteq dir[t].bloom  BY <1>2, <1>4, <2>1 DEF BloomsCover
  <2>3. RowSlot(x)' = t /\ t \in SlotsOf(p)  BY <1>3, <1>12, <2>1, TupleSlot
  <2>4. dir'[t].bloom = dir[t].bloom  BY <1>10, <1>11, <2>3
  <2> QED BY <1>2, <2>2, <2>3, <2>4
<1>16. CellsExact(p)'  BY <1>2, <1>3, <1>4, <1>7, NoCopies
<1>17. \A q \in Partitions : q # p => \A t \in SlotsOf(q) :
         /\ dir'[t] = dir[t]
         /\ \A a \in Start(t) .. Start(t + 1) - 1 : storage'[a - Base] = storage[a - Base]
  BY <1>2, <1>10
<1> QED BY <1>2, <1>6, <1>10, <1>14, <1>15, <1>16, <1>17, BuilderStep

LEMMA PrefixDoneTable ==
  ASSUME IInv, ChainInv, TableInv, NEW p \in Partitions, PrefixDone(p)
  PROVE  TableInv'
<1>1. /\ phase = "build" /\ bpc[p] = "prefix" /\ slot[p] >= EndSlot(p)
      /\ bpc' = [bpc EXCEPT ![p] = "copy"]
      /\ at' = [at EXCEPT ![p] = <<heads[p], 1>>]
      /\ UNCHANGED <<column, phase, tuples, capacity, dir, storage, slot, cur>>
  BY DEF PrefixDone, chainVars, tableVars
<1>2. Building /\ capacity \in DirectorySizes  BY <1>1 DEF Building, IInv, BuilderSound
<1>3. SlotsExact(p) /\ BloomsCover(p) /\ CellsExact(p)  BY <1>2 DEF TableInv
<1>4. /\ bpc'[p] = "copy" /\ at'[p] = <<heads[p], 1>>
      /\ \A q \in Partitions : q # p => bpc'[q] = bpc[q] /\ at'[q] = at[q]
  BY <1>1 DEF IInv, TypeOK, BuildTypeOK
<1>5. /\ SlotsOf(p)' = SlotsOf(p) /\ EndSlot(p)' = EndSlot(p)
      /\ \A t : Start(t)' = Start(t) /\ SlotTuples({t})' = SlotTuples({t})
      /\ \A t : RowSlot(t)' = RowSlot(t) /\ RowPart(t)' = RowPart(t)
      /\ Tuples' = Tuples
  BY <1>1, SlotsKept
<1>6. Walked(p)' = {}
  <2>1. PICK a : a = <<heads[p], 1>>  OBVIOUS
  <2>2. WalkedTo(p, a)' = WalkedTo(p, a)  BY <1>1, WalkKept
  <2>3. WalkedTo(p, a) = {}  BY <1>2, <2>1, WalkStart DEF Building
  <2> QED BY <1>4, <2>1, <2>2, <2>3 DEF Walked
<1>7. Copying(p)' /\ ~Copying(p)  BY <1>1, <1>4 DEF Copying
<1>8. ASSUME NEW s \in SlotsOf(p)
      PROVE  dir[s].ptr = Start(s) /\ Start(s) \in Nat /\ Seen(p, s)' = 0
  <2>1. s \in Nat /\ s < EndSlot(p) /\ slot[p] \in Nat /\ EndSlot(p) \in Nat
    <3>1. EndSlot(p) \in Nat /\ FirstSlot(p) \in Nat  BY <1>2, SlotRange
    <3> QED BY <3>1 DEF SlotsOf, IInv, TypeOK, BuildTypeOK
  <2>2. s < slot[p]  BY <1>1, <2>1
  <2>3. dir[s].ptr = Start(s)  BY <1>1, <1>3, <1>7, <2>2 DEF SlotsExact
  <2>4. Start(s) \in Nat  BY <1>2, Slots
  <2>5. Seen(p, s)' = 0
    <3>1. Seen(p, s)' = Cardinality({})  BY <1>6 DEF Seen
    <3> QED BY <3>1, FS_EmptySet
  <2> QED BY <2>3, <2>4, <2>5
<1>9. SlotsExact(p)'
  <2>1. \A s \in SlotsOf(p) : dir'[s].ptr = Start(s)' + Seen(p, s)'  BY <1>1, <1>5, <1>8
  <2> QED BY <1>4, <1>5, <1>7, <2>1 DEF SlotsExact
<1>10. BloomsCover(p)'
  <2> SUFFICES ASSUME NEW x \in Tuples, RowPart(x) = p
      PROVE  (Tag[Hash[column[x]]] \subseteq dir[RowSlot(x)].bloom)'
    BY <1>5 DEF BloomsCover
  <2>1. PICK t : t = RowSlot(x)  OBVIOUS
  <2>2. Tag[Hash[column[x]]] \subseteq dir[t].bloom  BY <1>1, <1>3, <2>1 DEF BloomsCover
  <2>3. RowSlot(x)' = t  BY <1>5, <2>1
  <2> QED BY <1>1, <2>2, <2>3
<1>11. CellsExact(p)'
  <2> SUFFICES ASSUME NEW s \in SlotsOf(p)
      PROVE  SlotCells(p, s)'
    BY <1>5 DEF CellsExact
  <2>1. FilledTo(p, s)' = Start(s) /\ FilledTo(p, s) = Start(s) /\ Start(s) \in Nat
    BY <1>1, <1>7, <1>8 DEF FilledTo
  <2>2. Filled(p, s)' = {}  BY <1>5, <2>1 DEF Filled
  <2>3. \A a \in FilledTo(p, s) .. Start(s + 1) - 1 : storage[a - Base] = Uninit
    BY <1>3 DEF CellsExact, SlotCells
  <2>4. Start(s + 1)' = Start(s + 1)  BY <1>5
  <2>5. (\A a \in FilledTo(p, s) .. Start(s + 1) - 1 : storage[a - Base] = Uninit)'
    BY <1>1, <2>1, <2>3, <2>4
  <2> QED BY <1>6, <2>2, <2>5 DEF SlotCells
<1> QED BY <1>1, <1>4, <1>9, <1>10, <1>11, BuilderStep

LEMMA CopyDoneTable ==
  ASSUME IInv, ChainInv, TableInv, NEW p \in Partitions, CopyDone(p)
  PROVE  TableInv'
<1>1. /\ phase = "build" /\ bpc[p] = "copy" /\ at[p][1] = Nil
      /\ bpc' = [bpc EXCEPT ![p] = "done"]
      /\ UNCHANGED <<column, phase, tuples, capacity, dir, storage, at, slot, cur>>
  BY DEF CopyDone, chainVars, tableVars
<1>2. Building /\ capacity \in DirectorySizes  BY <1>1 DEF Building, IInv, BuilderSound
<1>3. SlotsExact(p) /\ BloomsCover(p) /\ CellsExact(p)  BY <1>2 DEF TableInv
<1>4. bpc'[p] = "done" /\ \A q \in Partitions : q # p => bpc'[q] = bpc[q]
  BY <1>1 DEF IInv, TypeOK, BuildTypeOK
<1>5. /\ SlotsOf(p)' = SlotsOf(p) /\ EndSlot(p)' = EndSlot(p)
      /\ \A t : Start(t)' = Start(t) /\ SlotTuples({t})' = SlotTuples({t})
      /\ \A t : RowSlot(t)' = RowSlot(t) /\ RowPart(t)' = RowPart(t)
      /\ Tuples' = Tuples
  BY <1>1, SlotsKept
<1>6. Walked(p)' = Walked(p)
  <2>1. PICK a : a = at[p]  OBVIOUS
  <2>2. WalkedTo(p, a)' = WalkedTo(p, a)  BY <1>1, WalkKept
  <2> QED BY <1>1, <2>1, <2>2 DEF Walked
<1>7. Copying(p)' /\ Copying(p)  BY <1>1, <1>4 DEF Copying
<1>8. \A t : Seen(p, t)' = Seen(p, t)  BY <1>5, <1>6 DEF Seen
<1>9. SlotsExact(p)'
  <2>1. \A s \in SlotsOf(p) : dir'[s].ptr = Start(s)' + Seen(p, s)'
    BY <1>1, <1>3, <1>5, <1>7, <1>8 DEF SlotsExact
  <2> QED BY <1>1, <1>4, <1>5, <1>7, <2>1 DEF SlotsExact
<1>10. BloomsCover(p)'
  <2> SUFFICES ASSUME NEW x \in Tuples, RowPart(x) = p
      PROVE  (Tag[Hash[column[x]]] \subseteq dir[RowSlot(x)].bloom)'
    BY <1>5 DEF BloomsCover
  <2>1. PICK t : t = RowSlot(x)  OBVIOUS
  <2>2. Tag[Hash[column[x]]] \subseteq dir[t].bloom  BY <1>1, <1>3, <2>1 DEF BloomsCover
  <2>3. RowSlot(x)' = t  BY <1>5, <2>1
  <2> QED BY <1>1, <2>2, <2>3
<1>11. CellsExact(p)'
  <2>1. \A s \in SlotsOf(p) : FilledTo(p, s)' = FilledTo(p, s) /\ Filled(p, s)' = Filled(p, s)
    BY <1>1, <1>5, <1>7 DEF FilledTo, Filled
  <2> SUFFICES ASSUME NEW s \in SlotsOf(p)
      PROVE  SlotCells(p, s)'
    BY <1>5 DEF CellsExact
  <2>2. /\ \A a \in Filled(p, s) : storage[a - Base] \in SlotTuples({s}) \cap Walked(p)
        /\ \A a, b \in Filled(p, s) : storage[a - Base] = storage[b - Base] => a = b
        /\ Copying(p) => \A r \in SlotTuples({s}) \cap Walked(p) :
                           \E a \in Filled(p, s) : storage[a - Base] = r
        /\ \A a \in FilledTo(p, s) .. Start(s + 1) - 1 : storage[a - Base] = Uninit
    BY <1>3 DEF CellsExact, SlotCells
  <2>3. Start(s + 1)' = Start(s + 1)  BY <1>5
  <2>4. /\ Filled(p, s)' = Filled(p, s) /\ FilledTo(p, s)' = FilledTo(p, s) /\ storage' = storage
        /\ SlotTuples({s})' = SlotTuples({s}) /\ Walked(p)' = Walked(p)
    BY <1>1, <1>5, <1>6, <2>1
  <2>5. (\A a \in Filled(p, s) : storage[a - Base] \in SlotTuples({s}) \cap Walked(p))'  BY <2>2, <2>4
  <2>6. (\A a, b \in Filled(p, s) : storage[a - Base] = storage[b - Base] => a = b)'  BY <2>2, <2>4
  <2>7. (\A r \in SlotTuples({s}) \cap Walked(p) : \E a \in Filled(p, s) : storage[a - Base] = r)'
    BY <1>7, <2>2, <2>4
  <2>8. (\A a \in FilledTo(p, s) .. Start(s + 1) - 1 : storage[a - Base] = Uninit)'  BY <2>2, <2>3, <2>4
  <2> QED BY <2>5, <2>6, <2>7, <2>8 DEF SlotCells
<1> QED BY <1>1, <1>4, <1>9, <1>10, <1>11, BuilderStep

(* A copy goes to the first free cell of the tuple's slot.                  *)
LEMMA CopyTarget ==
  ASSUME IInv, ChainInv, TableInv, phase = "build", NEW p \in Partitions,
         bpc[p] = "copy", at[p][1] # Nil
  PROVE  LET s == RowSlot(TupleAt(p))
             c == dir[s].ptr
         IN  /\ s \in SlotsOf(p) /\ c = FilledTo(p, s) /\ c \in Nat
             /\ c \in Start(s) .. Start(s + 1) - 1 /\ c - Base \in DOMAIN storage
             /\ storage[c - Base] = Uninit
<1>1. Building /\ capacity \in DirectorySizes  BY DEF Building, IInv, BuilderSound
<1>2. TupleAt(p) \in Tuples /\ TupleAt(p) \notin Walked(p) /\ RowPart(TupleAt(p)) = p
  BY <1>1, WalkStep
<1>3. PICK s : s = RowSlot(TupleAt(p))  OBVIOUS
<1>4. s \in SlotsOf(p)  BY <1>1, <1>2, <1>3, TupleSlot
<1>5. TupleAt(p) \in SlotTuples({s})  BY <1>2, <1>3 DEF SlotTuples
<1>6. SlotsExact(p) /\ CellsExact(p)  BY <1>1 DEF TableInv
<1>7. Copying(p)  BY DEF Copying
<1>8. PICK c : c = dir[s].ptr  OBVIOUS
<1>9. c = FilledTo(p, s)  BY <1>7, <1>8 DEF FilledTo
<1>10. c = Start(s) + Seen(p, s) /\ c \in Nat /\ Start(s) <= c
  BY <1>1, <1>4, <1>6, <1>7, <1>9, FilledBounds
<1>11. c < Start(s + 1)  BY <1>1, <1>2, <1>4, <1>5, <1>10, SeenBounds
<1>12. /\ Start(s) \in Nat /\ Base <= Start(s)
       /\ Start(s + 1) \in Nat /\ Start(s + 1) <= Base + Cardinality(Tuples)
  BY <1>1, <1>4, Slots
<1>13. c \in Start(s) .. Start(s + 1) - 1  BY <1>10, <1>11, <1>12
<1>14. c - Base \in DOMAIN storage
  <2>1. DOMAIN storage = 0 .. Cardinality(Tuples) - 1  BY <1>1 DEF TableInv
  <2>2. Base \in Nat /\ Cardinality(Tuples) \in Nat
    BY SizesAssumption, TuplesFinite, FS_CardinalityType DEF SizesAssumption
  <2> QED BY <1>10, <1>11, <1>12, <2>1, <2>2
<1>15. c \in FilledTo(p, s) .. Start(s + 1) - 1  BY <1>9, <1>10, <1>13
<1>16. storage[c - Base] = Uninit  BY <1>4, <1>6, <1>15 DEF CellsExact, SlotCells
<1> QED BY <1>3, <1>4, <1>8, <1>9, <1>10, <1>13, <1>14, <1>16

LEMMA CopyTupleTable ==
  ASSUME IInv, ChainInv, TableInv, NEW p \in Partitions, CopyTuple(p)
  PROVE  TableInv'
<1>1. PICK r \in Rows : r = TupleAt(p)  BY WalkInPartition DEF CopyTuple
<1>2. PICK s : s = RowSlot(r)  OBVIOUS
<1>3. PICK c : c = dir[s].ptr  OBVIOUS
<1> DEFINE new == [dir[s] EXCEPT !.ptr = c + 1]
<1>4. /\ phase = "build" /\ bpc[p] = "copy" /\ at[p][1] # Nil
      /\ dir' = [dir EXCEPT ![s] = new]
      /\ storage' = [storage EXCEPT ![c - Base] = r]
      /\ at' = [at EXCEPT ![p] = After(@)]
      /\ UNCHANGED <<column, phase, tuples, capacity, bpc, slot, cur>>
  BY <1>1, <1>2, <1>3 DEF CopyTuple, chainVars
<1>5. Building /\ capacity \in DirectorySizes  BY <1>4 DEF Building, IInv, BuilderSound
<1>6. r \in Tuples /\ r \notin Walked(p) /\ RowPart(r) = p  BY <1>1, <1>4, <1>5, WalkStep
<1>7. /\ s \in SlotsOf(p) /\ c = FilledTo(p, s) /\ c \in Nat
      /\ c \in Start(s) .. Start(s + 1) - 1 /\ c - Base \in DOMAIN storage
  BY <1>1, <1>2, <1>3, <1>4, CopyTarget
<1>8. SlotsExact(p) /\ BloomsCover(p) /\ CellsExact(p)  BY <1>5 DEF TableInv
<1>9. /\ Walked(p)' = Walked(p) \cup {r}
      /\ \A q \in Partitions : q # p => at'[q] = at[q]
  BY <1>1, <1>4, WalkNext
<1> HIDE DEF new
<1>10. /\ dir'[s] = new /\ dir'[-1] = dir[-1]
       /\ \A q \in Partitions : \A t \in SlotsOf(q) : t # s \/ q # p => dir'[t] = dir[t]
       /\ dir[s] \in [ptr : Nat, bloom : SUBSET TagBits]
  BY <1>4, <1>5, <1>7, DirNext
<1>11. new.ptr = c + 1 /\ new.bloom = dir[s].bloom  BY <1>10 DEF new
<1>12. /\ SlotsOf(p)' = SlotsOf(p) /\ EndSlot(p)' = EndSlot(p)
       /\ \A t : Start(t)' = Start(t) /\ SlotTuples({t})' = SlotTuples({t})
       /\ \A t : RowSlot(t)' = RowSlot(t) /\ RowPart(t)' = RowPart(t)
       /\ Tuples' = Tuples
  BY <1>4, SlotsKept
<1>13. /\ DOMAIN storage' = DOMAIN storage /\ storage'[c - Base] = r
       /\ \A a \in Int : a # c => storage'[a - Base] = storage[a - Base]
  <2>1. \A a \in Int : a # c => a - Base # c - Base
    BY <1>7, SizesAssumption, SMTT(30) DEF SizesAssumption
  <2> QED BY <1>4, <1>7, <2>1
<1>14. \A q \in Partitions : \A t \in SlotsOf(q) : t # s \/ q # p =>
         \A a \in Start(t) .. Start(t + 1) - 1 : storage'[a - Base] = storage[a - Base]
  <2> SUFFICES ASSUME NEW q \in Partitions, NEW t \in SlotsOf(q), t # s \/ q # p,
                      NEW a \in Start(t) .. Start(t + 1) - 1
      PROVE  storage'[a - Base] = storage[a - Base]
    OBVIOUS
  <2>1. t # s  BY <1>5, <1>7, SlotsDisjoint DEF SlotsOf
  <2>2. a # c  BY <1>5, <1>7, <2>1, CellsApart
  <2>3. a \in Int  OBVIOUS
  <2> QED BY <1>13, <2>2, <2>3
<1>15. Copying(p) /\ Copying(p)'  BY <1>4 DEF Copying
<1>16. \A t \in SlotsOf(p) : FilledTo(p, t)' = dir'[t].ptr /\ FilledTo(p, t) = dir[t].ptr
  BY <1>15 DEF FilledTo
<1>17. SlotsExact(p)'
  <2>1. ASSUME NEW t \in SlotsOf(p) PROVE dir'[t].ptr = Start(t)' + Seen(p, t)'
    <3>1. dir[t].ptr = Start(t) + Seen(p, t)  BY <1>8, <1>15 DEF SlotsExact
    <3>2. Seen(p, t)' = IF t = s THEN Seen(p, t) + 1 ELSE Seen(p, t)
      BY <1>2, <1>4, <1>6, <1>9, SeenNext
    <3>3. Start(t)' = Start(t)  BY <1>12
    <3>4. CASE t = s
      <4>1. Seen(p, t) \in Nat  BY <1>5, SeenBounds
      <4>2. Start(t) \in Nat  BY <1>5, Slots
      <4>3. dir'[t].ptr = dir[t].ptr + 1  BY <1>3, <1>10, <1>11, <3>4
      <4> QED BY <3>1, <3>2, <3>3, <3>4, <4>1, <4>2, <4>3
    <3>5. CASE t # s  BY <1>10, <3>1, <3>2, <3>3, <3>5
    <3> QED BY <3>4, <3>5
  <2> QED BY <1>4, <1>12, <1>15, <2>1 DEF SlotsExact
<1>18. BloomsCover(p)'
  <2> SUFFICES ASSUME NEW x \in Tuples, RowPart(x) = p
      PROVE  (Tag[Hash[column[x]]] \subseteq dir[RowSlot(x)].bloom)'
    BY <1>12 DEF BloomsCover
  <2>1. PICK t : t = RowSlot(x)  OBVIOUS
  <2>2. Tag[Hash[column[x]]] \subseteq dir[t].bloom  BY <1>4, <1>8, <2>1 DEF BloomsCover
  <2>3. RowSlot(x)' = t /\ t \in SlotsOf(p)  BY <1>5, <1>12, <2>1, TupleSlot
  <2>4. dir'[t].bloom = dir[t].bloom  BY <1>10, <1>11, <2>3
  <2> QED BY <1>4, <2>2, <2>3, <2>4
<1>19. CellsExact(p)'
  <2> SUFFICES ASSUME NEW t \in SlotsOf(p)
      PROVE  SlotCells(p, t)'
    BY <1>12 DEF CellsExact
  <2>1. /\ \A a \in Filled(p, t) : storage[a - Base] \in SlotTuples({t}) \cap Walked(p)
        /\ \A a, b \in Filled(p, t) : storage[a - Base] = storage[b - Base] => a = b
        /\ \A x \in SlotTuples({t}) \cap Walked(p) : \E a \in Filled(p, t) : storage[a - Base] = x
        /\ \A a \in FilledTo(p, t) .. Start(t + 1) - 1 : storage[a - Base] = Uninit
    BY <1>8, <1>15 DEF CellsExact, SlotCells
  <2>2. /\ FilledTo(p, t) \in Nat /\ Start(t) <= FilledTo(p, t)
        /\ Filled(p, t) \subseteq Start(t) .. Start(t + 1) - 1
    BY <1>5, <1>8, FilledBounds
  <2>3. Start(t) \in Nat /\ Start(t + 1) \in Nat  BY <1>5, Slots
  <2>4. Start(t)' = Start(t) /\ Start(t + 1)' = Start(t + 1) /\ SlotTuples({t})' = SlotTuples({t})
    BY <1>12
  <2>5. Filled(p, t) = Start(t) .. FilledTo(p, t) - 1 /\ Filled(p, t)' = Start(t) .. FilledTo(p, t)' - 1
    BY <2>4 DEF Filled
  <2>6. CASE t # s
    <3>1. FilledTo(p, t)' = FilledTo(p, t)  BY <1>10, <1>16, <2>6
    <3>2. Filled(p, t)' = Filled(p, t)  BY <2>5, <3>1
    <3>3. SlotTuples({t}) \cap Walked(p)' = SlotTuples({t}) \cap Walked(p)
      BY <1>2, <1>9, <2>6 DEF SlotTuples
    <3>4. \A a \in Filled(p, t) : storage'[a - Base] = storage[a - Base]
      BY <1>14, <2>2, <2>6
    <3>5. \A a \in FilledTo(p, t) .. Start(t + 1) - 1 : storage'[a - Base] = storage[a - Base]
      <4>1. \A a \in FilledTo(p, t) .. Start(t + 1) - 1 : a \in Start(t) .. Start(t + 1) - 1
        BY <2>2, <2>3
      <4> QED BY <1>14, <2>6, <4>1
    <3>6. (\A a \in Filled(p, t) : storage[a - Base] \in SlotTuples({t}) \cap Walked(p))'
      BY <2>1, <2>4, <3>2, <3>3, <3>4
    <3>7. (\A a, b \in Filled(p, t) : storage[a - Base] = storage[b - Base] => a = b)'
      BY <2>1, <3>2, <3>4
    <3>8. (\A x \in SlotTuples({t}) \cap Walked(p) : \E a \in Filled(p, t) : storage[a - Base] = x)'
      <4>1. \A x \in SlotTuples({t}) \cap Walked(p) : \E a \in Filled(p, t) : storage'[a - Base] = x
        BY <2>1, <3>4
      <4> QED BY <2>4, <3>2, <3>3, <4>1
    <3>9. (\A a \in FilledTo(p, t) .. Start(t + 1) - 1 : storage[a - Base] = Uninit)'
      BY <2>1, <2>4, <3>1, <3>5
    <3> QED BY <3>6, <3>7, <3>8, <3>9 DEF SlotCells
  <2>7. CASE t = s
    <3>1. FilledTo(p, t) = c /\ FilledTo(p, t)' = c + 1  BY <1>3, <1>7, <1>10, <1>11, <1>16, <2>7
    <3>2. Filled(p, t)' = Filled(p, t) \cup {c} /\ c \notin Filled(p, t)
      BY <2>2, <2>3, <2>5, <3>1
    <3>3. SlotTuples({t}) \cap Walked(p)' = (SlotTuples({t}) \cap Walked(p)) \cup {r}
      BY <1>2, <1>6, <1>9, <2>7 DEF SlotTuples
    <3>4. \A a \in Filled(p, t) : a \in Int /\ storage'[a - Base] = storage[a - Base]
      BY <1>13, <2>2, <3>2
    <3>5. \A a \in (c + 1) .. Start(t + 1) - 1 :
            a \in FilledTo(p, t) .. Start(t + 1) - 1 /\ storage'[a - Base] = storage[a - Base]
      <4>1. \A a \in (c + 1) .. Start(t + 1) - 1 :
              a \in Int /\ a # c /\ a \in FilledTo(p, t) .. Start(t + 1) - 1
        BY <1>7, <2>3, <3>1
      <4> QED BY <1>13, <4>1
    <3>6. (\A a \in Filled(p, t) : storage[a - Base] \in SlotTuples({t}) \cap Walked(p))'
      BY <1>13, <2>1, <2>4, <3>2, <3>3, <3>4
    <3>7. (\A a, b \in Filled(p, t) : storage[a - Base] = storage[b - Base] => a = b)'
      <4>1. \A a \in Filled(p, t) : storage'[a - Base] # r  BY <1>6, <2>1, <3>4
      <4>2. \A a, b \in Filled(p, t) : storage'[a - Base] = storage'[b - Base] => a = b
        BY <2>1, <3>4
      <4>3. \A a, b \in Filled(p, t) \cup {c} : storage'[a - Base] = storage'[b - Base] => a = b
        BY <1>13, <4>1, <4>2
      <4> QED BY <3>2, <4>3
    <3>8. (\A x \in SlotTuples({t}) \cap Walked(p) : \E a \in Filled(p, t) : storage[a - Base] = x)'
      <4>1. \A x \in SlotTuples({t}) \cap Walked(p) : \E a \in Filled(p, t) : storage'[a - Base] = x
        BY <2>1, <3>4
      <4>2. \A x \in (SlotTuples({t}) \cap Walked(p)) \cup {r} :
              \E a \in Filled(p, t) \cup {c} : storage'[a - Base] = x
        BY <1>13, <4>1
      <4> QED BY <2>4, <3>2, <3>3, <4>2
    <3>9. (\A a \in FilledTo(p, t) .. Start(t + 1) - 1 : storage[a - Base] = Uninit)'
      BY <2>1, <2>4, <3>1, <3>5
    <3> QED BY <3>6, <3>7, <3>8, <3>9 DEF SlotCells
  <2> QED BY <2>6, <2>7
<1>20. \A q \in Partitions : q # p => \A t \in SlotsOf(q) :
         /\ dir'[t] = dir[t]
         /\ \A a \in Start(t) .. Start(t + 1) - 1 : storage'[a - Base] = storage[a - Base]
  BY <1>10, <1>14
<1> QED BY <1>4, <1>9, <1>10, <1>13, <1>17, <1>18, <1>19, <1>20, BuilderStep

-----------------------------------------------------------------------------
(* FinalTable's constructor leaves zero counts, no bloom bits, free cells.  *)
LEMMA MakeTableTable ==
  ASSUME IInv, ChainInv, TableInv, IInv', ChainInv', MakeTable
  PROVE  TableInv'
<1>1. /\ phase = "offsets" /\ phase' = "build"
      /\ dir' = [s \in -1 .. capacity' - 1 |-> [ptr |-> IF s = -1 THEN Base ELSE 0, bloom |-> {}]]
      /\ storage' = [c \in 0 .. running - 1 |-> Uninit]
      /\ at' = [p \in Partitions |-> <<heads[p], 1>>]
      /\ UNCHANGED <<column, tuples, running, bpc>>
  BY DEF MakeTable, chainVars, mergeVars
<1>2. Building' /\ capacity' \in DirectorySizes /\ capacity' \in Nat
  BY <1>1, SizesAssumption DEF Building, IInv, BuilderSound, SizesAssumption
<1>3. Tuples' = Tuples  BY <1>1 DEF Tuples
<1>4. running = Cardinality(Tuples)  BY <1>1, <1>3 DEF ChainInv, OffsetsExact
<1>5. \A p \in Partitions : bpc[p] = "count" /\ bpc'[p] = "count"
  BY <1>1 DEF TableInv, Building
<1>6. (\A p \in Partitions : \A s \in SlotsOf(p) :
         capacity \in DirectorySizes =>
           /\ s \in Nat /\ s + 1 \in Nat /\ s < capacity /\ s \in -1 .. capacity - 1 /\ s # -1
           /\ Start(s) \in Nat /\ Base <= Start(s)
           /\ Start(s + 1) \in Nat /\ Start(s + 1) <= Base + Cardinality(Tuples))'
  BY Slots, PTL
<1>7. dir'[-1].ptr = Base /\ DOMAIN storage' = 0 .. Cardinality(Tuples') - 1
  <2>1. -1 \in -1 .. capacity' - 1
    <3>1. \A n \in Nat : -1 \in -1 .. n - 1  OBVIOUS
    <3> QED BY <1>2, <3>1
  <2>2. dir'[-1].ptr = Base  BY <1>1, <2>1
  <2>3. DOMAIN storage' = 0 .. running - 1  BY <1>1
  <2> QED BY <1>3, <1>4, <2>2, <2>3
<1>8. ASSUME NEW p \in Partitions PROVE SlotsExact(p)' /\ BloomsCover(p)' /\ CellsExact(p)'
  <2>1. Walked(p)' = {}
    <3>1. PICK a : a = <<heads[p], 1>>  OBVIOUS
    <3>2. WalkedTo(p, a)' = WalkedTo(p, a)  BY <1>1, WalkKept
    <3>3. WalkedTo(p, a) = {}  BY <1>1, <3>1, WalkStart
    <3>4. at'[p] = a  BY <1>1, <3>1
    <3> QED BY <3>2, <3>3, <3>4 DEF Walked
  <2>2. ~Copying(p)'  BY <1>5 DEF Copying
  <2>3. \A s : Seen(p, s)' = 0
    <3>1. \A s : Seen(p, s)' = Cardinality({})  BY <2>1 DEF Seen
    <3> QED BY <3>1, FS_EmptySet
  <2>4. \A s \in SlotsOf(p)' : dir'[s].ptr = 0  BY <1>1, <1>2, <1>6
  <2>5. SlotsExact(p)'
    <3>1. \A s \in SlotsOf(p)' : dir'[s].ptr = Seen(p, s)'  BY <2>3, <2>4
    <3> QED BY <1>5, <2>2, <3>1 DEF SlotsExact
  <2>6. BloomsCover(p)'  BY <1>5, <2>1 DEF BloomsCover
  <2>7. CellsExact(p)'
    <3> SUFFICES ASSUME NEW s \in SlotsOf(p)'
        PROVE  SlotCells(p, s)'
      BY DEF CellsExact
    <3>1. FilledTo(p, s)' = Start(s)'  BY <2>2 DEF FilledTo
    <3>2. /\ Start(s)' \in Nat /\ Base <= Start(s)'
          /\ Start(s + 1)' \in Nat /\ Start(s + 1)' <= Base + running
      BY <1>2, <1>3, <1>4, <1>6
    <3>3. Filled(p, s)' = {}  BY <3>1, <3>2 DEF Filled
    <3>4. running \in Nat /\ Base \in Nat
      BY SizesAssumption DEF SizesAssumption, IInv, TypeOK, MergeTypeOK
    <3>5. ASSUME NEW a \in Start(s)' .. Start(s + 1)' - 1 PROVE storage'[a - Base] = Uninit
      <4>1. a - Base \in 0 .. running - 1  BY <3>2, <3>4
      <4> QED BY <1>1, <4>1
    <3> QED BY <2>2, <3>1, <3>3, <3>5 DEF SlotCells
  <2> QED BY <2>5, <2>6, <2>7
<1> QED BY <1>1, <1>2, <1>5, <1>7, <1>8 DEF TableInv

(* The main thread joins builders that are done. *)
LEMMA JoinBuildersTable ==
  ASSUME IInv, ChainInv, TableInv, JoinBuilders
  PROVE  TableInv'
<1>1. /\ phase = "build" /\ phase' = "built" /\ \A p \in Partitions : bpc[p] = "done"
      /\ UNCHANGED <<column, tuples, capacity, dir, storage, bpc, at, slot, cur>>
  BY DEF JoinBuilders, BuildersDone, chainVars, tableVars, buildVars
<1>2. Building /\ Building'  BY <1>1 DEF Building
<1>3. ASSUME NEW p \in Partitions PROVE SlotsExact(p)' /\ BloomsCover(p)' /\ CellsExact(p)'
  <2>1. SlotsExact(p) /\ BloomsCover(p) /\ CellsExact(p)  BY <1>2 DEF TableInv
  <2> QED BY <1>1, <1>2, <2>1, BuilderSame
<1>4. (dir[-1].ptr = Base /\ DOMAIN storage = 0 .. Cardinality(Tuples) - 1)'
  BY <1>1, <1>2 DEF TableInv, Tuples
<1> QED BY <1>1, <1>2, <1>3, <1>4 DEF TableInv

LEMMA TableInit == Init => TableInv
BY DEF Init, TableInv, Building

LEMMA TableNext == IInv /\ ChainInv /\ TableInv /\ [Next]_vars => TableInv'
<1> SUFFICES ASSUME IInv, ChainInv, TableInv, [Next]_vars PROVE TableInv'
  OBVIOUS
<1>1. IInv' /\ ChainInv'  BY NextIInv, ChainNext
<1>2. ASSUME NEW p \in Partitions, Builder(p) PROVE TableInv'
  BY <1>2, CountTupleTable, CountDoneTable, PrefixSlotTable, PrefixDoneTable, CopyTupleTable,
     CopyDoneTable DEF Builder
<1>3. CASE MakeTable  BY <1>1, <1>3, MakeTableTable
<1>4. CASE JoinBuilders  BY <1>4, JoinBuildersTable
<1>5. ASSUME ~Building, ~Building', bpc' = bpc PROVE TableInv'
  BY <1>5 DEF TableInv, Building
<1>6. CASE JoinCollectors \/ MergeWalk \/ MergeLink \/ MergeDone \/ AddCount
  <2>1. ~Building /\ ~Building'
    BY <1>6 DEF Building, JoinCollectors, MergeWalk, MergeLink, MergeDone, AddCount
  <2>2. bpc' = bpc
    BY <1>6 DEF JoinCollectors, MergeWalk, MergeLink, MergeDone, AddCount, buildVars
  <2> QED BY <1>5, <2>1, <2>2
<1>7. ASSUME NEW t \in Partitions, Collector(t) PROVE TableInv'
  <2>1. ~Building /\ ~Building'  BY <1>7 DEF Building, Collector, SkipNull, Consume
  <2>2. bpc' = bpc  BY <1>7 DEF Collector, SkipNull, Consume, buildVars
  <2> QED BY <1>5, <2>1, <2>2
<1>8. CASE UNCHANGED vars
  <2>1. UNCHANGED <<column, phase, tuples, capacity, dir, storage, bpc, at, slot, cur>>
    BY <1>8 DEF vars, chainVars, tableVars, buildVars
  <2>2. CASE ~Building  BY <1>5, <2>1, <2>2 DEF Building
  <2>3. CASE Building
    <3>1. ASSUME NEW p \in Partitions PROVE SlotsExact(p)' /\ BloomsCover(p)' /\ CellsExact(p)'
      <4>1. SlotsExact(p) /\ BloomsCover(p) /\ CellsExact(p)  BY <2>3 DEF TableInv
      <4> QED BY <2>1, <2>3, <4>1, BuilderSame
    <3>2. (dir[-1].ptr = Base /\ DOMAIN storage = 0 .. Cardinality(Tuples) - 1)'
      BY <2>1, <2>3 DEF TableInv, Tuples
    <3>3. phase' = "built" => \A p \in Partitions : bpc'[p] = "done"  BY <2>1 DEF TableInv
    <3>4. Building'  BY <2>1, <2>3 DEF Building
    <3> QED BY <3>1, <3>2, <3>3, <3>4 DEF TableInv
  <2> QED BY <2>2, <2>3
<1> QED BY <1>2, <1>3, <1>4, <1>6, <1>7, <1>8 DEF Next, Main, Done

-----------------------------------------------------------------------------
(* Builders that fill the shared storage without a lock never meet: each    *)
(* copy goes to a cell of the allocated array that nobody has written, and  *)
(* no two builders are about to write the same one.                         *)
THEOREM CopiesNeverMeet == Spec => []CopiesDisjoint
<1>1. IInv /\ ChainInv /\ TableInv => CopiesDisjoint
  <2> SUFFICES ASSUME IInv, ChainInv, TableInv, phase = "build" PROVE CopiesDisjoint
    BY DEF CopiesDisjoint
  <2>1. capacity \in DirectorySizes  BY DEF IInv, BuilderSound
  <2>2. ASSUME NEW p \in Partitions, NEW c \in StorageAccess(p)
        PROVE  /\ c \in DOMAIN storage /\ storage[c] = Uninit
               /\ \E s \in SlotsOf(p) : \E a \in Start(s) .. Start(s + 1) - 1 : c = a - Base
    <3>1. bpc[p] = "copy" /\ at[p][1] # Nil /\ c = dir[RowSlot(TupleAt(p))].ptr - Base
      BY <2>2 DEF StorageAccess, Walking
    <3> QED BY <3>1, CopyTarget
  <2>3. ASSUME NEW p \in Partitions, NEW q \in Partitions, p # q,
               NEW c \in StorageAccess(p) \cap StorageAccess(q)
        PROVE  FALSE
    <3>1. PICK s \in SlotsOf(p) : \E a \in Start(s) .. Start(s + 1) - 1 : c = a - Base
      BY <2>2
    <3>2. PICK a \in Start(s) .. Start(s + 1) - 1 : c = a - Base  BY <3>1
    <3>3. PICK t \in SlotsOf(q) : \E b \in Start(t) .. Start(t + 1) - 1 : c = b - Base
      BY <2>2
    <3>4. PICK b \in Start(t) .. Start(t + 1) - 1 : c = b - Base  BY <3>3
    <3>5. s # t  BY <2>1, <2>3, SlotsDisjoint DEF SlotsOf
    <3>6. a # b  BY <2>1, <3>5, CellsApart
    <3>7. a = b  BY <3>2, <3>4, SizesAssumption DEF SizesAssumption
    <3> QED BY <3>6, <3>7
  <2> QED BY <2>2, <2>3 DEF CopiesDisjoint
<1> QED
  BY <1>1, InitIInv, NextIInv, ChainInit, ChainNext, TableInit, TableNext, PTL DEF Spec

-----------------------------------------------------------------------------
(* A finished range holds every row of its key, once each.                  *)
LEMMA FinishedRange ==
  ASSUME IInv, ChainInv, TableInv, phase \in {"build", "built"}, BuildersDone, NEW k \in Keys
  PROVE  /\ \A a \in FindRange(k) : a - Base \in DOMAIN storage /\ storage[a - Base] \in Rows
         /\ \A r \in Rows : column[r] = k => \E a \in FindRange(k) : storage[a - Base] = r
         /\ \A a, b \in FindRange(k) : storage[a - Base] = storage[b - Base] => a = b
<1>1. Building /\ capacity \in DirectorySizes /\ capacity \in Nat
  BY SizesAssumption DEF Building, IInv, BuilderSound, SizesAssumption
<1>2. Hash[k] \in Hashes  BY KeysAssumption DEF KeysAssumption
<1>3. PICK p \in Partitions : p = Part(Hash[k])  BY <1>2, PartInRange
<1>4. PICK s : s = SlotOf(Hash[k])  OBVIOUS
<1>5. s \in SlotsOf(p)  BY <1>1, <1>2, <1>3, <1>4, SlotOfPartition DEF SlotsOf
<1>6. /\ s \in Nat /\ s < capacity /\ Start(s) \in Nat /\ Base <= Start(s)
      /\ Start(s + 1) \in Nat /\ Start(s + 1) <= Base + Cardinality(Tuples)
  BY <1>1, <1>5, Slots
<1>7. ASSUME NEW q \in Partitions, NEW t \in SlotsOf(q)
      PROVE  dir[t].ptr = Start(t + 1)
  <2>1. bpc[q] = "done" /\ SlotsExact(q)  BY <1>1 DEF BuildersDone, TableInv
  <2>2. at[q][1] = Nil /\ dir[t].ptr = Start(t) + Seen(q, t)
    BY <2>1 DEF SlotsExact, Copying
  <2>3. Seen(q, t) = Cardinality(SlotTuples({t})) /\ Start(t + 1) = Start(t) + Cardinality(SlotTuples({t}))
    BY <1>1, <2>2, SeenBounds
  <2> QED BY <2>2, <2>3
<1>8. dir[s].ptr = Start(s + 1)  BY <1>5, <1>7
<1>9. dir[s - 1].ptr = Start(s)
  <2>1. CASE s = 0
    <3>1. 0 .. 0 - 1 = {}  OBVIOUS
    <3>2. Start(0) = Base + 0
      <4>1. SlotTuples(0 .. 0 - 1) = {}  BY <3>1 DEF SlotTuples
      <4>2. Cardinality(SlotTuples(0 .. 0 - 1)) = 0  BY <4>1, FS_EmptySet
      <4> QED BY <4>2 DEF Start
    <3>3. Start(0) = Base  BY <3>2, SizesAssumption DEF SizesAssumption
    <3>4. dir[-1].ptr = Base /\ s - 1 = -1  BY <1>1, <2>1 DEF TableInv
    <3> QED BY <2>1, <3>3, <3>4
  <2>2. CASE s # 0
    <3>1. s - 1 \in Nat /\ s - 1 < capacity /\ (s - 1) + 1 = s  BY <1>1, <1>6, <2>2
    <3>2. PICK q \in Partitions : s - 1 \in SlotsOf(q)  BY <1>1, <3>1, SlotOwner
    <3>3. dir[s - 1].ptr = Start((s - 1) + 1)  BY <1>7, <3>2
    <3> QED BY <3>1, <3>3
  <2> QED BY <2>1, <2>2
<1>10. FindRange(k) = IF CouldContain(k) THEN Start(s) .. Start(s + 1) - 1 ELSE {}
  BY <1>4, <1>8, <1>9 DEF FindRange
<1>11. bpc[p] = "done" /\ CellsExact(p) /\ BloomsCover(p) /\ SlotsExact(p) /\ Copying(p)
  BY <1>1 DEF BuildersDone, TableInv, Copying
<1>12. Filled(p, s) = Start(s) .. Start(s + 1) - 1  BY <1>8, <1>11 DEF Filled, FilledTo
<1>13. /\ \A a \in Filled(p, s) : storage[a - Base] \in SlotTuples({s}) \cap Walked(p)
       /\ \A a, b \in Filled(p, s) : storage[a - Base] = storage[b - Base] => a = b
       /\ \A r \in SlotTuples({s}) \cap Walked(p) : \E a \in Filled(p, s) : storage[a - Base] = r
  BY <1>5, <1>11 DEF CellsExact, SlotCells
<1>14. FindRange(k) \subseteq Filled(p, s) /\ (CouldContain(k) => FindRange(k) = Filled(p, s))
  BY <1>10, <1>12
<1>15. \A a \in Filled(p, s) : a - Base \in DOMAIN storage
  <2>1. DOMAIN storage = 0 .. Cardinality(Tuples) - 1  BY <1>1 DEF TableInv
  <2>2. Base \in Nat /\ Cardinality(Tuples) \in Nat
    BY SizesAssumption, TuplesFinite, FS_CardinalityType DEF SizesAssumption
  <2>3. \A a \in Start(s) .. Start(s + 1) - 1 : a - Base \in 0 .. Cardinality(Tuples) - 1
    BY <1>6, <2>2
  <2> QED BY <1>12, <2>1, <2>3
<1>16. \A r \in SlotTuples({s}) : r \in Rows  BY DEF SlotTuples, Tuples
<1>17. ASSUME NEW r \in Rows, column[r] = k
       PROVE  \E a \in FindRange(k) : storage[a - Base] = r
  <2>1. column[r] # Null /\ r \in Tuples  BY <1>17, KeysAssumption DEF KeysAssumption, Tuples
  <2>2. RowSlot(r) = s /\ RowPart(r) = p  BY <1>3, <1>4, <1>17 DEF RowSlot, RowPart
  <2>3. r \in SlotTuples({s})  BY <2>1, <2>2 DEF SlotTuples
  <2>4. r \in Walked(p)
    <3>1. at[p][1] = Nil  BY <1>11 DEF SlotsExact
    <3>2. Walked(p) = {x \in Tuples : RowPart(x) = p}  BY <1>1, <3>1, WalkEnd DEF Walked
    <3> QED BY <2>1, <2>2, <3>2
  <2>5. CouldContain(k)
    <3>1. Tag[Hash[column[r]]] \subseteq dir[s].bloom  BY <1>11, <2>1, <2>2 DEF BloomsCover
    <3> QED BY <1>4, <1>17, <3>1 DEF CouldContain
  <2> QED BY <1>13, <1>14, <2>3, <2>4, <2>5
<1>18. \A a \in FindRange(k) : a - Base \in DOMAIN storage /\ storage[a - Base] \in Rows
  BY <1>13, <1>14, <1>15, <1>16
<1>19. \A a, b \in FindRange(k) : storage[a - Base] = storage[b - Base] => a = b
  BY <1>13, <1>14
<1> QED BY <1>17, <1>18, <1>19

LEMMA FinishedLookups ==
  ASSUME IInv, ChainInv, TableInv, phase \in {"build", "built"}, BuildersDone
  PROVE  Lookups = [k \in Keys |-> [r \in Rows |-> IF column[r] = k THEN 1 ELSE 0]]
<1> DEFINE Found(k, r) == {a \in FindRange(k) : storage[a - Base] = r /\ column[r] = k}
<1>1. ~(\E k \in Keys : \E a \in FindRange(k) :
          a - Base \notin DOMAIN storage \/ storage[a - Base] = Uninit)
  BY FinishedRange, KeysAssumption DEF KeysAssumption
<1>2. Lookups = [k \in Keys |-> [r \in Rows |-> Cardinality(Found(k, r))]]
  BY <1>1 DEF Lookups
<1>3. ASSUME NEW k \in Keys, NEW r \in Rows
      PROVE  Cardinality(Found(k, r)) = IF column[r] = k THEN 1 ELSE 0
  <2>1. CASE column[r] = k
    <3>1. PICK a \in FindRange(k) : storage[a - Base] = r  BY <2>1, FinishedRange
    <3>2. Found(k, r) = {a}  BY <2>1, <3>1, FinishedRange
    <3> QED BY <2>1, <3>2, FS_Singleton
  <2>2. CASE column[r] # k
    <3>1. Found(k, r) = {}  BY <2>2
    <3> QED BY <2>2, <3>1, FS_EmptySet
  <2> QED BY <2>1, <2>2
<1> HIDE DEF Found
<1> QED BY <1>2, <1>3

(* The parallel build implements the abstract index: whatever the rows, the *)
(* keys, the hashes, the tags, the threads and their interleaving are, each *)
(* lookup of the finished table finds every row of its key once, and no     *)
(* other row.                                                               *)
THEOREM LookupsCorrect == Spec => ImplementsIndex
<1>1. Init => Index!Init
  BY DEF Init, Index!Init
<1>2. IInv /\ ChainInv /\ TableInv /\ [Next]_vars => [Index!Build]_(Index!vars)
  <2> SUFFICES ASSUME IInv, ChainInv, TableInv, [Next]_vars PROVE [Index!Build]_(Index!vars)
    OBVIOUS
  <2> DEFINE index == IF phase = "built" THEN Lookups ELSE Nil
  <2>1. column' = column
    <3>1. CASE Main
      BY <3>1 DEF Main, JoinCollectors, MergeWalk, MergeLink, MergeDone, AddCount, MakeTable, JoinBuilders
    <3>2. ASSUME NEW t \in Partitions, Collector(t) PROVE column' = column
      BY <3>2 DEF Collector, SkipNull, Consume
    <3>3. ASSUME NEW p \in Partitions, Builder(p) PROVE column' = column
      BY <3>3 DEF Builder, CountTuple, CountDone, PrefixSlot, PrefixDone, CopyTuple, CopyDone
    <3> QED BY <3>1, <3>2, <3>3 DEF Next, Done, vars
  <2>2. CASE UNCHANGED vars
    <3>1. UNCHANGED <<phase, column, capacity, dir, storage>>  BY <2>2 DEF vars, tableVars
    <3>2. index' = index  BY <3>1 DEF Lookups, FindRange, CouldContain, SlotOf
    <3> QED BY <2>1, <3>2 DEF Index!vars
  <2>3. CASE phase # "built" /\ phase' # "built"
    <3>1. index' = index  BY <2>3
    <3> QED BY <2>1, <3>1 DEF Index!vars
  <2>4. CASE JoinBuilders
    <3>1. /\ phase = "build" /\ phase' = "built" /\ BuildersDone
          /\ UNCHANGED <<column, capacity, dir, storage>>
      BY <2>4 DEF JoinBuilders, tableVars
    <3>2. Lookups' = Lookups
      BY <3>1 DEF Lookups, FindRange, CouldContain, SlotOf
    <3>3. index = Nil /\ index' = [k \in Keys |-> [r \in Rows |-> IF column[r] = k THEN 1 ELSE 0]]
      BY <3>1, <3>2, FinishedLookups
    <3> QED BY <2>1, <3>3 DEF Index!Build
  <2>5. CASE JoinCollectors \/ MergeWalk \/ MergeLink \/ MergeDone \/ AddCount \/ MakeTable
    BY <2>3, <2>5 DEF JoinCollectors, MergeWalk, MergeLink, MergeDone, AddCount, MakeTable
  <2>6. ASSUME NEW t \in Partitions, Collector(t) PROVE phase # "built" /\ phase' # "built"
    BY <2>6 DEF Collector, SkipNull, Consume
  <2>7. ASSUME NEW p \in Partitions, Builder(p) PROVE phase # "built" /\ phase' # "built"
    BY <2>7 DEF Builder, CountTuple, CountDone, PrefixSlot, PrefixDone, CopyTuple, CopyDone
  <2> QED BY <2>2, <2>3, <2>4, <2>5, <2>6, <2>7 DEF Next, Main, Done
<1> QED
  BY <1>1, <1>2, InitIInv, NextIInv, ChainInit, ChainNext, TableInit, TableNext, PTL
     DEF Spec, ImplementsIndex, Index!Spec

=============================================================================
