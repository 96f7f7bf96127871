------------------------------- MODULE RootJoin -------------------------------
(***************************************************************************)
(* The probe of the root join (JoinAlgorithmColumnar::run): workers claim  *)
(* chunks of the probe side from a shared counter and write their matches  *)
(* into tables of their own, page by page; the calling thread then joins   *)
(* the tables by moving their pages.  With few probe rows, or one thread,  *)
(* the calling thread probes every row and writes the result's own         *)
(* buffers: it is worker 0 here, with all rows for its chunk.              *)
(*                                                                         *)
(* A dense column is read through a thread-local value that the next read  *)
(* of a dense column overwrites.                                           *)
(***************************************************************************)
EXTENDS PageFormat, ThreadChoice

CONSTANTS
  BuildKey,      (* the key of every row in the hash table                      *)
  Entries,       (* Entries[k]: the rows find_range(k) returns, in their order  *)
  ProbeSize,     (* rows of the probe column                                    *)
  Keys,          (* int32 keys; Null is the sentinel                            *)
  FromLeft,      (* output_attrs: TRUE for a column of the left child           *)
  Cell,          (* Cell[c][r]: the value of row r in the source of column c    *)
  DenseOut,      (* the output columns whose source is dense                    *)
  ChunkRows,     (* PROBE_CHUNK_ROWS, 1984 in the code                          *)
  Other          (* the value of a dense output column, as a key                *)

BuildRows == DOMAIN BuildKey
Columns   == DOMAIN FromLeft
ProbeRows == 0 .. ProbeSize - 1
ResultCells == UNION {{Cell[c][r] : r \in BuildRows \cup ProbeRows} : c \in Columns}

RootAssumption ==
  /\ ProbeSize \in Nat /\ ChunkRows \in Nat \ {0}
  /\ FromLeft \in [Columns -> BOOLEAN] /\ Columns # {}
  /\ DenseOut \subseteq Columns
  /\ \A c \in DenseOut : \A r \in BuildRows \cup ProbeRows : Cell[c][r] # Null
  /\ \A c \in Columns : BuildRows \cup ProbeRows \subseteq DOMAIN Cell[c]
  /\ BuildKey \in [BuildRows -> Keys] /\ Null \notin Keys /\ Other \notin Keys
  /\ Broken \notin (ResultCells \cup {Null}) \X Int
ASSUME RootAssumption

(* The table is complete: the range of a key has every row with the key,   *)
(* once.  It may have rows of other keys that share the slot.              *)
EntriesAssumption ==
  \A k \in Keys :
    /\ Entries[k] \in Seq(BuildRows)
    /\ \A i, j \in DOMAIN Entries[k] :
         Entries[k][i] = Entries[k][j] /\ BuildKey[Entries[k][i]] = k => i = j
    /\ \A r \in BuildRows : BuildKey[r] = k => \E i \in DOMAIN Entries[k] : Entries[k][i] = r
ASSUME EntriesAssumption

VARIABLES
  denseKey,      (* the probe column is dense                                 *)
  probeColumn,   (* the probe column                                          *)
  buildLeft,     (* the table was built on the left child                     *)
  numThreads,    (* probe_threads                                             *)
  phase,         (* probe, merge, finished                                    *)
  nextStart,     (* the atomic next_start                                     *)
  todo,          (* todo[t]: <<next row, end>> of t's chunk                   *)
  probing,       (* workers that have not left their loop                     *)
  keyValue,      (* keyValue[t]: the key t copied for its row                 *)
  entry,         (* entry[t]: next entry for that key; 0 before it is read    *)
  cache,         (* cache[t]: the thread-local value of dense columns         *)
  writers,       (* writers[t][c]: pages and buffer of column c               *)
  numRows,       (* numRows[t]: table.num_rows of t's writer                  *)
  merging,       (* next worker whose table is joined to the result           *)
  results        (* results.columns[c].pages, and results.num_rows            *)

inputVars == <<denseKey, probeColumn, buildLeft, numThreads>>
claimVars == <<nextStart, probing>>
probeVars == <<todo, keyValue, entry, cache, writers, numRows>>
mergeVars == <<merging, results>>
vars == <<inputVars, phase, claimVars, probeVars, mergeVars>>

Threads == 0 .. numThreads - 1
UseWorkers == numThreads > 1 /\ ProbeSize >= ChunkRows

Init ==
  /\ denseKey \in BOOLEAN
  /\ probeColumn \in [ProbeRows -> IF denseKey THEN Keys ELSE Keys \cup {Null}]   \* dense: no NULL
  /\ buildLeft \in BOOLEAN
  /\ numThreads \in {RootThreads(s) : s \in Settings}
  /\ phase = "probe"
  /\ nextStart = 0
  /\ todo = [t \in Threads |-> <<0, IF UseWorkers THEN 0 ELSE IF t = 0 THEN ProbeSize ELSE 0>>]
  /\ probing = IF UseWorkers THEN Threads ELSE {0}
  /\ keyValue = [t \in Threads |-> Null]
  /\ entry = [t \in Threads |-> 0]
  /\ cache = [t \in Threads |-> Other]
  /\ writers = [t \in Threads |-> [c \in Columns |-> NewWriter]]
  /\ numRows = [t \in Threads |-> 0]
  /\ merging = 0
  /\ results = [pages |-> [c \in Columns |-> <<>>], numRows |-> 0]

-----------------------------------------------------------------------------
(* next_start.fetch_add(PROBE_CHUNK_ROWS): a chunk, or the end of the loop. *)
ChunkEndFull(start) == start + ChunkRows   \* mutant: the last chunk is not cut
ChunkEnd(start) == IF start + ChunkRows < ProbeSize THEN start + ChunkRows ELSE ProbeSize
ClaimChunk(t) ==
  /\ phase = "probe" /\ UseWorkers
  /\ t \in probing /\ todo[t][1] = todo[t][2]
  /\ nextStart' = nextStart + ChunkRows
  /\ IF nextStart < ProbeSize
     THEN /\ todo' = [todo EXCEPT ![t] = <<nextStart, ChunkEnd(nextStart)>>]
          /\ UNCHANGED probing
     ELSE /\ probing' = probing \ {t}
          /\ UNCHANGED todo
  /\ UNCHANGED <<inputVars, phase, keyValue, entry, cache, writers, numRows, mergeVars>>

(* The end of the loop that probes every row. *)
LastRow ==
  /\ phase = "probe" /\ ~UseWorkers
  /\ probing = {0} /\ todo[0][1] = todo[0][2]
  /\ probing' = {}
  /\ UNCHANGED <<inputVars, phase, nextStart, probeVars, mergeVars>>

NextRow(t) == todo' = [todo EXCEPT ![t][1] = @ + 1]

(* Read the key of the next row, copy it, look it up: a NULL key, or one    *)
(* without entries, is passed.                                              *)
ReadKey(t) ==
  /\ phase = "probe" /\ todo[t][1] < todo[t][2] /\ entry[t] = 0
  /\ LET k == probeColumn[todo[t][1]]
     IN  /\ cache' = IF denseKey THEN [cache EXCEPT ![t] = k] ELSE cache
         /\ keyValue' = [keyValue EXCEPT ![t] = k]
         /\ IF k = Null THEN NextRow(t) /\ UNCHANGED entry
            ELSE IF Entries[k] = <<>> THEN NextRow(t) /\ UNCHANGED entry
            ELSE entry' = [entry EXCEPT ![t] = 1] /\ UNCHANGED todo
  /\ UNCHANGED <<inputVars, phase, claimVars, writers, numRows, mergeVars>>

(* The next entry of the range: when it has the key, insert_value for every *)
(* output column, which reads dense ones through the thread-local value.    *)
KeyByReference(t) == IF denseKey THEN cache[t] ELSE keyValue[t]   \* mutant: key is not copied
ProbedKey(t) == keyValue[t]
SourceRow(c, e, p) == IF FromLeft[c] = buildLeft THEN e ELSE p
ProbeEntry(t) ==
  /\ phase = "probe" /\ entry[t] # 0
  /\ LET found == Entries[keyValue[t]]
         e == found[entry[t]]
         p == todo[t][1]
     IN  /\ IF BuildKey[e] = ProbedKey(t)
            THEN /\ writers' = [writers EXCEPT ![t] =
                      [c \in Columns |-> InsertValue(@[c], Cell[c][SourceRow(c, e, p)])]]
                 /\ numRows' = [numRows EXCEPT ![t] = @ + 1]
                 /\ cache' = IF DenseOut = {} THEN cache ELSE [cache EXCEPT ![t] = Other]
            ELSE UNCHANGED <<writers, numRows, cache>>
         /\ IF entry[t] < Len(found)
            THEN entry' = [entry EXCEPT ![t] = @ + 1] /\ UNCHANGED todo
            ELSE entry' = [entry EXCEPT ![t] = 0] /\ NextRow(t)
  /\ UNCHANGED <<inputVars, phase, claimVars, keyValue, mergeVars>>

-----------------------------------------------------------------------------
(* join() of the workers. *)
JoinWorkers ==
  /\ phase = "probe" /\ probing = {}
  /\ phase' = "merge"
  /\ UNCHANGED <<inputVars, claimVars, probeVars, mergeVars>>

(* Flush the buffers of the next worker and append its pages to the result. *)
(* (The result's own buffers are flushed the same way at the end of run.)   *)
WriterPages(w) == Finalize(w).pages
MergeWriter ==
  /\ phase = "merge" /\ merging < numThreads
  /\ results' = [pages |-> [c \in Columns |-> results.pages[c] \o WriterPages(writers[merging][c])],
                 numRows |-> results.numRows + numRows[merging]]
  /\ merging' = merging + 1
  /\ UNCHANGED <<inputVars, phase, claimVars, probeVars>>

MergeDone ==
  /\ phase = "merge" /\ merging = numThreads
  /\ phase' = "finished"
  /\ UNCHANGED <<inputVars, claimVars, probeVars, mergeVars>>

Finished == phase = "finished" /\ UNCHANGED vars

Worker(t) == ClaimChunk(t) \/ ReadKey(t) \/ ProbeEntry(t)
Caller    == LastRow \/ JoinWorkers \/ MergeWriter \/ MergeDone

Next == Caller \/ (\E t \in Threads : Worker(t)) \/ Finished
Spec == Init /\ [][Next]_vars

-----------------------------------------------------------------------------
(* Every variable has its shape; a chunk ends with the probe side at most.  *)
TypeOK ==
  /\ phase \in {"probe", "merge", "finished"}
  /\ probing \subseteq Threads
  /\ \A t \in Threads :
       /\ todo[t][1] \in 0 .. ProbeSize /\ todo[t][2] \in todo[t][1] .. ProbeSize
       /\ keyValue[t] \in Keys \cup {Null}
       /\ cache[t] \in Keys \cup {Null, Other}
       /\ entry[t] # 0 => entry[t] \in 1 .. Len(Entries[keyValue[t]])
       /\ numRows[t] \in Nat
  /\ merging \in 0 .. numThreads

(* The columns of a worker's table have pages of different lengths, long    *)
(* strings have pages of their own, and yet at every moment they spell the  *)
(* same rows: as many as counted, each the values of one matching pair.     *)
Matches == {m \in BuildRows \X ProbeRows : BuildKey[m[1]] = probeColumn[m[2]]}
RowsAligned ==
  \A t \in Threads :
    LET read == [c \in Columns |-> ReadColumn(WriterPages(writers[t][c]))]
    IN  /\ \A c \in Columns : Len(read[c]) = numRows[t]
        /\ \A n \in 1 .. numRows[t] : \E m \in Matches :
             \A c \in Columns : read[c][n] = Cell[c][SourceRow(c, m[1], m[2])]

(* The rows a reader of the finished pages sees, each with its number of    *)
(* occurrences.                                                             *)
ResultRows ==
  LET read == [c \in Columns |-> ReadColumn(results.pages[c])]
  IN  IF \E c \in Columns : Len(read[c]) # results.numRows
      THEN Broken
      ELSE [v \in [Columns -> ResultCells] |->
              Cardinality({n \in 1 .. results.numRows : \A c \in Columns : read[c][n] = v[c]})]

Join == INSTANCE HashJoin WITH
          NotJoined <- Other, result <- IF phase = "finished" THEN ResultRows ELSE Other

(* The pages of the root join are the result of the join: every matching    *)
(* pair once, its values in one row across the columns, wherever the pages  *)
(* of the workers end, and whatever a worker's thread-local value held.     *)
ImplementsJoin == Join!Spec
=============================================================================
