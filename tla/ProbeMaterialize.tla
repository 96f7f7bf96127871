--------------------------- MODULE ProbeMaterialize ---------------------------
(***************************************************************************)
(* JoinAlgorithm::probe_and_materialize: the probe side is cut into chunks *)
(* that worker threads claim from a shared counter; every worker collects  *)
(* its matches; the main thread sizes the output columns and gives each    *)
(* worker a range of output rows, which the workers then fill in parallel  *)
(* without locks.  A small probe side, or a single thread, appends to the  *)
(* output columns row by row instead.                                      *)
(*                                                                         *)
(* A value is named by the row of its side it was copied from.             *)
(***************************************************************************)
EXTENDS Sequences, FiniteSets, ThreadChoice

CONSTANTS
  BuildKey,        (* the key of every row in the hash table                      *)
  Entries,         (* Entries[k]: the rows find_range(k) returns, in their order  *)
  ProbeSize,       (* rows of the probe column                                    *)
  Keys, Null,      (* int32 keys, and the sentinel that stands for NULL           *)
  FromLeft,        (* output_attrs: TRUE for a column of the left child           *)
  ChunkRows,       (* PROBE_CHUNK_ROWS, 1984 in the code                          *)
  ValuesPerPage,   (* VALUES_PER_PAGE of an intermediate page, 1024 in the code   *)
  Blank            (* a value of a fresh page nobody wrote                        *)

BuildRows == DOMAIN BuildKey
Columns   == DOMAIN FromLeft
ProbeRows == 0 .. ProbeSize - 1
Values    == BuildRows \cup ProbeRows

SizesAssumption ==
  /\ ProbeSize \in Nat
  /\ ChunkRows \in Nat \ {0} /\ ValuesPerPage \in Nat \ {0}
  /\ FromLeft \in [Columns -> BOOLEAN] /\ Blank \notin Values
  /\ Columns # {}   \* the parent joins on one of them
ASSUME SizesAssumption

(* The table is complete: the range of a key has every row with the key,   *)
(* once.  It may have rows of other keys that share the slot.              *)
EntriesAssumption ==
  /\ BuildKey \in [BuildRows -> Keys] /\ Null \notin Keys
  /\ \A k \in Keys :
       /\ Entries[k] \in Seq(BuildRows)
       /\ \A i, j \in DOMAIN Entries[k] : Entries[k][i] = Entries[k][j] => i = j
       /\ \A r \in BuildRows : BuildKey[r] = k => \E i \in DOMAIN Entries[k] : Entries[k][i] = r
ASSUME EntriesAssumption

VARIABLES
  probeColumn,   (* the probe column                                            *)
  buildLeft,     (* the BuildLeft template argument                             *)
  numThreads,    (* probe_threads                                               *)
  phase,         (* where the calling thread is                                 *)
  seqRow,        (* probe row of the sequential loop                            *)
  nextPage,      (* the atomic next_page                                        *)
  todo,          (* todo[t]: <<next row, end>> of the chunk t works on          *)
  probing,       (* the probe workers that have not left their loop             *)
  matches,       (* local_matches[t]: pairs <<left row, right row>>             *)
  offsets,       (* offsets[t]: first output row of t                           *)
  written,       (* written[t]: matches t has materialized                      *)
  out            (* out[c]: an output column, its pages and num_values          *)

inputVars == <<probeColumn, buildLeft, numThreads>>
vars == <<inputVars, phase, seqRow, nextPage, todo, probing, matches, offsets, written, out>>

Threads == 0 .. numThreads - 1

(* The numbers of threads run() may choose. *)
ThreadCounts == {InnerThreads(s, Cardinality(BuildRows)) : s \in Settings}

-----------------------------------------------------------------------------
(* The matches of one probe row, in the order of find_range: entries of    *)
(* other keys are skipped, and a NULL key is not looked up.                *)
SameKey(e, k) == BuildKey[e] = k

(* left_idx and right_idx of a pair. *)
PairBuildFirst(e, p) == <<e, p>>   \* mutant: BuildLeft is ignored
Pair(e, p) == IF buildLeft THEN <<e, p>> ELSE <<p, e>>

RowMatches(p) ==
  LET k == probeColumn[p]
      found[i \in 0 .. Len(Entries[k])] ==   \* the matches among the first i entries
        IF i = 0 THEN <<>>
        ELSE IF SameKey(Entries[k][i], k) THEN Append(found[i - 1], Pair(Entries[k][i], p))
        ELSE found[i - 1]
  IN  IF k = Null THEN <<>> ELSE found[Len(Entries[k])]

(* The value column c takes from a pair. *)
Pick(c, pair) == IF FromLeft[c] THEN pair[1] ELSE pair[2]

BlankPage == [o \in 0 .. ValuesPerPage - 1 |-> Blank]
EmptyColumn == [pages |-> <<>>, num |-> 0]
ColumnAt(col, i) == col.pages[i \div ValuesPerPage + 1][i % ValuesPerPage]

(* write_at: pages[i / VALUES_PER_PAGE]->data[i % VALUES_PER_PAGE] = v. *)
WriteAt(col, i, v) ==
  [col EXCEPT !.pages[i \div ValuesPerPage + 1][i % ValuesPerPage] = v]

(* column_t::push_back: a page is added when the last one is full. *)
HasRoom(col) == col.num < Len(col.pages) * ValuesPerPage
PushBack(col, v) ==
  LET grown == IF HasRoom(col) THEN col ELSE [col EXCEPT !.pages = Append(@, BlankPage)]
  IN  [WriteAt(grown, col.num, v) EXCEPT !.num = @ + 1]

-----------------------------------------------------------------------------
UseWorkers == numThreads > 1 /\ ProbeSize >= ChunkRows

Init ==
  /\ probeColumn \in [ProbeRows -> Keys \cup {Null}]
  /\ buildLeft \in BOOLEAN
  /\ numThreads \in ThreadCounts
  /\ phase = IF UseWorkers THEN "probe" ELSE "sequential"
  /\ seqRow = 0
  /\ nextPage = 0
  /\ todo = [t \in Threads |-> <<0, 0>>]
  /\ probing = IF UseWorkers THEN Threads ELSE {}
  /\ matches = [t \in Threads |-> <<>>]
  /\ offsets = [t \in Threads |-> 0]
  /\ written = [t \in Threads |-> 0]
  /\ out = [c \in Columns |-> EmptyColumn]

(* The sequential loop: one probe row, each of its matches through         *)
(* emit_row, which appends a value to every output column.                 *)
AppendAll(col, c, pairs) ==
  LET after[i \in 0 .. Len(pairs)] ==
        IF i = 0 THEN col ELSE PushBack(after[i - 1], Pick(c, pairs[i]))
  IN  after[Len(pairs)]
ProbeSequentially ==
  /\ phase = "sequential" /\ seqRow < ProbeSize
  /\ out' = [c \in Columns |-> AppendAll(out[c], c, RowMatches(seqRow))]
  /\ seqRow' = seqRow + 1
  /\ UNCHANGED <<inputVars, phase, nextPage, todo, probing, matches, offsets, written>>

SequentialDone ==
  /\ phase = "sequential" /\ seqRow = ProbeSize
  /\ phase' = "joined"
  /\ UNCHANGED <<inputVars, seqRow, nextPage, todo, probing, matches, offsets, written, out>>

-----------------------------------------------------------------------------
ProbePages == (ProbeSize + ChunkRows - 1) \div ChunkRows
ChunkEnd(page) == IF (page + 1) * ChunkRows < ProbeSize
                  THEN (page + 1) * ChunkRows ELSE ProbeSize

(* next_page.fetch_add(1): worker t claims a chunk, or leaves its loop.    *)
ClaimNotAdvanced(page) == page   \* mutant: the counter is read, not advanced
Claimed(page) == page + 1
ClaimChunk(t) ==
  /\ phase = "probe" /\ t \in probing /\ todo[t][1] = todo[t][2]
  /\ nextPage' = Claimed(nextPage)
  /\ IF nextPage < ProbePages
     THEN /\ todo' = [todo EXCEPT ![t] = <<nextPage * ChunkRows, ChunkEnd(nextPage)>>]
          /\ UNCHANGED probing
     ELSE /\ probing' = probing \ {t}
          /\ UNCHANGED todo
  /\ UNCHANGED <<inputVars, phase, seqRow, matches, offsets, written, out>>

(* Worker t probes the next row of its chunk. *)
AfterRowStuck(p) == IF probeColumn[p] = Null THEN p ELSE p + 1   \* mutant: NULL is not passed
AfterRow(p) == p + 1
ProbeRow(t) ==
  /\ phase = "probe" /\ todo[t][1] < todo[t][2]
  /\ matches' = [matches EXCEPT ![t] = @ \o RowMatches(todo[t][1])]
  /\ todo' = [todo EXCEPT ![t][1] = AfterRow(@)]
  /\ UNCHANGED <<inputVars, phase, seqRow, nextPage, probing, offsets, written, out>>

-----------------------------------------------------------------------------
OffsetsInclusive ==   \* mutant: a worker's offset counts its own matches
  LET off[t \in Threads] == IF t = 0 THEN Len(matches[0]) ELSE off[t - 1] + Len(matches[t])
  IN  off
Offsets ==
  LET off[t \in Threads] == IF t = 0 THEN 0 ELSE off[t - 1] + Len(matches[t - 1])
  IN  off
TotalRows == Offsets[numThreads - 1] + Len(matches[numThreads - 1])

NeededPagesFloor == TotalRows \div ValuesPerPage   \* mutant: no page for the last rows
NeededPages == (TotalRows + ValuesPerPage - 1) \div ValuesPerPage

(* join() of the probe workers; output ranges; pages are allocated and the *)
(* columns get their final size before any value is written.               *)
AllProbed == probing = {}
Allocate ==
  /\ phase = "probe" /\ AllProbed
  /\ offsets' = Offsets
  /\ out' = [c \in Columns |->
               [pages |-> [i \in 1 .. NeededPages |-> BlankPage], num |-> TotalRows]]
  /\ phase' = "materialize"
  /\ UNCHANGED <<inputVars, seqRow, nextPage, todo, probing, matches, written>>

(* Worker t writes its next match into every output column. *)
OutRow(t) == offsets[t] + written[t]
Materialize(t) ==
  /\ phase = "materialize" /\ written[t] < Len(matches[t])
  /\ out' = [c \in Columns |->
               WriteAt(out[c], OutRow(t), Pick(c, matches[t][written[t] + 1]))]
  /\ written' = [written EXCEPT ![t] = @ + 1]
  /\ UNCHANGED <<inputVars, phase, seqRow, nextPage, todo, probing, matches, offsets>>

(* join() of the materializing workers. *)
MaterializeDone ==
  /\ phase = "materialize"
  /\ \A t \in Threads : written[t] = Len(matches[t])
  /\ phase' = "joined"
  /\ UNCHANGED <<inputVars, seqRow, nextPage, todo, probing, matches, offsets, written, out>>

-----------------------------------------------------------------------------
Worker(t) == ClaimChunk(t) \/ ProbeRow(t) \/ Materialize(t)
Caller    == ProbeSequentially \/ SequentialDone \/ Allocate \/ MaterializeDone
Done      == phase = "joined" /\ UNCHANGED vars

Next == Caller \/ (\E t \in Threads : Worker(t)) \/ Done
Spec == Init /\ [][Next]_vars

(* Every std::thread is scheduled; no step of any of them can block. *)
FairSpec ==
  /\ Spec /\ WF_vars(Caller)
  /\ \A t \in UNION {0 .. n - 1 : n \in ThreadCounts} : WF_vars(t \in Threads /\ Worker(t))

-----------------------------------------------------------------------------
(* Every variable has the shape probe_and_materialize gives it; the output  *)
(* columns have pages for the values they say they hold, and no page more.  *)
TypeOK ==
  /\ phase \in {"sequential", "probe", "materialize", "joined"}
  /\ seqRow \in 0 .. ProbeSize
  /\ nextPage \in 0 .. ProbePages + numThreads
  /\ \A t \in Threads :
       /\ todo[t][1] \in 0 .. ProbeSize /\ todo[t][2] \in todo[t][1] .. ProbeSize
       /\ \A i \in 1 .. Len(matches[t]) : matches[t][i] \in Values \X Values
       /\ written[t] \in 0 .. Len(matches[t])
  /\ probing \subseteq Threads
  /\ \A c \in Columns :
       /\ Len(out[c].pages) = (out[c].num + ValuesPerPage - 1) \div ValuesPerPage
       /\ \A i \in 1 .. Len(out[c].pages) :
            out[c].pages[i] \in [0 .. ValuesPerPage - 1 -> Values \cup {Blank}]

(* The workers write output pages without a lock: what a worker writes next *)
(* is a value of an allocated page that nobody wrote, and no two workers    *)
(* are about to write the same one.                                         *)
WritesDisjoint ==
  phase = "materialize" =>
    \A t \in Threads : written[t] < Len(matches[t]) =>
      /\ \A c \in Columns :
           OutRow(t) < out[c].num /\ ColumnAt(out[c], OutRow(t)) = Blank
      /\ \A u \in Threads \ {t} : written[u] < Len(matches[u]) => OutRow(t) # OutRow(u)

(* While the probe runs, every probe row is unclaimed, still to do in one   *)
(* worker's chunk, or done: the matches collected so far are exactly those  *)
(* of the rows done, so no chunk is lost or taken twice however the claims  *)
(* interleave.                                                              *)
RowsToDo == {p \in ProbeRows : p >= nextPage * ChunkRows
                               \/ \E t \in Threads : p >= todo[t][1] /\ p < todo[t][2]}
Expected == {e \in BuildRows \X ProbeRows :
               BuildKey[e[1]] = probeColumn[e[2]] /\ e[2] \notin RowsToDo}
ClaimsExact ==
  phase = "probe" =>
    /\ \A t \in Threads : \A i \in 1 .. Len(matches[t]) :
         /\ \E e \in Expected : matches[t][i] = Pair(e[1], e[2])
         /\ \A u \in Threads : \A j \in 1 .. Len(matches[u]) :
              matches[t][i] = matches[u][j] => t = u /\ i = j
    /\ \A e \in Expected : \E t \in Threads : \E i \in 1 .. Len(matches[t]) :
         matches[t][i] = Pair(e[1], e[2])

(* The result rows: for every index below num_values, the values of all     *)
(* columns at that index.                                                   *)
ResultRows ==
  LET num == CHOOSE n \in {out[c].num : c \in Columns} : TRUE
      at == [i \in 0 .. num - 1 |-> [c \in Columns |-> ColumnAt(out[c], i)]]
  IN  IF \E c \in Columns : out[c].num # num
      THEN Blank
      ELSE [v \in [Columns -> Values] |-> Cardinality({i \in 0 .. num - 1 : at[i] = v})]

Join == INSTANCE HashJoin WITH
          Cell <- [c \in Columns |-> [r \in Values |-> r]],
          NotJoined <- Null, result <- IF phase = "joined" THEN ResultRows ELSE Null

(* The columns that probe_and_materialize fills are the result of the join: *)
(* every matching pair once, its values aligned across the columns.         *)
ImplementsJoin == Join!Spec

(* Every join ends: each chunk is taken and each worker leaves its loop.    *)
EventuallyJoined == <>(phase = "joined")

-----------------------------------------------------------------------------
(* What the program keeps true, of which the invariants above follow.      *)
(* An output column: it has the pages its values need.                     *)
PagesFor(n) == (n + ValuesPerPage - 1) \div ValuesPerPage
PageType    == [0 .. ValuesPerPage - 1 -> Values \cup {Blank}]
ColumnType  == {col \in [pages : Seq(PageType), num : Nat] : Len(col.pages) = PagesFor(col.num)}

Shapes ==
  /\ probeColumn \in [ProbeRows -> Keys \cup {Null}]
  /\ buildLeft \in BOOLEAN /\ numThreads \in Nat \ {0}
  /\ phase \in {"sequential", "probe", "materialize", "joined"}
  /\ seqRow \in 0 .. ProbeSize /\ nextPage \in Nat
  /\ todo \in [Threads -> (0 .. ProbeSize) \X (0 .. ProbeSize)]
  /\ probing \subseteq Threads
  /\ matches \in [Threads -> Seq(Values \X Values)]
  /\ offsets \in [Threads -> Nat] /\ written \in [Threads -> Nat]
  /\ \A t \in Threads : todo[t][1] <= todo[t][2] /\ written[t] <= Len(matches[t])
  /\ out \in [Columns -> ColumnType]

(* Each phase belongs to one of the two paths.                             *)
PathTaken ==
  /\ phase = "sequential" => ~UseWorkers
  /\ phase \in {"probe", "materialize"} => UseWorkers
  /\ phase # "probe" => probing = {}
  /\ phase \in {"sequential", "probe"} => \A t \in Threads : written[t] = 0
  /\ phase = "joined" => IF UseWorkers THEN \A t \in Threads : written[t] = Len(matches[t])
                         ELSE seqRow = ProbeSize

(* Chunks in work lie below the counter and share no row; a worker that     *)
(* left its loop has no chunk, and left none; the counter passes the last   *)
(* chunk once per worker at most.                                           *)
InChunk(t, p) == todo[t][1] <= p /\ p < todo[t][2]
ChunksApart ==
  /\ \A t \in Threads : todo[t][1] < todo[t][2] => todo[t][2] <= nextPage * ChunkRows
  /\ \A t, u \in Threads : t # u => \A p \in ProbeRows : ~(InChunk(t, p) /\ InChunk(u, p))
  /\ UseWorkers => \A t \in Threads \ probing :
                     todo[t][1] = todo[t][2] /\ ProbePages <= nextPage
  /\ nextPage + Cardinality(probing) <= ProbePages + numThreads

(* The workers have the matches of the rows done.                          *)
MatchesExact ==
  UseWorkers =>
    /\ \A t \in Threads : \A i \in 1 .. Len(matches[t]) :
         \E e \in Expected : matches[t][i] = Pair(e[1], e[2])
    /\ \A t, u \in Threads : \A i \in 1 .. Len(matches[t]), j \in 1 .. Len(matches[u]) :
         matches[t][i] = matches[u][j] => t = u /\ i = j
    /\ \A e \in Expected : \E t \in Threads : \E i \in 1 .. Len(matches[t]) :
         matches[t][i] = Pair(e[1], e[2])

(* A column has a row for every match of every worker, at its offset; those *)
(* materialized hold their value and the others are blank.                  *)
CellsExact ==
  UseWorkers /\ phase \in {"materialize", "joined"} =>
    /\ offsets = Offsets
    /\ \A c \in Columns :
         /\ out[c].num = TotalRows
         /\ \A t \in Threads : \A i \in 1 .. Len(matches[t]) :
              ColumnAt(out[c], offsets[t] + i - 1) =
                IF i <= written[t] THEN Pick(c, matches[t][i]) ELSE Blank

(* The sequential path has appended, in some order, the matches of the rows *)
(* it has passed.                                                           *)
Joined(rows) == {e \in BuildRows \X rows : BuildKey[e[1]] = probeColumn[e[2]]}
Lists(s, E) ==
  /\ \A i \in 1 .. Len(s) : \E e \in E : s[i] = Pair(e[1], e[2])
  /\ \A i, j \in 1 .. Len(s) : s[i] = s[j] => i = j
  /\ \A e \in E : \E i \in 1 .. Len(s) : s[i] = Pair(e[1], e[2])
Shows(col, c, s) ==
  /\ col.num = Len(s)
  /\ \A i \in 1 .. Len(s) : ColumnAt(col, i - 1) = Pick(c, s[i])
RowsAppended ==
  ~UseWorkers =>
    \E s \in Seq(Values \X Values) :
      Lists(s, Joined(0 .. seqRow - 1)) /\ \A c \in Columns : Shows(out[c], c, s)

JoinInv == Shapes /\ PathTaken /\ ChunksApart /\ MatchesExact /\ CellsExact /\ RowsAppended
=============================================================================
