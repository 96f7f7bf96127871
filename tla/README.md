# A TLA+ model of the SIGMOD 2025 join pipeline

This directory specifies, model-checks and proves properties of the program in
`src/`: a main-memory engine that executes a plan of hash joins over columnar
tables. `PROJECT.json` lists the components, the TLC runs, the mutants every
property is tested against, the source lines every definition models, the
hazards of the code and the proved theorems.

## 1. The system

| Part | Source | State it keeps | Operations | What makes it correct |
|---|---|---|---|---|
| Join executor | `src/execute.cpp` | tables of one join, output columns, atomic chunk counter, per-worker matches | scan, build (sequential or threaded), probe (sequential or stealing), materialise, recursion over the plan | every matching pair once, its values aligned across columns; ends |
| Threaded hash table | `include/threaded_table.h`, `src/threaded_table.cpp` | collectors with chains of blocks per partition, counts, one directory and one storage array | `consume`, `merge_partitions`, `postProcessBuild`, `find_range` | no row lost or doubled by the merge; builders never meet in directory or storage; finished table is a complete index |
| Unchained hash table | `include/unchained_table.h` | `temp_entries`, directory, storage | `reserve`, `insert`, `finalize`, `find_range` | finished table is a complete index |
| Root join | `include/execute_root.h` | like the executor, and page buffers per column and per worker | the same, writing 8 KB pages directly; merge of the workers' pages | the pages of all columns spell the join, row by row; pages never overflow |
| Late-materialised columns | `include/column_t.h`, `include/value_t.h` | pages, or a reference to a dense input column and one thread-local value | `push_back`, `operator[]`, `reference_column` | reads give the value of the row; references die with their reader |
| Copy-scan | `include/mycopyscan.h` | - | `copy_scan_value_t` | the dense check licenses the reference arithmetic; references to texts lead to their text |
| Columnar writers and readers | `include/mytocolumnar.h`, `src/build_table.cpp`, `include/plan.h` | page buffers, bitmaps, mapped files | `to_columnar`, `from_columnar`, `copy_scan`, `ColumnInserter`, `MappedMemory` | reading gives back what was written |
| Filter thread pool | `include/inner_column.h` | workers; per worker a mutex, a condition variable and flags; unprotected `function`, `num_tasks` | constructor, `run`, `run_loop`, destructor | each task once per call; unprotected members are never written while read; no lost wakeup |
| Filters | `src/statement.cpp`, `include/statement.h`, `include/inner_column.h` | bitmaps | comparisons, AND, OR, NOT, LIKE | vectorised evaluation agrees with evaluating a record |
| CSV parser and table cache | `src/csv_parser.cpp`, `src/build_table.cpp` | quoting state, position; `table_cache`, `result_cache` | `execute`, `finish`, `from_csv` | fields do not depend on the chunking of the input; the scan returns the rows the filter wants |
| Hash-table variants | `include/robinhood.h`, `cuckoo.h`, `hopscotch.h` | slot arrays, distances, bitmaps, number of entries | `insert`, `find_values`, `rehash` | every row in one entry, where lookups look for it; insertions end |
| Archived executors | `archives/execute_*.cpp` | rows | the recursion over a plan, a join of rows over one of four indexes | the answer is the query's |
| Driver | `archives/read_sql_moreinfo.cpp`, `tests/read_sql.cpp` | filters per entity, union-find of columns, join graph, nodes of the plan | `parse_expr`, `parse_sql`, `load_join_pipeline` | the plan means the query |
| Database builder | `tests/build_database.cpp` | files | copies the contest data | out of scope |

How they interact: the driver turns a query and the optimizer's tree into a plan. `execute` recurses over the plan. A scan hands columns to
its join by copy (`column_t` pages) or by reference (dense integer columns). A
join builds a table on its smaller side, with `UnchainedHashTable` below
`SPC_THREADED_MIN_BUILD` rows and `FinalTable` above, and probes it with the
other side. Inner joins produce `column_t`, the root join produces pages. Threads
are created and joined inside every phase of a join; between phases only the
calling thread runs. The pool `filter_tp` is the one set of threads that lives
longer; it serves filters, the copy-scan and the conversions.

What is hard here: phases in which threads share arrays without locks because
index arithmetic keeps them apart; an atomic counter that hands out chunks;
results whose row order depends on scheduling, which all columns must share;
a condition-variable protocol around unprotected members; data structures that
reuse one array for counts, start addresses and end addresses; page-full tests
at byte boundaries. Nothing is persisted, so there is no crash recovery; there
are no messages and no timeouts. `PROJECT.json`, "hazards", lists these at their lines.

## 2. Modules

Abstract specifications:

* **JoinIndex**: an index on a column. Nothing can be looked up until one step
  builds it; afterwards a lookup finds each row with the key once.
* **HashJoin**: the join. One step yields the bag of result rows, one per
  matching pair, each value from the row of its side.
* **ParallelFor**: a call applies a function to each task once before it returns.
* **QueryAnswer**: the answer of a query. One step yields the bag of the rows that
  SQL defines from the tables of FROM, WHERE and the select list.

Detailed specifications. Joins:

* **ThreadedTable** (`JoinAlgorithm::run` 255-331 with `threaded_table.h`).
  Phases `collect`, `merge`, `offsets`, `build`, `built` of the calling thread.
  In `collect`, one `SkipNull`/`Consume` step per row and collector. A block is
  named by the row that opened it and linked through `next`; `merge` walks and
  links the chains one pointer at a time. In `build`, each builder's first
  walk (`CountTuple`), prefix sum (`PrefixSlot`) and second walk (`CopyTuple`)
  are steps of one tuple or one slot, in all interleavings, on one `dir` and
  one `storage`. A directory entry is its pointer part and its bloom part; the
  prefix sum overwrites only the pointer. Storage starts as `Uninit`.
  Abstracted: bytes of a block (`TuplesPerBlock`), the hash and the tag tables
  (arbitrary functions `Hash`, `Tag`), 64-bit addresses (numbers from `Base`).
* **ThreadChoice** (operators only; `JoinAlgorithm::run` 181-240 and the same of
  the root): the number of threads and the kind of table from `SPC__THREAD_COUNT`,
  `SPC_FORCE_THREADS` and `SPC_THREADED_MIN_BUILD`. ProbeMaterialize and RootJoin
  start with the threads it yields; ThreadedTable's assumption of a power of
  two is its `RoundUp`.
* **UnchainedTable** (`unchained_table.h`, `JoinAlgorithm::run` 214-228): the
  loop of inserts and the three passes of `finalize`, one step per iteration.
* **ProbeMaterialize** (`probe_and_materialize`, `emit_row`, and
  `column_t::push_back`): the choice of path from `numThreads` and the number
  of rows, the sequential loop (one step per probe row), the claims of chunks,
  probing (one step per row), the offsets, the allocation of pages and the
  materialisation (one step per row and worker). A value is named by the row
  it comes from; the hash table is a constant `Entries` that has every row
  with the key and possibly others.
* **RootJoin** (`JoinAlgorithmColumnar::run`, probe and merge): workers claim
  chunks (`ClaimChunk`), copy a key (`ReadKey`), write the columns of a match
  (`ProbeEntry`); the calling thread finalizes each worker's writer and moves
  its pages (`MergeWriter`). The path without workers is worker 0 with every row
  for its chunk; its buffers are the result's own. `cache` is the thread-local
  value of dense columns; `denseKey` says that the probe column is one.

Columns and pages:

* **PageFormat** (operators only; the page buffers of `execute_root.h`,
  `to_columnar` and `to_columnar_value_t`, and `Table::from_columnar`): the
  byte arithmetic of 8 KB pages, the bitmap that grows by bytes, long strings
  on pages of their own, and the reader. Characters are abstracted to lengths;
  each piece of a long string is named by its string and its offset.
* **ColumnInserter** (operators only; `ColumnInserter<T>` of `plan.h`): the
  other writer of pages, with a bitmap that is never cleared and its own test
  for a full page. That test may let the bitmap be copied over a value of eight bytes, which
  is then `Broken` (`UnderBitmap`).
* **PageWriter**: one column of one type written value by value by a page
  buffer or an inserter. One action per branch of the source: `BufferInt32`,
  `BufferWide` (INT64 and FP64, whose code is the same), `BufferText`,
  `InserterFixed`, `InserterText`, and `Close`.
* **TypedColumns** (constants only): the columns of a table read from a file,
  shared by FilterEval and CopyScan.
* **CopyScan** (`copy_scan_value_t`, the dense arithmetic of `column_t`,
  `materialize_string`): a table written by inserters (`InsertRow`) is scanned,
  column after column in any order (`CopyColumn`), into referenced or copied
  columns.

Input:

* **CSVParser** (`CSVParser::execute` and `finish`, `TableParser::on_field`,
  the loop of `from_csv`): the file is read in chunks of any length. The
  parser is a record; one step executes one chunk, character by character.
* **FilterEval** (`from_csv` behind the parser, `InnerColumn`, `Comparison`,
  `LogicalOperation`, `from_inner_to_column`): records go to inner columns and
  their bitmaps (`AddRecord`); a statement, in post-order, is evaluated node by
  node on a stack of bitmaps, every operation as a call of the pool in which
  each worker fills its range byte by byte (`FillByte`); the scan inserts the
  wanted rows, a column per task (`ScanColumn`).
* **FilterThreadPool** (`inner_column.h` 13-107): every critical section except
  the worker's call of the function is one step, which is sound because a
  critical section touches only what its mutex protects; the worker holds its mutex over three
  steps (two reads of `num_tasks`, the call, the flag). `function` and
  `num_tasks` are assigned in two unprotected steps. Notification, blocking
  and wakeups without notification are separate steps; `applied` counts the
  applications of the current call. CopyScan and FilterEval use what it is
  shown to implement, ParallelFor: each task once before `run` returns.

Queries and plans:

* **QueryPlan** (operators only; `archives/read_sql_moreinfo.cpp`, of which
  `tests/read_sql.cpp` is nearly a copy): `ParseExpr` splits the expression
  tree of WHERE into filters and unions of columns, and is undefined (`Thrown`)
  where the code throws; `JoinGraph` is the transitive closure;
  `Load` descends the optimizer's tree and gives the set of plans the code may
  build, one per choice of a join condition from its hash sets.
* **PlanExecutor** (`execute_impl` and `execute_hash_join` of `src/execute.cpp`
  and of the archives): `frames` are the calls that have not returned, `done`
  the records of the nodes that have, `join` the join that runs. An insertion
  or a lookup of a row is one call, and calls of the three hash tables
  proceed by the steps of their modules. `variant` says which executor runs.
  Plans, filters and widths of tables are constants (`PlansFor`, `Passes`, `Width`).
* **QueryExecution**: the driver, a query parsed and loaded by QueryPlan, executed by
  PlanExecutor, and held against QueryAnswer.
* **SlotArrays** (operators only): sizes and walks over slots that the three
  hash tables share.
* **RobinHood**, **Cuckoo**, **Hopscotch** (the headers of these names): one
  step per iteration of the loops of `insert`. `rehash` and `insert` call each
  other; the stack of these calls is abstracted to `pending`, the entries they
  still have to insert, in order. Hash functions are arbitrary functions to
  the naturals, reduced to the current size. The archived executors call the
  tables `Hopscotch` and so on, the headers all `Hashalgorithm`: the archives
  are not built as they stand; `execute_d1.cpp` compiles with each header.

Each `MC*` module gives values to the constants; each has one `.cfg` per question.
Operators marked `\* mutant` are plausible bugs used to test the properties;
nothing else refers to them.

## 3. What the runs check

| Run | Question | Instance |
|---|---|---|
| `threaded_two` | types, races in directory and storage, exactness of the merge, refinement of JoinIndex, the build ends | 2 partitions, 4 rows, 4 keys, one tuple per block |
| `threaded_four` | the same where partitions outnumber rows | 4 partitions, 2 rows, 3 keys |
| `unchained` | exact placement, refinement of JoinIndex | 4 rows, 3 keys |
| `probe` | claims, disjoint writes, refinement of HashJoin, the join ends | 1 or 2 threads, 5 probe rows in chunks of 2, pages of 2 values |
| `root_join` | rows aligned across columns, refinement of HashJoin | 1 or 2 threads, 3 probe rows in chunks of 2, a dense output column, dense and sparse keys, a long string, NULLs |
| `page_writer` | nothing overflows a page; pages read back as written | every type and writer but eight-byte values through an inserter; up to 6 values, pages of 20 bytes, 2 rows per bitmap byte, strings around every limit |
| `page_writer_wide` | the same of eight-byte values through an inserter: **violated** | up to 9 values, pages of 48 bytes, one row per bitmap byte |
| `copy_scan` | what a scan returns reads as the rows written | an INT32 and a VARCHAR column of up to 5 rows, 3 dense rows per page, texts of three pages |
| `csv_parser` | fields do not depend on the chunks; tables written as text are read back | all texts of up to 5 characters of 6 kinds; tables of up to 2 records, three line endings, with or without header and last line end |
| `filter_eval` | vectors agree with records; the scan returns the wanted rows | 2 workers, up to 3 rows, 2 per bitmap byte, 34 statements or none |
| `plan_executor` | entries where lookups look for them, no row lost or doubled, tables at most half full, executions end, refinement of QueryAnswer | six executors; joins of 5 rows with colliding keys; every tree over three tables for two queries on three contents |
| `pool` | each task once, members never shared, refinement of ParallelFor, calls and the destructor return | 3 workers, 2 calls of 0, 1, 3 or 4 tasks |

The finding. `ColumnInserter<T>::insert` (`plan.h` 266) counts four bytes for a
value of any type, and the page buffers of `to_columnar` count eight for an
INT64 or FP64. `page_writer_wide` finds a page whose bitmap, copied last, takes
the end of the last value, which then does not read back either. In the code it
takes a page with enough NULLs: 1006 values and 18 NULLs, then one value more,
makes a bitmap of 129 bytes that begins at the value's last byte. INT32 is not affected, and joins use no
other numbers.

Bounds and why they suffice. Every build column of the given length is an
initial state, NULLs included. Four rows and blocks of one tuple give chains of
several blocks in one partition, from one or both collectors, and empty
partitions; with two tuples per block, full and partly filled blocks. Keys are
chosen so that two share a slot, three share a partition, and the bloom bits of
one cover another's, so that an absent key passes the filter. `threaded_four`
has collectors whose first row lies beyond the column (ceiling division). Three
chunks for two workers let one worker take two; the last chunk is partial;
output pages of two values are shared by workers at the borders of their
ranges. Four tasks on three workers leave a remainder, one task leaves workers
without work, and a second call meets late notifications of the first.
Pages of 20 bytes hold three ints, one wide value or two short strings, so six
values cross several pages, and NULLs add bytes of bitmap to a page that values
have nearly filled; the strings are the longest that may share a page, the
shortest that may not, one that ends exactly with its page and one a byte
longer. The root join's table has two keys in one slot, so every probe meets
entries of another key, and each match writes one row whose columns fill their
pages at different rows. Five scanned rows fill one dense page and begin
another, so a NULL may make the second page sparse only. Five characters give
every parser state a chunk border on either side, and the tables' texts are
longer. Three rows at two per byte leave a partial last byte, which NOT inverts.
In `plan_executor`, four of seven keys share a home slot in tables of 16 and of
32 slots, two others wrap around the end: the orders of five of them make robin-hood entries
take places, cuckoo kicks end in nested rehashes, hopscotch entries move, fail to move
and fill a bitmap. `H` is 3 instead of 32 and `MinSlots` 2
instead of 16, so that five rows suffice. The two queries have a class of
three columns and two classes of two, filters of every kind, an
attribute selected twice and attributes both selected and joined on.
`MaxRuns` bounds the calls of the pool and `MaxRows` the rows of PageWriter,
CopyScan and FilterEval; no other counter is bounded artificially.

Fairness. Threads are `std::thread`s without priorities, so each worker and the
calling thread is weakly fair: an enabled step is eventually taken. Mutexes are
not assumed to be fair (no strong fairness), nor are wakeups without
notification. A caller is not obliged to call `run` or the destructor. PlanExecutor has one
thread, weakly fair. The modules of columns and input state no liveness: their
loops are bounded by their data.

Each refinement is a PROPERTY `INSTANCE`d with its mapping: the index of the
finished table is what probing every key would meet among the cells of
`find_range`; the result of a join is the bag of rows read across the output
columns.

## 4. What is proved

`ThreadedTableProofs` proves for every column, number of partitions, hash
function, tag function and block size:

* `TypeCorrect`: `Spec => []TypeOK`;
* `BuildersNeverRace`: `Spec => []DirectoryRaceFree`: the lock-free parallel
  build has no data race on the directory;
* `MergeCorrect`: `Spec => []MergeExact`: the merge, which relinks chains of
  blocks by pointers, loses and doubles no row;
* `CopiesNeverMeet`: `Spec => []CopiesDisjoint`;
* `LookupsCorrect`: `Spec => ImplementsIndex`.

`DirectoryRaceFree` alone is not inductive: a builder finds its slots by the
hash of tuples it reaches through block pointers. The invariant
`IInv == TypeOK /\ BlocksPure /\ PointersPure /\ BuilderSound` says that a block
holds tuples of one partition and links to blocks of that partition only, that
every pointer the threads hold (heads of collectors, the merge's tail, partition
heads, the builders' positions) points to a block of the partition it is used
for, and that a prefix sum runs inside its partition's slots. Arithmetic lemmas
show that the slot of a hash lies in the slot range of the hash's partition
(the directory is a multiple of the partitions, the hashes a multiple of the
directory: `SizesAssumption`, true of powers of two with no more partitions than
slots). Each action has a lemma that it keeps the invariant, and
`AccessInPartition` derives the theorem.

The invariant of the merge, `ChainInv`, follows the rows: each collector has consumed an interval of the
column; its blocks of a partition hold the consumed rows of that partition,
each in one block; a chain visits blocks in the order in which collectors
opened them (`Before`), so it cannot be a cycle; a partition's count is the sum of
what its collectors counted, and its offset the sum of the counts before.

The last two stand on it. Their invariant `TableInv` gives the directory entries of a partition the meaning they have in the phase
of its builder: numbers of tuples counted, then, as far as the prefix sum has come, the
address where the slot starts, then that address advanced by the tuples
copied. The cells below a slot's entry hold the tuples the builder walked, each
once, and those above are unwritten. The ranges of slots follow one another, in a
partition and from partition to partition, so builders share no cell. At the end
the cells of a slot are the rows that hash to it, and the bloom bits cover
their tags: this is what JoinIndex promises.

`InnerJoinProofs` holds the theorems of two modules. Of UnchainedTable, for every
column, directory size, hash and tag function:

* `BuildTypeCorrect`: `BuildSpec => []BuildTypeOK`, which bounds every loop index;
* `PlacementCorrect`: `BuildSpec => []PlacementExact`: `finalize` writes no entry over
  another one or outside its slot's range;
* `LookupsCorrect`: `Spec => ImplementsIndex`: after the three passes, every
  lookup finds every row with its key once.

The directory entries change their meaning from pass to pass, and the invariant
`IInv` says which one they have. `EntriesExact`: `entries` holds the rows
whose key is not NULL, each once. `DirectoryExact`: the pointer part of a slot is
the number of its entries counted so far, then, for slots the prefix sum has
passed, the address where its range starts, and then that address plus the number of its
entries placed so far. `StorageExact`: the cells between the start of a slot and
its pointer hold its placed entries, one each. `BloomsCover`: the bloom
bits of a slot have the tags of its counted entries. Numbers of entries
are cardinalities of sets of indexes; lemmas about them say that the entries of
a slot and of those before it are those before the next one, which makes ranges
adjacent, and that one entry more counts in one slot only. In the last step every slot's
pointer is where the next slot starts, so `find_range` reads its whole range.

`ParserAndPoolProofs` holds the theorems of two components.

Of CSVParser, for any characters, both escape characters, any files and attributes:

* `ChunksNeverMatter`: `ParserSpec => []ChunksDoNotMatter`;
* `RecordsAreReadBack`: `ParserSpec => []RecordsReadBack`: records written as text
  are read back.

`Rounds` are the states of the parser over the text read whole, one per character.
The invariant `ReadTo` says where between them a parser stands after a chunk.
Either it is the one that has read as many characters, with nothing to
resume, and the last round did not look beyond the chunk. Or the chunk ended
with a character that needs the next one (`NeedsNext`), and the parser is the one
*before* that character, with a mark (`Waiting`). `ChunkStarts` shows that
resuming such a parser with the next character gives what the whole text gives for
both characters, which needs that inside quotes no record has just ended
(`Plain`); `ChunkAdvances` follows the two runs through a chunk, at places that
differ by a constant (`Pair`); `ErrorStays` and `EndReached` are about the ends.

With that, `RecordsAreReadBack` is about the text read whole, whatever the chunks.
`Parses` names the states of the parser, one per character, and `JoinedOccurs` finds the
parts of a joined text at their offsets. The proof climbs from characters to the file.
Inside a field, the parser has the field's characters so far and is quoted or not
(`Reading`); from the character of a plain text, an escaped one or a quote the
next such state follows (`PlainTaken`, `EscapedTaken`, `FieldTaken`), two rounds at once where an
escape needs the character after it. A comma or the end of a line hands the field over, and
`InLine` and `AtLine` say with the fields handed over what `AddFields` makes
of them: the lines before, and the values of this one up to its column. `Adds`
tells what is added without naming the recursive function, so one field more is one
step of it. A CR LF is one end of a line, and the four ends of a file (LF, CR, both, none;
`FinishEnded`, `FinishCR`, `FinishLast`) give the last record once.

Of FilterThreadPool, for any number of threads and tasks:

* `TypeCorrect`: `Spec => []TypeOK`;
* `MembersNeverShared`: `Spec => []MembersNotShared`: `run` writes the unprotected members
  only when no worker reads them or is about to;
* `CallsCorrect`: `Spec => ImplementsParallelFor`.

For `MembersNeverShared`, the invariant adds to the types that a worker holds its mutex only
for work posted and not yet answered (`HoldsForWork`) and that the caller has
all answers up to its loop index (`AnsweredSoFar`). For the others, `TasksExact`
says that during a call a task was done if and only if it is in the range of a
worker that has work posted and is past the function, and at other times that all are.
`begin_idx` cuts the tasks as `Cut` does once every worker is born; lemmas show
that the ranges of workers are disjoint (`RangesDisjoint`) and cover all tasks
(`CutCovers`), for every number of tasks, with remainder or less than the workers.
The assignment of `num_tasks` is the `Start` of ParallelFor, the application of
the function `Execute`, the last answer `Return`, and all else a stutter.

Of ProbeMaterialize (`InnerJoinProofs` again), for any columns, number of threads,
chunk and page size, and any table that is complete (`EntriesAssumption`):

* `TypeCorrect`: `Spec => []TypeOK`: every column has the pages its values need;
* `WritesNeverMeet`: `Spec => []WritesDisjoint`;
* `ClaimsCorrect`: `Spec => []ClaimsExact`;
* `JoinCorrect`: `Spec => ImplementsJoin`: both paths yield the join, aligned
  across the columns.

The invariant `JoinInv` has six parts. `Shapes` are the types, where a column's pages
fit its number of values. `PathTaken` says which phases belong to which path. `ChunksApart`: chunks lie below
the counter and share no row, and a worker leaves its loop only when the
counter has passed the last chunk. `MatchesExact`: the matches of the workers are those
of the rows done, each once. `CellsExact`: at a worker's offset, a column has the values of
the matches it has materialized and is blank after them. `RowsAppended`: the
sequential path has appended the matches of the rows it has passed in one order,
the same for all columns. At the end the columns list all matches (`RowsFinish`),
and index and match are in bijection, so every result row is there as
often as it matches (`RowsCounted`).

`Arithmetic` holds what these proofs share: integer division, induction over
the naturals in the form of a set that contains 0 and successors
(`NatSetInduction`), and the existence of a function defined by
recursion on 0 .. N (`RecursionExists`). With them the proofs reason about prefix sums (`Offsets`),
the collection of a row's matches (`RowMatches`), the values appended for it
(`AppendAll`) and the doubling loop of `RoundUp`.

`PageFormatProofs` has the lemmas about pages. `Spelled` says that the pages of
a writer, followed by the rows it still buffers, read as a given list of values
*after any other pages* (`Adds`), so that it holds of pages that are moved behind
others. Inserting a value spells it too (`Inserted`, `InserterInserted`), saving a
page changes nothing (`Saved`, `InserterSaved`; of an inserter, if values and bitmap do
not overlap, which `ApartKept` shows for all but wide values), a long string reads as one value
from its pieces (`LongRead`), pages joined spell their lists joined
(`AddsConcat`), and a reader gets the list (`ColumnRead`).

`WriterAndRootProofs` holds the theorems of two components. Of PageWriter, for any
page size, any rows per bitmap byte, any values and lengths:

* `RoundTripCorrect`: `WriterSpec => []RoundTrip`: what is written reads back, from both
  writers;
* `PagesNeverOverflow`: `WriterSpec => []PagesFit`;
* `RowsNeverReachMarks`: `WriterSpec => []RowsBelowMarks`: the number of rows of a
  page is never one of the marks of a long string.

All three assume `ExactTests`: no wide value goes through an inserter, whose test
before an insertion is not exact for them (the finding), and no value is both
INT32 and wide. Without it the first two are false: `InserterPage` copies the
bitmap over what reaches into its bytes, and a reader finds `Broken` for the last
value. That values read back therefore rests on their fitting (`FitsApart`). The
invariant `ColumnFits` says of the buffer what `PagesFit` says of pages: header, values and the bitmap bytes its rows need fit, since the
test before every insertion counts the byte the bitmap may grow by; and that a
page buffer, which copies all of its bitmap, has no more bytes in it than that
(`Cleared`). An inserter copies the bytes of its rows only, so its bitmap may
be longer. `RowsBelowMarks` follows because every row has a bit in the page.

Of RootJoin, for any columns, number of threads, chunk and page size,
any values and lengths, and any table that is complete:

* `RootTypeCorrect`: `Spec => []TypeOK`;
* `RowsAlwaysAligned`: `Spec => []RowsAligned`;
* `RootJoinCorrect`: `Spec => ImplementsJoin`.

The invariant `RootInv` has five parts. `Shapes` are the types. `Chunks`: the
workers' chunks share no row and lie below the counter. `Looking`: a worker that
has entries to look at does so for the key of its row, and the key was copied.
`Stage` ties the phases to one another. `RowsWritten` says that there is one list
of pairs per worker such that *every* column of the worker spells that list (`Wrote`);
together the lists have the pairs of the rows and entries done, each once
(`Once`); and the result's pages spell those of the workers merged (`Merged`).
No variable holds these lists, so the invariant says that they exist, and each action's
lemma names the next ones. `RowsAligned` is read off `Wrote`. In the end all
matches are done (`AllDone`), and row and match are in bijection (`RowsCounted`).

`FilterAndScanProofs` holds the theorems of two components.

Of FilterEval, for any table, any statements whose nodes form trees, any number of
workers, any page size and rows per byte:

* `VectorsCorrect`: `Spec => []VectorsMatchRecords`: the bitmap of a filter has the
  bit of a row exactly if the filter holds of the record;
* `ScanCorrect`: `Spec => []ScanExact`: the columns returned read as the wanted
  rows, in the order of the file.

The invariant `FilterInv` has these parts. `Loaded`: the inner columns hold the
records, their bitmaps tell the NULLs and are just as many bytes as the rows take.
`EvaluatedSoFar`: after some number of nodes of the statement, the stack has as many
bitmaps as the evaluation of a record has results, and bit *n* of each is that result
for record *n* (`Truths`). A statement pushes each result once, so the depth of the
stack is a function of the node alone; that is where trees are needed.
`Operating`: the bytes of a bitmap before the begin of each worker's remaining
range are filled; the ranges meet (`Divided`), so at the end all are.
`Evaluated` and `Scanning`: the result has the truths of the whole filter, and the columns the
workers have passed spell the wanted rows. The number of rows is counted while the columns are
scanned; that it is the same from every column is `WantedCounted`.

Of CopyScan, for any columns, values and lengths, any page size and rows per byte:

* `ScanReadsBackCorrect`: `CopySpec => []ScanReadsBack`: what a scan returns reads as
  the rows that were written.

That a reader of whole columns gets the values (`Spelled`) does not say *where* they are.
`Laid` does: page *p* has the values after the first `start[p]`, as many as it
counts, and the pages of a long text stand together and end before a page of
another kind. `WriterLaid` says it of a writer with its buffer, and every insertion
keeps it (`InsertedLaid`). `Numbers` says of an inserter of INT32 that each page
but the last is full, in the sense of the test that `insert` makes; with no NULL this
leaves one number of rows (`RowsOfFullPage`), which is `ROWS_PER_PAGE`, so division and
remainder find the page and the place (`DenseRead`). The copied values are those of the
pages in a row (`PagesInARow`), and a reference to a text leads to it (`TextFound`):
the rank in the bitmap is the place among the page's values, and the next page that
continues no text ends a long one. The invariant `CopyInv` says that inserters, and
later pages, have these properties for the columns of the rows written.

`PlanExecutorProofs` proves for any plans that are well formed, any rows, and any hash functions and sizes
of the three hash tables:

* `Types`: `Spec => []TypeOK`;
* `Placing`: `Spec => []EntriesPlaced`: an entry is where lookups of its key look;
* `NoRowLostOrDoubled`: `Spec => []EveryRowOnce`: displacements, kicks, hops and
  rehashes lose and double no row;
* `ExactLookups`: `Spec => []LookupsExact`;
* `FreeSlots`: `Spec => []HalfEmpty`.

The invariant `IInv` says that the calls and the records they have left are well formed
(`Calls`); that when a join runs, its index holds exactly the rows handed to it under
their keys (`Joining`); and that nothing of an index is left when none runs. What an index
holds is said without its layout: `Content` relates the set of *all* entries, those in slots, the one in
the hand of an insertion and those that a rehash still has to insert, to
the keys handed over. Moving an entry between these places does not change the set,
which is why no row is lost. Each table adds its layout. `RHInv`: from an entry's
home to its slot all slots are taken by entries at least as far from home, which is what
lets a lookup stop early, and which must survive each displacement. `CKInv`: an entry is in
its slot of one of the two arrays, and the counted entries are those in slots. `HSInv`: the bitmap of a home has exactly the bits of
its entries. Each section proves first what a step does to the arrays, then what an action of the
module does, then (lemmas named `Index...`) what the index promises whichever
table it is, and the actions of the executor have a lemma each.

Only model-checked: that the executors answer the query (`AnswersQuery`), which
rests on the plans that the recursive operators of QueryPlan load; and every
liveness property (fairness and ENABLED are outside the prover's reach). The
refinement of JoinIndex, HashJoin and ParallelFor is proved for the steps that
the code takes; that these are taken is liveness.

Assumptions: the named ASSUMEs of each module, evaluated by
TLC in every run. `SizesAssumption` of ThreadedTable excludes more partitions
than directory slots. The code can leave that domain: `SPC_FORCE_THREADS` above
1024 together with a build side of few non-NULL rows. `EntriesAssumption` of ProbeMaterialize
and RootJoin says that the table has, for every key, every row with the key once, and
possibly rows of other keys: what the theorems `LookupsCorrect` say of both
tables. `SizesAssumption` says that a join has an output column, the one its
parent joins on. `ReaderAssumption` of PageWriter, and the same of RootJoin, tell
the mark of an unreadable page from the values. `ParserAssumption` says that the
characters the parser knows differ, and that files are sequences of characters.
`TablesAssumption` says which records text can stand for. Text is not NULL: a value is
not empty, a number is digits, a record has a value for each attribute, and there is one at
least (a file without any is read as one empty field). A lone NULL, in a table of one column, is no
record of it either: its line is empty, and at the end of a file that is no line.
`ColumnsAssumption` of TypedColumns gives each column a type and values other than NULL,
none of them eight bytes wide, as the types are INT32 and VARCHAR;
`ScanAssumption` of CopyScan adds that texts are the values of VARCHAR columns, and that INT32_MIN,
which stands for NULL, is not a value of an INT32 column. `StatementsAssumption` of
FilterEval says that a statement is a tree, as `makeAnd`, `makeOr` and `makeNot` build
them. `HashAssumption`, `SizesAssumption` (the least table is a power of two, as
the code's 16 is), `RequestsAssumption` (a plan has children before parents and attributes that its inputs have) and
`NoneAssumption` belong to PlanExecutor; the requests of the run satisfy them with
the plans that QueryPlan loads.

## 5. Facts met while modelling

* `README_d1.md` says that robin hood needs no rehash because the table is
  always large enough, and `hopscotch.h` 99 that a full table will never
  happen. Both hold for joins (`HalfEmpty`): the tables are made for twice their
  rows. `tests/hopscotch_tests.cpp` uses a table directly, where it can be filled.
* `README_d1.md` says of cuckoo hashing that a cycle must exist when it
  rehashes. The count of kicks is cautious: with one entry in the table the
  first kick already rehashes. This costs memory, not correctness.
* `load_join_pipeline` keeps one condition per join. Others of the same
  class follow from the joins below (`AnswersQuery` checks every choice); conditions
  of another class, as in a triangle of tables over three classes, are
  dropped without an error. So is an equality of two columns of one
  table, and NOT over an equality of columns still unites them. The
  requests of `plan_executor` have none of these.
* A comparison with NULL is false in the filters, and NOT makes it true; SQL
  would leave it unknown. QueryAnswer follows the code.

## 6. Not modelled, and the plan

Nothing models the SQL and JSON parsers, the resolution of names, the cache of
filtered tables, the comparison with DuckDB, the database builder, generated tables (`tags`) or
file I/O. `hardware.h` and `hardware_vm.h` are constants of machines.
Of `from_csv` the two caches are left out (a second call with the same path
skips the parser), of the parser the trailing-comma mode and exceptions of
`stoi`, of the filters RE2. In order of importance, still to come:

1. `MappedMemory` and the ownership of pages by `Column` and `column_t`.
2. `BumpAllocator`: the three allocator levels in bytes, implementing the
   blocks of ThreadedTable.
