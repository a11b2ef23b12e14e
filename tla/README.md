# TLA+ models of squel

squel is a row-oriented SQL engine in C. A run of the program parses one
statement, plans it as a tree of operators and executes the tree by calling
`getTuple` on its root until an empty tuple comes back. This directory has TLA+
models of the parts of that machinery that are hard to test, TLC runs that check
them on small instances, and proofs, checked by the TLA+ proof system, of what
holds for every size.

Paths below are relative to the repository; `src/...` is the C code.

## 1. Inventory of the system

| Part | Code | State it keeps | Operations | Talks to |
|---|---|---|---|---|
| Command line | `src/squel.c`, `src/api/api.c`, `src/util/options.c` | options | main, print | parser, planner, executor |
| Parser | `src/parser/*.c` | look-ahead char, position, current node (globals) | recursive descent | planner (parse tree) |
| Planner | `src/planner/**.c` | operator tree | one `make...Op` per operator, column look-up, filter lists, choice of the join | parser, catalog, table headers |
| Catalog | `src/planner/catalog.c` | none | names and types of a text file's columns from its first two lines | planner |
| Executor | `src/executor/executor.c` | the result tuple | assign `getTuple`, call until empty | root operator |
| CREATE TABLE, INSERT | `src/executor/statements/` | target file, insert buffer (globals) | truncate, write header, write a record per tuple | TDB file, executor |
| TDB file | `src/io/tdb.c` | the file | write and read the header | statements, TDB scan |
| TDB scan | `src/operators/scanTDB.c` | file offset, block buffer, records left in it | fill buffer, get tuple | TDB file |
| Text scan | `src/operators/scan.c`, `src/io/flatfile.c` | open file, line buffer | get tuple | text file |
| Filter | `src/operators/filter.c` | none | get the next tuple that passes a list of conditions | child |
| Project | `src/operators/project.c` | none | get tuple | child |
| Aggregate | `src/operators/aggregate.c` | done flag | fold all tuples of the child | child |
| Nested-loop join | `src/operators/join.c` | tuple buffer, left tuple, position in the right table | get tuple | two children, tuple buffer, filter |
| Hash join | `src/operators/hashjoin.c` | tuple buffer, hash map, left tuple | get tuple | two children, tuple buffer, hash map, filter |
| Tuple | `src/executor/tuple.c` | offsets, converted longs | column access, conversion to long | everyone |
| Tuple buffer | `src/executor/tuplebuffer.c` | two growing arrays | take a tuple, get one by number | joins |
| Hash map | `src/util/hashmap.c` | buckets of chained nodes, a cursor per node | insert, isIn, get, reset, free | hash join |
| ODBC driver | `src/odbc/*.c` | handles, a plan per statement | allocate, prepare, execute, fetch, free | planner, operators |

Behaviour that is hard to get right and to test:

* **Suspended loops.** A join returns from the middle of two nested loops and is
  resumed by the next call; where it was lives in `op->info.join` and, for the hash
  join, in the cursors of the hash map.
* **The iterator protocol.** A child must not be called again after its empty tuple:
  scans free their buffers there.
* **Collisions.** Keys of one bucket share a chain, but `resetCursor` only sees the
  head of it.
* **Data that changes meaning.** A conversion to long replaces the offset of a column
  by an index; growing a tuple buffer moves the tuples stored before.
* **Files.** INSERT truncates its target before it runs its query; rows reach the file
  when the C library flushes; processes may be killed or run at the same time; headers
  are read without looking at what `fread` returned.
* **Handles in any order.** An ODBC host may call the driver on any handle at any time; a
  plan keeps its place in files that the end of the query closes.
* **Lists of conditions.** What the parser links with `next` and `child`, the planner turns into
  another list and the filter walks; each of them cuts it short in places.
* **Boundaries.** Empty tables, averages of no rows, lines that do not fit, files of a whole number of blocks, capacities of 1,
  differences of longs kept in an int, the 10000 values of a map node.

What makes each part correct:

* hash map: a key has one node, in its bucket; each key behaves as a queue of its own
  with a cursor;
* joins: every matching pair once, in row order, then the empty tuple;
* tuple buffer: rows survive growth; a returned tuple points into live memory;
* TDB scan: every complete record once, then the empty tuple;
* text scan: in each row the columns of its line, converted or not;
* parser and planner: the plan is the statement as it is written; a name is the column it names;
* filter, project, aggregate, joins under the executor: what is printed is what the query means, and
  only certain command lines, statements and files fail;
* ODBC driver: a handle returns the rows of its own statement; what it opens is closed; only
  certain calls end the host;
* statements and file: after INSERT the file is header plus rows; a SELECT reads
  records that were written, whole, whatever runs beside it or was killed before.

## 2. Modules

| Module | Models | Used by |
|---|---|---|
| `Hashmap` | the value of a hash map and what each call computes | `HashmapMachine`, `HashJoin` |
| `MultiMap` | what users expect of the map (abstract) | `HashmapMachine` |
| `HashmapChains` | lemmas on the chains and tables `Hashmap` builds | `HashmapProofs`, `HashJoinProofs` |
| `HashmapMachine` | every sequence of calls on one map | `MCHashmap`, `HashmapProofs` |
| `HashJoin` | `hashjoinGetTuple` on a `Hashmap` | `MCHashJoin`, `HashJoinProofs` |
| `JoinIterator` | what a parent expects of a join (abstract) | `NestedLoopJoin` |
| `NestedLoopJoin` | `joinGetTuple` | `MCNestedLoopJoin`, `NestedLoopJoinProofs` |
| `RowIterator` | what a parent expects of a scan (abstract) | `ScanTDB` |
| `ScanTDB` | `fillBuffer`, `scanTDBGetTuple`, to the byte | `MCScanTDB`, `ScanTDBProofs` |
| `TupleBuffer` | `tuplebuffer.c` | `MCTupleBuffer`, `TupleBufferProofs` |
| `TableFile` | layout of a `.tdb` file, headers, records, the INSERT check | `Statements` |
| `Statements` | CREATE, INSERT, SELECT as processes on one file | `MCStatements`, `StatementsProofs` |
| `Tuple` | `tuple.c`, and how `scanGetTuple` fills a tuple from a line | `Filter`, `Aggregate`, `Catalog` |
| `Filter` | the evaluation of a filter list on one tuple or two | `Join`, `Pipeline` |
| `Aggregate` | `aggregate.c`, but for the loop over its child | `Pipeline`, `OdbcStatement` |
| `Join` | both joins on tuples that filters convert, with the map of `Hashmap` | `Pipeline`, `OdbcStatement` |
| `Catalog` | `catalogFile` | `Pipeline`, `OdbcStatement` |
| `Parser` | the recursive descent from tokens to the nodes of a parse tree, with its globals | `Sql` |
| `Planner` | from the parse tree to the operators, or to the way planning fails | `Pipeline`, `OdbcStatement` |
| `Sql` | statements as data: as tokens, as what the parser finds, and their meaning as relations (reference) | `Pipeline`, `OdbcStatement` |
| `CommandLine` | `options.c` and the argument handling of `main` | `Pipeline` |
| `Pipeline` | one run of the program, from the command line to the rows printed | `PipelineProperties` |
| `PipelineProperties` | what such a run promises | `MCPipeline` |
| `StatementHandles` | what such a host may expect of the files its statements read (abstract) | `OdbcStatement`, `StatementHandlesProofs` |
| `OdbcStatement` | a host program that calls the ODBC driver on several statement handles | `MCOdbcStatement` |

The composition: `Pipeline` and `OdbcStatement` put `Parser`, `Planner`, `Catalog`, `Join` (with
`Hashmap`), `Filter` and `Aggregate` together, one under `executeSelect`, the other under `SQLFetch`.

`MC*` modules define instances, `*Proofs` modules hold theorems.

Definitions named as mutants in their comments (`NextLeftNoReset`, `GrowLate`, ...)
are not part of any specification. They are wrong versions of the definition that
follows them, one for each property, that show that the property can fail: put in the
place of the right one, TLC finds the property violated.

### How modules correspond to the code

**Hash map.** `map` is `map->data`: for each bucket the chain of `MapNode`s from the
head, which is allocated with the table and unused while it has no values. A node is
`[key, values, cursor]`, `obs` is the length of `values`. `HashOf` is the sum computed by
`hash()` before the modulo; it is a constant function, so an instance decides what
collides. `Overruns` is the call that writes past `values`: the bound is tested after the
write. `HashmapMachine.last` records the last call and its result.

**Hash join.** One action is one iteration of a loop of `hashjoinGetTuple`:
`CollectRight` and `Collected` for the first loop, `NextLeft`, `Reject` and `ReturnTuple` for
the three ways through the `do` loop, `CallAgain` for the next call, `Finish` for the end.
Rows are reduced to the join column: the string at its offset, the string found there after
the filter has converted the column (`alt`), and the number compared. The key of a stored long is the string
of its bytes up to the first zero byte (`CString`), and when none is zero it runs on into what follows
the number in memory, so that rows with the same number may have different keys.

**Nested-loop join.** `Enter` is the test on entry, `NextLeft`, `Reject` and `ReturnTuple`
the inner loop. The condition is any set of pairs of rows. `fault` is a call of a child past
its end.

**TDB scan.** `FillBuffer` is one `read`; `ReturnRecord` serves the block from its end;
`ReturnEmpty` frees it. Records are numbered, sizes are in bytes.

**Tuple buffer.** A pointer is `[block, slot]`, with `block` the number of the allocation it
was taken in: `realloc` makes the pointers of earlier ones invalid.

**Statements.** A process is a run of the program. `Plan` is planning (a scan reads the
header), `CreateTable` all of `executeCreateTable` but the flush of what it has written, `Check` the
first half of `executeInsert`, `Open` its `fopen` with `"w+"`, `WriteRow`
a call of `handleTupleInsert`, `ReadBlock` a `read` of a scan together with handing out its
records, `NoColumns` the end of an INSERT whose query selects no column (`executor.c:66`), `Close` the end. `Flush` is the C library writing out any part of what is buffered,
`DivideByZero` the end of a scan of a table of `CHAR(0)` columns,
`Kill` the end of a process at any point. A torn header reads as any of `AnyDef`: the code uses
uninitialized memory then. The units of a header are the number of columns, the descriptor of each column
and, behind all of these, the rest of their names: where in the header a name stands changes nothing, how long
the names are moves the records. A length is what a signed char holds of the declared size (`SignedByte`); when
the lengths add up to less than nothing, `Plan` fails for want of memory. `last`, `overlapped` and `stable` are history variables that only
properties read. A failing query (`exit(1)` in an operator) is a `Flush` of all that is
buffered and a `Kill`.

**Parser and planner.** `Parser` has one operator for each function of the descent. Its state `p` is
the tokens that are left, the nodes made so far, linked by their numbers in `next` and `child`,
and the globals `currentNode` and `nextToChild`. `Planner` walks the same links as the code does:
`MakeFilterOps` with its early end behind a parenthesis, `Rebase` for the columns of ON,
`DeduceJoinType`, the look-up of names with and without an alias. What goes wrong is an operator of
type `failed` (`exit(1)`) or `crashed` at the root; the first of them that planning meets is its outcome.

**Pipeline.** The command line and the statement are the input. `Main`, up to the plan, is done in the
initial state; the plan is executed step by step: control is at
an operator (`at`), going down (`dir = "call"`) or coming back (`"return"`), so each operator has
one action for what it does before a call of its child and one for each way it goes on after it. A
call of a join is one action, because nothing else of the plan runs during it; `HashJoin` and
`NestedLoopJoin` have its inside.
`tuples` are the tuples in memory: the one of `executeSelect`, which project, filter and scan
share, and one for each aggregate. `status` tells apart an end by `exit(1)` and by a signal. A
tuple keeps its bytes, offsets, flags and converted numbers from row to row as in C: `offsets[c]`
is a place in `data` or, once `casted[c]`, an index of `longs`. A joined tuple is the left tuple of
the join and one of its buffer, so that what a filter above converts is still converted when
the row comes again. `Sql!StatementTokens` writes a statement as text and `Sql!Relation` gives the relation
it means directly, so `AnswersQuery` compares the way through parser, planner and operators with a
reference that has none of them.

**ODBC.** One action is one call of the host on one handle: `SQLAllocHandle`, `SQLPrepare`,
`SQLBindCol` (`BindFails` when the length is written through NULL), `SQLFetch` with a row, without data or with
a crash, `SQLFreeHandle`. A binding is `[column, type, buffer, indicator]`: the last two say whether the host
passes a pointer. The handle is bound before its type is looked at, so of a type the driver does not know the call
says `SQL_ERROR` and leaves the handle bound. A
handle keeps its plan, its tuple, its bindings and, in `scan`, which of the opened `FILE`s its scan
reads. `scans` are these `FILE`s: one that is closed is memory the next `fopen` may hand out again,
which is how a handle that is fetched past its end may read another statement's file; `Opened`
has both choices. `returned`, `ended`, `overrun` and `abandoned` are history variables of what the host
has seen, read by properties only. After the first fetch past an end the rows are no longer
followed, and after the host has ended only the handle of its last call is kept.
`StatementHandles` is the same without plans and rows: of a handle it has whether there is a plan, the
`FILE` the plan refers to, and whether its aggregate has returned its row (`drained`); of the `FILE`s, which are open. A
fetch opens a `FILE` or goes on with the one it has, and closes it at its end; calls that end the host are `HostEnds`.

What is abstract: a field is one character, so that a byte of a line is a field, a delimiter or
the line feed; the statement is a sequence of tokens (the look-ahead by characters and the words of
the grammar are left out); `Number` and `Rank` stand for `atol` and `strcmp`. `MaxCols` is at
least `LineBuff` (`TupleAssumption`): in the code a
line of 200 bytes may have more than the 100 columns a tuple has room for, and what happens then is
not modelled. Sums do not overflow. `calloc(firstLineLen)` in `catalogFile` has no room for the
zero byte of a field as long as the line; the model has the field end there.

## 3. Runs

All runs are exhaustive for their instance.

| Run | What it asks | Bounds |
|---|---|---|
| `hashmap` | Does every call keep chains well formed and do what a multi-map does? `resetCursor` rewinds the head, all else is exact. | keys `""`, `a`, `c` in one bucket of two, 2 values, room for 2 values in a node |
| `hashjoin` | Exactly which pairs come back (with the chained-reset effect), in order, none twice, and does it end? | keys are sequences of bytes; texts: up to 3 rows on the left over 4 keys with a collision and an empty key, up to 3 on the right over 3 of them, and on the left up to 2 rows that read differently after a conversion; stored longs: one row each side of all longs of 3 "bytes" in base 2, with the end of the record, a zero byte or another byte behind them, ints modulo 4 (`IntMod`); room for 2 values, so the overrun happens |
| `hashjoin_chained` | Is the join complete? No: finding 1. | as above, no empty keys |
| `nljoin` | Is the nested-loop join a `JoinIterator`? | tables up to 3 x 3 rows, left not empty, all conditions |
| `scantdb` | Is the scan a `RowIterator`? Is the order that of the tests? | 0 to 40 bytes, records of 3, blocks of 3: up to four full blocks and five reads, with torn records |
| `tuplebuffer` | Do rows survive growing? Are returned tuples fresh? | initial capacities 1 to 4, 6 tuples: up to three growths |
| `statements` | What is in the file, what does a SELECT read, does every statement end? | two processes, nineteen pairs of requests: five statements that write (one of them leaves a table of `CHAR(0)` only) beside each of SELECT, INSERT and INSERT of the table into itself, a CREATE with a length that is stored negative and one with a longer name beside a SELECT, CREATEs with a shorter and a longer name beside an INSERT of the table into itself; no table or one of two rows before; records of 3 units, scan blocks of one record, chars of 8 values (`ByteRange`) |
| `statements_columns` | Can an accepted INSERT be read back? No: finding 2. | two long columns selected in the other order |
| `pipeline` | Does a SELECT print what it means? Is the plan the statement? What fails? Does it end? | one file of two columns, up to `MaxLines` = 2 of eight lines (short, empty, too long, not a number, negative) and some of three, under every comparison and function, alone and over a subquery; 420 WHERE clauses of up to six conditions with parentheses, on a file with all four values of two conditions; joins of two files under 14 ON clauses with repeated, missing and empty keys, alone, below WHERE, aggregates and other queries, and with tables of one to three columns; faulty statements; CREATE, INSERT and EXPLAIN of all of these; all command lines of up to three of eight words. Ints of 4 bits, longs of 8, a line buffer of 5, 7 buckets |
| `pipeline_text` | Is a column compared with a string in the order of strings? No: finding 3. | `=`, `<`, `>`, columns and strings on both sides |
| `pipeline_joinorder` | May the tables of ON be in either order? No: finding 4. | one equality of a column of each table, the second table's first |
| `odbc` | Does each handle return its own rows? What ends the host? Which files stay open? Is every step one of `StatementHandles`? | two handles (symmetric), seven statements: a table, a filter, an aggregate over one, joins that can and that cannot be planned, a missing file, an INSERT; binding of one column with a buffer, with NULL, without a place for the length, and as a type the driver does not know (`MCBindings`); two `FILE`s (`MaxScans`) that may be reused; every call in every order |

Why these bounds: keys only matter by being equal, sharing a bucket or being empty, and
three keys with one collision have every combination; a third row is needed for a repeated
key on both sides of another. The scan's control depends on the number of full blocks only up
to one, two, more. Two processes are enough for a crash followed by a reader, a reader beside a
writer and two writers; more writers only add to what is already excluded as `overlapped`.
Files of two lines have every pair of a row and one left behind by it in the tuple; three rows on a side of
a join give a repeated key around another one. Two handles are enough for one that reads the `FILE`
the other has closed, and with `MaxScans` of 2 each may have one open: a statement that would
need a third is only followed once a `FILE` is free, which in the odbc run happens after a
statement has been dropped unfinished.

`hashjoin`, `statements`, `pipeline` and `odbc` check properties with a condition (`Plain`,
`~ overlapped`, `Regular`, `OnInOrder`, `~ overrun`, `~ abandoned`); the mutants of these runs show
that states that meet the conditions occur.

### Fairness

An operator or a whole SELECT runs in one thread and each call runs until it returns; `executeSelect` calls until
the empty tuple. That is weak fairness of the operator's own step (`WF_vars(Work)`). For
`Statements` the machine keeps running some process as long as one can run
(`WF_vars(\E p : Step(p))`), which is weaker than fairness for each process and is enough
because no statement goes on for ever. Nothing is assumed of `Kill`. Nobody makes an ODBC host
call anything, so `OdbcStatement` has no fairness and only safety properties.

### Properties worth knowing

* `ActsAsMultiMap` (`[][...]`): each step of the map is a step of `MultiMap` for its
  key, or the rewind of the head of the bucket.
* `ReturnsExactly`: the result of a hash join as a closed formula, with the one
  deviation from an inner join that collisions cause.
* `NothingLost` in `ScanTDB`: no record is lost or repeated on the way, and when the scan returns its
  empty tuple it has returned every complete record of the file.
* `ContentOfLast`: unless two statements write at once, the file and what is still
  buffered are a prefix of header and rows of the last writer. It includes that an INSERT
  from its own table leaves the table empty, if the header it writes is not longer than the one its scan was
  planned with (`HeaderKept`).
* `InsertedIsRead`: writer and reader, in different processes, agree on the layout.
* `NoTornRecord`: a reader beside statements that rewrite the table sees whole rows, none twice, as long as these
  keep its columns and the lengths of their names (`Uniform`).
* `Ends` in `Statements`: an INSERT that reads its own target does not chase its rows.

* `AnswersQuery` in `Pipeline`: at every moment the rows printed are a prefix of the answer of a
  direct definition of the query, and all of it at the end. `Regular` and `OnInOrder` say for which
  queries and files that is so: lines fit and have all columns, differences fit an int, averages
  are of numbers that are not negative, a name means one column, a star over a subquery takes
  columns in the order of the table, ON has the first table's column on its left and no
  column that is rebased wrongly or converted under the feet of the hash join. Each conjunct stands
  for a behaviour listed in section 4. AND and OR are read from left to right, as the code does.
* `PlansAsWritten`: the operators are those of the statement as written, with one filter for each
  term and the join that `README.md:64` of the repository promises; EXPLAIN lists them.
* `OnlyTheseFail`: a query ends in an error only for a bad command line, for clauses that `Understood`
  excludes, for names, tables or functions that do not exist or for values of two types, and crashes only
  where an option or the statement is missing, for a file without a line of data, a join of a
  subquery, or the average of nothing.
* `ColumnsOfTheLine`: nothing of the rows before shows in a row, and in a join every row of the
  buffer is still its line, whichever of its columns have been converted.
* `OwnRows`: however the calls on two handles are mixed and whatever was prepared on them before,
  a statement returns the rows of its query, each once, then `SQL_NO_DATA`, as long as nobody
  fetches past an end.
* `FilesAreClosed`: as long as every statement is fetched to its end, no `FILE` is left open.
* `ImplementsHandles`: a call opens, reads and closes the `FILE` of its own handle's plan only, in an order
  that does not depend on the plan; with the theorems about `StatementHandles` it carries `FilesAreClosed` over.
* `OnlyTheseEndTheHost`: the complete list of calls that end the host program, among them a fetch on a handle
  that is bound without a buffer, also after a binding that said `SQL_ERROR`, and a binding without a place for the length.

## 4. Findings

Each is the counterexample of a run, and was seen with the built program.

1. `hashjoin_chained`: keys `aci` and `daa` share a bucket of 3000. With both in the right
   table, a second left row with the chained key gets no partner. `resetCursor`
   (`src/util/hashmap.c:72`) only rewinds the head. `test/test_hashmap.bats:23-27` tests
   the rewind for a key that is alone in its bucket.
2. `statements_columns`: `INSERT INTO t SELECT b,a FROM f` stores `a,b`; selecting one column of
   two stores records of two columns; a `CHAR(8)` column is written with 50 bytes and
   read with 8.
3. `pipeline_text`: `WHERE n > 'bb'` returns the rows below `bb`: for a column on the left and
   a string on the right the constant is the first argument of `strcmp`
   (`src/operators/filter.c:86`). `test/test_simple_where.bats:20-30` has the order of strings
   for two columns.
4. `pipeline_joinorder`: `ON b.k=a.k` with `a` the first table reads other columns than `ON a.k=b.k`:
   `makeJoinFilterOps` (`src/planner/operators/join.c:18`) rebases the second table's columns
   wherever they stand, and the joins read the left operand from the first table's row.
   `test/test_join_duplicate.bats:20` has its tables in this order and passes because both columns are
   the first of their table.

Seen in the source and with the program, not the subject of a run of their own:

* An empty `.tdb` table on the left of a nested-loop join: the test on entry calls the left child after
  its end (`src/operators/join.c:61`), which frees its buffer twice and crashes. Text tables cannot be
  empty. The `nljoin` run starts with a row on the left, and the proofs cover both.
* 5 and 4294967301 in `.tdb` columns are joined: the map key ends at the first zero byte and the filter
  keeps the difference in an int (`src/operators/filter.c:53`). `ReturnsExactly` of `hashjoin` has it, with
  `IntMod`.
* Joining text tables on a number that is not the first column of the file loses pairs of
  repeated keys: after the conversion `getTupleColByIndex` returns the start of the row. The
  `hashjoin` run has such rows (`alt # key`) and shows that pairs are then lost but never
  repeated, and that the operator ends. A hash join does not join empty strings.
* The first column of the second table is not rebased in ON (`>` where `>=` is needed), and no
  column is rebased in a parenthesis: the condition reads a place of the row that holds the
  right column only if that row has nothing there.
* An aggregate over a join finds its column by name only; a subquery over a join forgets the
  tables of its columns, so that of two with the same name the first is taken; an outer query may use
  columns that its subquery has not selected; a star over a subquery prints in the order of the table.
* A subquery in a join crashes or fails at planning.
* The parser ignores what follows a statement, so a misspelt WHERE gives all rows. `SELECT 'a'`
  selects the column a. `--parse` skips the argument behind it.
* A stored long whose lowest byte is 0 (0, 256, ...) is the empty string to the map and joins
  with nothing. One without a zero byte (-1, for instance) is a string that goes on
  in the next columns of its table (`src/operators/hashjoin.c:45`, `:68`), and pairs of equal numbers are lost when
  these differ. The closed formula of `ReturnsExactly` asks for equal keys besides equal values.
* A SELECT that was planned before a CREATE of the same table with other columns or with names of other lengths reads the new
  file with the old header (`src/planner/operators/scanTDB.c:26`): it returns parts of the header or of two rows as
  records. An INSERT of the table into itself that was planned before such a CREATE and checked after it, which compares the number and
  the types of columns only (`src/executor/statements/insert.c:57-72`), reads a part of the header it has just written if
  that has grown. `NoTornRecord` and `ContentOfLast` exclude both by `Uniform` and `HeaderKept`.
* `CHAR(128)` and longer is stored as a negative length (`src/executor/statements/createTable.c:17`). The size of a
  record is an unsigned sum, so the scan asks for more memory than there is, and planning stops.
* AVG divides as unsigned numbers (an average of negative numbers prints as 9223372036854775806 and
  the like), and AVG of no rows stops with SIGFPE. MAX starts at 0 and MIN at `LONG_MAX`, which they
  print for no rows; MAX of negative numbers is 0.
* A text file with no line behind the header crashes at planning.
* `a AND (b OR c)` is rejected by the planner (`_makeFilterOps` takes a parenthesis only in front);
  `((a) OR b)` is planned and fails at the first row, because the parser takes an OR behind an inner
  parenthesis for a column.
* An empty line is a row; a line with fewer columns than the header shows the columns of the
  rows before; a line longer than the buffer is several rows.
* A scan of a table whose columns are all `CHAR(0)` divides by the size of a record, 0
  (`src/operators/scanTDB.c:22`). `Statements` has it as `DivideByZero`; a statement that inserts such a
  table into itself has then emptied it.
* The record count in the header is always 0, although `src/include/io/tdb.h:14` documents it, and
  both counts are wider or narrower than documented there.

Of the ODBC driver, seen in the source and with a host program linked against it:

* `SQLFetch` after `SQL_NO_DATA` reads a `FILE` that has been closed: it crashes, or reads the file
  another statement has opened since. An aggregate says `SQL_NO_DATA` for ever.
* Freeing, fetching or asking a handle without a statement follows a null pointer.
* A column that is bound makes `SQLFetch` write all of them: with one not bound, or bound as the other
  type, it crashes. Bindings stay over `SQLPrepare`, and `SQLFreeStmt` does nothing.
* Dropping a statement before its end leaves its file open.
* A join on one equality crashes in `SQLPrepare`, because the library never calls `initOptions`; other
  joins deliver zeros and empty strings.
* CREATE, INSERT and EXPLAIN, or SQL that does not parse or names no file, end the host by `exit`.
* Numbers of text files arrive as the bytes of their digits (7864371 for a short one); `SELECT b,a` or
  `SELECT b` delivers columns by their place in the table.
* `SQLBindCol` with a type the driver does not know returns `SQL_ERROR` with the handle bound
  (`src/odbc/SQLBindCol.c:14`), and the next row is written through a null pointer. A NULL for the length, which ODBC allows, crashes in
  the call (`:22`, `:27`).
* `SQLMoreResults` says there are more as long as the last row was one.

## 5. Proofs

Theorems hold for every value of the constants that satisfies the named assumptions. Each invariant
that is proved inductive (`IInv`, `RInv`, `AllSeen`) was first checked by TLC on the instance of the component's run, or, for
`StatementHandles`, on three handles and three `FILE`s.

| Theorem | States | Of |
|---|---|---|
| `HashmapProofs!TypeCorrect`, `KeysHaveOneNode`, `KeysAreWhereTheyHash`, `UnusedNodesAreAlone`, `CursorsStayInside` | the invariants of the `hashmap` run | `HashmapMachine` |
| `HashmapProofs!CollidingKeysStayApart` | `ActsAsMultiMap`, the action property of the run | `HashmapMachine` |
| `HashmapProofs!WithoutCollisions` | with no two keys in a bucket, the map implements `MultiMap` for each key | `HashmapMachine` |
| `HashJoinProofs!TypeCorrect`, `ReturnsTheJoin`, `ResultInOrder`, `NoPairReturnedTwice` | the invariants of the `hashjoin` run | `HashJoin` |
| `NestedLoopJoinProofs!TypeCorrect`, `ReturnsWhatItPassed`, `ImplementsJoinIterator` | the invariants, and the refinement of `JoinIterator` | `NestedLoopJoin` |
| `TupleBufferProofs!TypeCorrect`, `NoSlotBeyondCapacity`, `GrowingKeepsRows`, `ReturnedTupleIsFresh` | the invariants of the `tuplebuffer` run | `TupleBuffer` |
| `ScanTDBProofs!TypeCorrect`, `NoRecordLost`, `OrderOfRecords`, `ScanIsIterator` | the invariants, and the refinement of `RowIterator` | `ScanTDB` |
| `StatementHandlesProofs!NoFileLeftOpen`, `FilesAreNotShared` | `FilesAreClosed` and `OwnFile` of the abstract handles | `StatementHandles` |
| `StatementsProofs!TypeCorrect`, `ContentOfLastStatement`, `InsertedRowsAreRead`, `NoRecordIsTorn` | the invariants of the `statements` run; the last one from `OldTablesFit` | `Statements` |

**Hash map.** From `HashmapAssumption` and `ValuesAssumption`. The inductive invariant is `TypeOK` with
`WellFormed`; `OneNodePerKey` alone is not inductive, because an insertion stops at the first *unused* node:
one needs that an unused node is the only one of its chain (`UnusedOnlyAlone`). `HashmapChains` states
the invariant chain by chain (`ChainOK`, `MapOK`) and says what an insertion and a move of the cursor do to a chain;
`HashmapProofs` and `HashJoinProofs` both use it. `CollidingKeysStayApart` needs the invariant for two facts:
the node a call changes is the only one of its key, and the abstract queue of any other key is read from a node the
call leaves alone. The rewind of the head is the only exception, and `WithoutCollisions` shows that nothing of it is
left when every chain has one node.

**Hash join.** From the assumptions of `Hashmap` and `InputsAssumption`. `ReturnsExactly` speaks of the
end only; `IInv` follows the probing: `IndexOK` (the map is a well-formed index of the right rows read, in each
node in ascending order), `Places`, `Cursors` (a node whose key is not the current one is rewound if it is a head, and
used up for ever if it is chained and a left row has had its key), and `ResultSoFar` (the pairs of the rows
before, and of the current one those its cursor has passed). `NoPairTwice` and `InOrder` are
proved without `Cursors`, also for the rows that read differently after a conversion, where `ReturnsExactly`
does not apply (`Plain`).

**Nested-loop join.** The invariant adds to `ReturnedSoFar` that all pairs have been passed when the loop has
ended. It holds for all tables and conditions, the empty left table included: the faulty call happens after
everything has been returned.

**Tuple buffer.** The invariant is the conjunction of the type invariant and the three
properties; `RoomForOne` is the arithmetic of the growth test, which uses an unsigned
`capacity - 1` and so needs a capacity of at least 1.

**TDB scan.** `IInv` says where the buffer stands in the file: either nothing has been read, or it was
filled at record `first`, `first` is a whole number of blocks, and the offset, the flag for the end and the number of records
served follow from `first`. That a short read is the last one, and that a file of whole blocks needs one
more, is the arithmetic of `\div` in the lemmas `Quotient...`. With it `AllReturned` shows that at the empty tuple the
buffer is used up and every complete record of the file was read, which is the last part of `NothingLost`.
`ScanIsIterator` is the safety part of the refinement, step by step.

**Table file and statements.** From `StatementsAssumption`, which says what a statement and a file are, and
nothing of how long tables, rows and headers are or how many processes run. Headers and records are
made by folding sequences and adding up lengths. The induction over data this needs is carried by one lemma,
`NatInSet`: a *set* that has 0 and is closed under successor has all numbers, by the least number that is not
in it. What the recursive functions inside `FlattenSeq` and `SumFirst` compute is proved from it (`FlatAt`, `SumsAre`); the lengths of
columns and of names are both such sums, and `HeaderSize` and `HeaderFacts` say that a header is as long as
`MetadataSize` and reads back as its definition.
`ContentOfLast` alone is not inductive. `IInv` adds the types, what a place implies (`PlacesOK`),
and, as long as no two statements have written at the same time, that only the last process that truncated the
file is writing, that its offset is the end of the file, and that file and buffer together are *exactly* the
header and the rows handed over so far (`WrittenBy`), of which a kill leaves a prefix. For a table that is
inserted into itself one must know that the scan finds nothing: file and buffer hold the new
header, which by `HeaderKept` does not reach behind the one the scan was planned with, so the data area is empty
(`NothingToCopy`). `Accepted` alone does not make it so: it compares types, and a header is as long as its names are.

`InsertedIsRead` and `NoTornRecord` are about readers. Neither is inductive, nor do they follow from `IInv`, which says
what the file holds and nothing of what a SELECT has taken from it. `RInv` adds, for each process,
that its scan stands at the beginning of a record (`Aligned`), that a SELECT of a table which has not changed since
it was planned was planned with the header in the file and has returned the first records of the data area, as many
as its offset says (`Steady`, `HasRead`), that the definition a statement writes is set once (`TargetOK`), and that
the file is the initial one until somebody opens it (`Untouched`). `ReadInvariant` is its preservation, by one lemma
for the process that moves and one for those that do not (`OtherScan`, `OtherTarget`). `InsertedRowsAreRead` puts it together with
`ContentOfLastStatement`: file and buffer are header and rows, the rows have the layout of the header (`Fits`), so that record i of
the data area is row i (`RecordIsRow`).

`NoRecordIsTorn` is about a SELECT while the file changes, so `HasRead` is of no use. Its invariant `AllSeen` is a
numbering: a record that has been returned is row i of *some* statement, and was record i of the file when it was read.
A block is read at a record's beginning and behind all of those before it, so its rows have higher numbers, whoever has written
them and however often the file was emptied meanwhile. That the records of the file are rows at the places of their
numbers (`TableIsRows`) needs the layout and the lengths of names shared by all statements (`Uniform`), one writer at a time
(`ContentOfLast`), and for a file nobody has opened yet the hypothesis `OldTablesFit`: it was empty, or left by an INSERT, perhaps
one that was killed when its header was out. This is what the program itself leaves in a file; of another content,
for instance rows of two sizes, nothing could be said. The `statements` run evaluates the hypothesis (`MCTablesFit`).

The first part of `StatementsProofs` has the arithmetic both need: the length of a sequence of records is a product (`FlattenLength`, `Products`), the k-th
piece of it is the k-th record (`RowsAreLaid`), cutting off the end or appending leaves the pieces before alone
(`PieceStays`), and a block from a record's beginning has the pieces that follow (`PiecesOfPart`, `RecordsOfPart`).
Products of two variables are kept apart from all else in the steps, because the arithmetic solver is not complete for them.

**Statement handles.** From one hypothesis: `NoFile`, the null pointer a plan starts with, is not what `fopen`
returns. `FilesAreClosed` is that every open `FILE` belongs to a statement in the middle of it (`Busy`), unless one was dropped
before its end; `OwnFile` that each such statement has an open `FILE` of its own, unless somebody fetched past an end. They are
stated of `Busy` rather than of the handles that refer to a `FILE`, because a plan goes on referring to the one it has closed: with
`prepared` in its place, as in `OdbcStatement`, `FilesAreClosed` would let such a plan account for a `FILE` that was
opened in the same memory since and not closed. `IInv` is the type invariant with both. `FetchKeeps` and
`DropKeeps` are the two cases, for a call that reads and one that drops a plan. The fetch is the one that may disturb the *other*
handles: what `fopen` returns is nobody's because what the others read is open, and what a scan closes is nobody's because it was
its own before, unless its statement had ended, which `overrun` remembers. That
`OdbcStatement` implements `StatementHandles` is for TLC (`ImplementsHandles`), because its operators on plans are
recursive; the invariant of `OdbcStatement` with the name `FilesAreClosed` follows from the abstract one under the refinement
mapping.

Only model-checked: liveness (`Ends`, the fair parts of `ImplementsJoin` and `ImplementsIterator`), which is out of the
prover's reach, as is `ENABLED`. `Tuple`, `Filter`, `Join`, `Parser`, `Planner`, `Sql`, `CommandLine` and what is composed
of them (`Pipeline`, `OdbcStatement`) use RECURSIVE operators for lines, clauses, tokens and plans, which the
prover does not take, and are for TLC only.

## 6. Not modelled

* Characters of strings, numbers, names and SQL text, white space, formatting; failing `malloc`; errors
  of `read` and `write` other than a process that stops.
* Lines with more columns than a tuple has room for (`MaxCols`), sums that overflow.
* `.tdb` tables below the operators of `Pipeline` (`ScanTDB` and `Statements` have them), and two INSERTs
  at the same time into one table, which nothing in the code makes right. INSERTs in `Statements` have
  a text file or the table itself as their query; how any query is planned below INSERT is in `Pipeline`.
* Buffers of a fixed size for records: the 1024 bytes INSERT puts a record together in
  (`src/executor/statements/insert.c:16-31`) and the 500 bytes of the tuple a scan copies one to (`src/operators/scanTDB.c:66`).
  Tables may have 25 columns, and so larger records; the models have no bound and do not say what is overwritten.
* What is in memory in front of a record, where columns lie that follow one of negative length in a table whose
  lengths add up to something positive: the model has zeros there. That a char is signed and that there is no memory for a
  buffer of negative size is so in the usual builds of the program.
* A hash join whose condition has a constant on a side: the code looks for its key in front of the offsets of the tuple
  (`src/planner/operators/join.c:18`, `src/operators/hashjoin.c:45`, `:68`), which for up to ten left columns are flags that are
  zero. `Join!KeyAt` has that case only.
* What an insertion writes behind a full node of the hash map (`Overruns` ends the run there).
* The effect of `--htsize`: the option is counted and its number checked, the size of the map is a constant.
* ODBC: connections, environments, attributes and the descriptions of columns, which answer with constants
  or do nothing; the bytes in the host's buffers and whether they have room for a text; columns outside the
  arrays of the handle; counters of rows and calls, which nothing reads;
  the files that a join opens.
* `src/perf/`, `src/test/`: generators and tests, used as the reference for what is expected.

## 7. Plan

Done, in this order: hash map and its proofs, hash join, nested-loop join and proofs, tuple
buffer and proofs, TDB scan, table file and statements, the pipeline of a SELECT, then the parser,
the planner, joins, the other statements and the command line in the same pipeline, and the ODBC
statement handles.

Then proofs: the hash map against the multi-map, the hash join, the TDB scan as a `RowIterator`, the
content of the table file, what SELECTs read of it, and the files of ODBC statements, on the abstract
handles that `OdbcStatement` implements.

The set of runs is kept small: a new question takes the place of one whose answer is in section 4.
