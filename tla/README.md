# TLA+ models of minisql

minisql is a small SQL database for MVS 3.8j. It keeps everything in one VSAM KSDS:
catalog, rows, secondary indexes and the journal of the open transaction. These
modules model the parts of it where order, failure, restart and the reading of text
matter. TLC checks them on small instances, and TLAPS proves for every size what they
show about the journal and the contract it implements, the engine with its catalog, keys
and indexes, the reading of WHERE clauses, SELECT and joins, and statement input.

File names below are relative to the repository (`src/src/storage.c` is written
`storage.c`).

## The system

One process runs at a time, single-threaded, reading statements one after another.
What makes it hard is not concurrency between threads but everything that can happen
between two record operations: a crash, an operation that fails, a statement that
gives up half-way, and a later run that has to make sense of what is left. The other
difficulty is text: statements are cut up by searching for keywords in the whole text,
literals included, and rows and definitions are stored as text that is cut up again at
each read.

| Component | State | Operations | Talks to | Hard behaviour | What makes it correct |
|---|---|---|---|---|---|
| Key-value store, `storage.c` | the KSDS records `C`, `T`, `R`, `X`, `J*` | `kv_get`, `kv_put_raw`, `kv_delete_raw`, `kv_scan`, `kv_close` | VSAM | read errors look like missing records; deletes of unreadable records report success | a record operation is all or nothing |
| Transaction journal, `storage.c` | `JK`, `JT`, `JD`, `JN`, `JS` records; `g_tx_active`, `g_tx_mode`, `g_tx_seq` | `tx_begin`, `tx_log_before` (inside `kv_put`, `kv_delete`), `tx_commit`, `tx_rollback`, `tx_recover` | store below, statements above | crash or failure between any two records, repeated recovery, clears cut short | rollback and recovery restore the image the transaction began with; a commit that answered OK stays |
| Statement execution, `process.c` | the local `implicit_tx`, the answer | `execute`, `run_processor` start-up | catalog, journal, all commands | implicit transactions, failing commits, statements that fail half-way | a statement is done or not done; OK means done |
| Catalog, `catalog.c` | `C` slots, `T` records | `load_catalog`, `save_catalog`, lookups | store; read before every statement | the whole catalog is deleted and rewritten by each DDL statement; one bad definition blocks everything | every table listed once, definitions read back as written |
| Rows, indexes, references, `rows.c` | `R` and `X` records | `load_rows`, `save_rows`, `rebuild_indexes`, `delete_index_rows`, foreign-key checks | store, catalog | all rows of a table rewritten at each change; index slots are scan positions | keys unique, references not dangling, indexes agree with rows |
| INSERT, UPDATE, DELETE, `mutate.c` | - | `cmd_insert`, `cmd_update`, `cmd_delete` | rows, parser | each one checks, then rewrites; text that is not understood is often ignored or stored | keeps the invariants of rows; a statement does what it says or is refused |
| Table and index definition, `schema.c` | - | `cmd_create`, `cmd_create_index`, `cmd_drop_index`, `cmd_drop`; `.TABLES`, `.SCHEMA`, `.DESC` print | catalog, rows | DROP then CREATE of one name; several writes per statement | nothing left behind |
| Row text, `parser.c`, `rows.c` | payload of an `R` record | `parse_csv`, `clean_token`, the join in `save_rows` | every statement that reads a table | cut, cleaned and joined again on each rewrite | values come back as written |
| Definition text, `catalog.c` | payload of a `T` record | `save_catalog`, `decode_table_def` | every statement | tokens cut to 32 characters | definitions come back as written |
| WHERE, `parser.c` | - | `where_tokenize`, `parse_where`, `where_match`, `like_match` | SELECT, UPDATE, DELETE | precedence, text against numeric comparison | the rows SQL means |
| SELECT, joins, EXPLAIN, `select.c` | file-level sort settings | `cmd_select`, `cmd_select_join`, `cmd_explain`, `explain_select_join` | catalog, rows, WHERE | index path and scan path, failing reads on each, a join that reads everything twice, clauses found by searching | the rows, groups and order that were asked for, on every path; EXPLAIN tells the truth |
| Statement input and recall, `process.c` | `line`, `stmt`, `g_last_statement`, `recall_active` | `run_processor` loop, `.REPEAT`, `.CLEAR`, `.QUIT` | terminal, `execute` | half-collected statements, keys sent as characters, a display the loop is wrong about | only what was entered is run, all of it, and recall shows it |
| 3270 encoding, `terminal3270.h` | - | `term_recall_screen`, `term_input`, `term_code`, `term_address` | terminal | capacity of the field, orders inside it, erased cells | a recalled statement comes back unchanged |
| Output, `output.c`; stubs `asm/`; jobs `jcl/`, `clist/`, `tools/` | line buffer | `msql_printf`, TGET/TPUT | terminal | none for the database | - |

`PROJECT.json` lists the same components with their status, and under "hazards" the
lines at which each hard behaviour bites.

## Modules

### TxJournal: the journal, one action per record operation

State: `data` (all records a statement may write), `jk`, `jt`, `jd`, `jn`, `js` (the
journal records) persist; `active`, `seq`, `pc`, the locals of the running call
(`key`, `val`, `old`, `caller`, `i`, `upto`) do not. `pc` names the record operation
that comes next. `snap`, `held`, `torn` and `damaged` are history variables.

| Action | Code |
|---|---|
| `TxBegin`, `BeginJN` | `tx_begin`: put `JS`, put `JN` |
| `KvWrite`, `LogJK`, `LogJT`, `LogJD`, `LogJN`, `Write` | `kv_put`/`kv_delete`: `kv_get` of the old record, the four puts of `tx_log_before`, the write itself |
| `TxCommit`, `TxRollback`, `TxRecover` | the three callers of `tx_rollback_to` and `tx_clear_journal` |
| `Replay`, `ReplayDone` | the loop of `tx_rollback_to` |
| `ClearJK`, `ClearJT`, `ClearJD`, `ClearJN`, `ClearJS` | `tx_clear_journal` |
| `Abandon` | the `return 0` of a failing call: the transaction stays active, recovery ends the run with return code 8 |
| `Crash`, `Quit` | a crash anywhere; `.QUIT` or end of input with or without a transaction open |

Each operation may fail, in the ways the code turns failures into results:
`Fails` (an error comes back and the journal can still be trusted) and `Misleads` (a
read error that looks like a missing record, a delete that reports success without
deleting, a log put that leaves an incomplete entry which `g_tx_seq` counts).
`damaged` remembers the second kind. `torn` says that a clear was cut short between
the first `JK` delete and the delete of `JN`.

The keys of the records are not part of the journal's logic, so `JK` holds a key
itself and not its hexadecimal text, and `JN` a number and not its decimal text. A
record that is not there reads as 0 for `JN`, like "0". No entry is logged beyond
`MaxSeq`.

### TxContract and TxRefinement: what the journal promises

`TxContract` is a store with a visible image `vis`, the image `img` that a crash would
leave, and a phase. With `Tears = FALSE` it is the contract the repository's README
describes; with `Tears = TRUE` closing a transaction may
be cut short, after which every record holds some value it held during that
transaction. `TxRefinement` maps the journal onto the second: `vis` is `data`, `img` is
`Image` (what start-up would restore now, computed from the journal), `phase` is read
off `JS`, `g_tx_active` and the caller. The first one the journal does not implement:
a process that stops between the deletes of `tx_clear_journal`, which takes away `JK` 1,
2, ... first and `JS` last, leaves a journal that undoes a part of a transaction.

### Tables: layout and statements

Pure operators over a store, a function from record keys to contents: the catalog
(`CatalogReadable`, `Catalog`, `SaveCatalog`), rows and indexes (`LoadRows`,
`SaveRows`, `RebuildIndexes`), the checks of each statement (`InsertOk`, `DeleteOk`,
`UpdateOk`, `CreateOk`, `CreateIndexOk`, `DropOk`) and the list of logged writes it
makes in the order of the code (`InsertOps`, ...). `ScanSelect` and `IndexSelect` are
the two paths of a SELECT with one equality. C positions count from 1 here.

Simplifications. Texts are values: a row is a sequence of values, a definition a
record (the texts are in the codec modules). Names and values are upper case, as the
program stores them, so `eqi` is equality. An index key holds the whole value where
the code keeps its first 18 characters: `cmd_select` walks all keys of the index and
compares the fetched row, so the value in the key selects nothing. Rows are scanned in
the order of their slots, the key order of the KSDS; the in-memory store of a host
build keeps insertion order instead. The limit of 960 bytes per record is left out:
16 columns of 32 characters fit it.

### Engine: execute and the statements

`Execute` is the part of `execute` every statement goes through: `load_catalog`, then
the implicit `tx_begin` when no transaction is active, then the statement's checks.
An accepted statement leaves its writes in `todo`; `RunOp` performs them one by one,
each of which may fail; `Finish` commits the implicit transaction, also after an
`ERR`. `Begin`, `Commit`, `Rollback` are the user's. `Crash` and `Quit` restart the
process. The layer below is the contract (`kv` is what statements see, `base` what a
crash leaves). `Tear` is a crash inside the `tx_clear_journal` of an implicit
transaction: of its commit, after which the next start undoes the later writes only, or
of a recovery that had undone all of them, after which it sets the keys of later writes to
what they held in between (`UndoneTo`). It stands for the rest of the statement, the
crashes and the start that follows; the writes of one statement, in their order, are what
decides what it leaves. Tears of explicit transactions are in TxJournal, and so is the rest
of a ROLLBACK or commit that fails: here it fails before its first undo or delete.
Statements that
change no state are no actions: SELECT and EXPLAIN are in Select and Join, and
`.TABLES`, `.SCHEMA`, `.DESC` only print.

### Lexis: the text helpers

Pure operators for `parser.c`'s text functions: `trim`, `clean_token`, `find_i`,
`find_keyword`, `parse_csv_limit`, `where_tokenize`, `valid_name`, integers, `strcmp`.
RowCodec, Mutate, Where, Select and Join are built from them. A text is a sequence of
symbols; a symbol is a character, or a keyword wherever its letters stand, so that a
literal or a name can hold one. Texts are upper case, as `clean_token` leaves them.

### RowCodec and Mutate: values and the statements that write them

`RowCodec` follows a row from its typed fields through `parse_csv`, the join of
`save_rows`, and any number of rewrites by later statements. Values with a quote
inside are left out (`IsValue`). `Mutate` puts the three statements of `mutate.c` on top:

| Operator, action | Code |
|---|---|
| `CutInsert`, `CutUpdate`, `CutDelete` | how the text is cut at VALUES and parentheses, SET, `=` and WHERE |
| `InsertInto`, `UpdateSet`, `DeleteFrom` | the statement as it was understood, or its refusal |
| `Rewrite` | another statement on the table reads the row and writes it back |
| `Done` | the answer was read; `before` becomes the row as its user now knows it |

A statement is a record of what its user means; `Spell` makes its text, with text that
no statement should have where `before` or `extra` say so. One table with one row:
several rows, keys and references are in Tables and Engine. WHERE is one condition with
`=`. What a statement that is neither of the documented kind nor refused has stored is
not followed further (`Followed`). `before` is `NotKept` once a value of the row was lost,
and `Mixed` once such a row was changed again.

### CatalogCodec: definitions as text

Definitions through `save_catalog` and `load_catalog` over any sequence of DDL
statements, with the 32-character cut of `IX=` and `FK=` tokens. Column types are left
out there.

### Where: WHERE clauses

State: the clause (`text`), what `parse_where` makes of it (`tokens`, `pos`, `conds`,
`logic`) and the locals of `where_match` (`row`, `i`, `anyOr`, `current`).

| Action | Code |
|---|---|
| `Tokenize` | `where_tokenize` and the token limit of `parse_where` |
| `ReadCond` | one round of the loop of `parse_where`, with `parse_where_cond` and `validate_value` |
| `StartMatch`, `EvalCond`, `EndMatch` | `where_match` on one row after another, one condition at a time, with `eval_cond`, `cmp_value`, `like_match` |

A condition is kept as the position of its first token; column, operator and values are
the tokens from there on. What `atol` makes of an integer no `long` holds is chosen
once per behaviour from `Outcomes`, the C standard leaving it open.

### Select: SELECT on one table, and EXPLAIN

State: the text, the table, which columns have an index, and what `cmd_select` holds:
the parts it cut the text into, what it understood (`plan`), the rows still to look at
(`queue`) and found (`out`), the groups, the lines printed.

| Action | Code |
|---|---|
| `CutClauses`, `Start` | the search for FROM, WHERE, GROUP BY, ORDER BY, LIMIT; the checks; the scan of rows or index keys |
| `Fetch` | one row, on the index path through `load_row_slot` |
| `Fetched` | the test whether select list and GROUP BY fit |
| `GroupRow` | `add_group_row` |
| `PrintRows` | sorting, LIMIT, and the lines of rows, groups or one aggregate |
| `ExplainPath` (operator) | the same decision in `cmd_explain` |

`qsort` may put equal elements in any order. A store operation may fail where the code
can go on or give up: a read that fails loses the row on the index path, a failed
positioning is an empty scan, other errors refuse the statement. WHERE is one condition
with `=` or `<`; longer ones are Where's subject. An `int` has `IntBits` bits. AVG is
shown as sum and count; column widths and header lines are left out.

### Join: SELECT on two tables

Extends Select with `cmd_select_join` and `explain_select_join`: `CutJoin` (FROM, JOIN,
ON, WHERE, aliases), `JoinStart` (the checks, the left table), then two passes, one to
measure and one to print, each by `NestedLoop` or by `Lookup` and `FetchPair` over the
index of the right column. One of the two tables is Select's; the other has no index
and no INT column. Both may be the same table.

### Input: statement input, keys and recall

State: `stmt`, `last` (`g_last_statement`), `recalling` (`recall_active`), and what is
outside the program: `screen`, the recalled text the display really shows. `typed`,
`ran` and `latest` are history variables. One step is one pass of the loop of
`run_processor` over one input: a line, or a key (Enter, PF12, Clear; PF3 stands for
all others) with the bytes it sends.

| Action | Code |
|---|---|
| `InvalidInput`, `ShowAgain` | a screen response that cannot be read; a stray key on the recall screen |
| `Skip`, `Quit`, `Clear` | blank and stray lines, `.QUIT`, `.CLEAR` |
| `Repeat`, `RepeatNot`, `RepeatFails` | `.REPEAT` and PF12 |
| `Drop`, `Collect`, `Run` | too long; one more line; the statement is complete |
| `EndOfInput` | the input ends |

`TermInput` is `term_input` byte by byte. The keys arrive as bytes in the line, and on
an ASCII host they are the characters `'`, `@` and `_`; lines beginning with them are
among the inputs. A line is what one `fgets` returns: the first part of a longer one is
longer than any statement, and its rest is a line of its own. The symbols "blank",
"semi", "low" and "nul" stand for a blank, `;`, `_` and the byte of an erased cell. No
line or edit holds an order of the terminal, and
no typed line a byte 0 (`InputAssumption`): keys do not send them. A terminal call may
fail (`MaxFaults`), and output written after a recall screen may or may not leave its
field in place. `MaxLines` bounds the lines typed without anything having run; recalled
statements that contain buffer orders are not followed.

Definitions marked "(Slip: ...)" in the modules are wrong variants of the definition
that follows. Putting one in place of its neighbour makes a property fail; they show
that each property notices the mistake it is there for.

## Runs

| Run | Question | Bounds |
|---|---|---|
| `journal_faults` | Does the inductive invariant hold, and does an OK commit stay, when operations fail? | 2 keys, 2 writes, 1 crash, 2 failing operations anywhere |
| `refine_torn` | Do rollback and recovery restore the image whatever is interrupted, is the journal an implementation of the contract with tears, and does start-up recovery finish? | 2 keys, 2 writes, 2 crashes |
| `engine_keys` | Do catalog, PRIMARY KEY and FOREIGN KEY hold over all statement sequences, and does a statement leave other tables alone whatever is interrupted? | parent of one column and child of two, no index, 3 values, 1 statement per explicit transaction, 1 crash, 1 failing operation, 1 clear cut short |
| `engine_index` | Do index and scan agree, is nothing left behind, does a statement keep to its table? | 2 tables, up to 2 indexes each with 2 names, rows of 2 values (one row in the second table), 1 statement per explicit transaction, no crash |
| `mutate` | Which values survive being stored, and does a statement do what its text says? | 3 columns (with 2, no row in which fields have moved can be read), 1 row, `MAX_VALUE` 6, values of up to 2 of 3 characters and of 4 to 6 in the first column, fewer in the others; literals with keywords, parentheses and `=`; ten kinds of text too much |
| `catalog_keeps` | Which definitions survive? | 2 tables, 2 columns, 1 index, 1 reference, names of 1 to 3 letters, tokens of 5 |
| `where` | Is a clause read to its end, understood, and evaluated as SQL means it? | 4 conditions asked of at most 3, 15 tokens; all texts of up to 6 of 5 tokens; LIKE patterns of up to 3 symbols; integers within and beyond `long` |
| `select` | Are SELECT and joins answered as asked, on every path and with failing reads? | tables of up to 4 rows, joins of 2 times 2 rows or none, 2 failing reads, `int` of 4 bits, each subset of columns indexed |
| `input` | Does what was typed run, and nothing else; does recall work? | statements of 7 characters, a field of 6, 3 lines, 1 failing terminal call |

Two keys and two payloads are the smallest instance in which a transaction writes one
key twice around another, with every combination of existing, missing and empty
records. Two crashes let a recovery be interrupted and its successor meet what that
left. The engine runs bound only the statements of one explicit transaction; the number
of implicit ones is unbounded, so every reachable store is explored. A crash brings back
a store that the invariants were checked on already, so `engine_index` leaves it out. In
the codecs the lengths are scaled down with the limits: 16 + 1 + 16 exceeds 32 as
2 + 1 + 2 exceeds 4, and values of 4 to 6 characters lie on both sides of a limit of 6 that quotes count
against. In `where` a fourth condition exceeds the limit, and two BETWEENs put the word
AND in both of its places. In `select` three rows hold one value twice around another,
which is what grouping, sorting and an index walk can get wrong, the numbers 1 and 01
differ as texts, and LIMIT 9 and 16 wrap to a negative number and to 0. In `input` a
statement of two lines can overflow, fit the buffer but not the field, and be recalled.

Deadlock is checked except where the modelled program ends: a refused statement or
clause, an answered SELECT, the loop after `.QUIT`, and a bound that is reached.

What the runs show, beyond the questions:

- `CommitSticks` is said of fewer than four operations that mislead the journal: with
  four, a transaction whose COMMIT answered OK can be undone. Its run has two.
- `ChangesOneTable`: index names are unique per table only, and DROP INDEX takes the
  first table in the catalog that has one of that name; the other tables keep theirs,
  and no CREATE or DROP of an index changes a row.
- `PlainKeeps`, `OnlyPlainKeeps`: a value keeps if, and only if, its field, quotes and
  blanks included, fits 32 characters and it has neither comma nor outer blank. `README.md:647` says 32
  characters of any kind; in quotes it is 30. Both are said of a row until it is changed
  again after it lost a value. A value with a comma next to one that lost its closing
  quote leaves a row of as many fields as the table has columns, but of others: setting
  both anew to plain values then leaves a third, plain one wrong.
- `DoesAsAsked`: a documented statement of plain values does what it says, literals with
  keywords, parentheses and `=` included. Excepted is an UPDATE whose new value or whose
  column names are or hold the word WHERE.
- `ChangesAsMeant` lists what else may happen to other texts: a column list before VALUES
  and everything but WHERE in a DELETE are ignored, text behind the values or a second
  assignment becomes a part of a value. An UPDATE whose value holds WHERE is cut there,
  and what follows in the value becomes the condition: it is refused, stores a part of
  the value, or is answered OK and changes nothing. For column names with WHERE see
  `Understood`.
- `Understood`: UPDATE passes on what follows WHERE, and `parse_where` skips the letters
  WHERE once more. A column whose name begins with them is lost, one that is named WHERE
  and nothing else even where a blank or quotes follow it.
- `ConditionsMean`: `=` and `<>` compare texts also on INT columns, so `03` is neither
  equal to `3` nor less nor greater. Beyond `long` the order is whatever `atol` says.
- `CatalogSound`, `KeysSound`, `IndexSound` and `ChangesOneTable` are said as long as no
  record operation has failed and no clear was cut short (`Whole`). `OthersKept` needs
  neither: a statement given a catalog that lost a table, because its C record could not
  be read or because a clear was cut short, still leaves the rows of that table.
- `AnswersAsMeant`: a LIMIT that no `int` holds wraps around. Rows may then be missing, or
  the statement is refused; those printed are right, in order and no more than asked for.
- `RunsWhole`: after a line too many exactly what was typed behind it is run, but for
  lines that start nothing when nothing is left before them (`Gathered`).
- `JoinAsMeant`: `README.md:120-122` says joins support neither WHERE nor outer joins.
  WHERE works; LEFT JOIN is answered as an inner join, LEFT being taken for the alias.
  Clauses behind an ON whose right column has a name of 16 characters are ignored.
- `PrintsPart`: a join may lose rows when reads fail, and answer OK; it never makes one
  up or prints one twice.
- `PartWays`, `KeysRunNothing`: the loop resets `recall_active` at Enter whatever the
  field said, and leaves the display alone. A PF key that sends the field then is read
  as a line: all `KeysRunNothing` can say of it is that the key's own character stands in
  front, behind what was collected.

Fairness. Only `RecoveryCompletes` in `refine_torn` needs it: weak fairness of `Step` (a process that is
inside a call goes on) and of `TxRecover` (a job that stopped is run again). The
program is sequential and waits for nothing inside a call; that it is started again is
what the README's "recovered on the next run" supposes. Statements, crashes, keys and
`.QUIT` are never forced.

### Disagreements with the documentation

Each of these runs checks one sentence of the repository's README, of a comment or of a
message of the program and ends in a
counterexample; `PROJECT.json` quotes the sentence under "findings".

- `journal_failed_log`: `ROLLBACK` "restores the prior state". `g_tx_seq` counts an
  entry whose `JD` put failed, and replaying it blanks a record that was not written.
- `engine_half_done`: a statement "either finishes with its journal cleared or can be
  recovered". One that answers `ERR` half-way is committed as far as it got.
- `catalog_long_names`: "Table, column, and index names may have at most 16
  characters". An index name and a column name of 16 each do not fit their token,
  and no later statement can read the catalog.

The models show more such disagreements, which have no run of their own:

- The sentence of `engine_half_done` does not hold either of a `CREATE TABLE` whose commit
  is cut short while it clears the journal (`Tear`): it is undone in part, the catalog lists
  the table, its definition is gone, and no statement can run (`storage.c:314`).
- Nor does it after an implicit commit that failed (`Finish`): the next statements join the
  open transaction and answer OK, and a crash undoes them (`process.c:181`).
- `README.md:622-623`: `INT` supports "numeric comparison" in `<`, `>`, `<=`, `>=` and
  `BETWEEN`. Integers of up to 32 digits are stored, and compared by `atol` (`parser.c:287`).
- `README.md:667`: "`LIMIT n` limits row or group output". A large `n` wraps around
  (`select.c:347`).
- `process.c:210`: "END STATEMENTS WITH ;". The rest of a line or statement too long runs as
  a statement of its own (`process.c:309`).
- `process.c:241`: "Other PF keys must never execute the recalled SQL." Enter on the recalled
  statement without its semicolon collects it and leaves the field up; with the semicolon
  put back, PF3 sends the field and runs it all, its own bytes in front (`process.c:229`).

## Proofs

Eight modules hold the theorems. Together they state every property of the passing runs
except the few named at the end of this section.

| Module | Theorems (property of the runs) |
|---|---|
| `TxJournalProofs` | `TypeCorrect` (`TypeOK`), `JournalCorrect` (`JournalInv`), `RollbackCorrect` (`RollbackRestores`), `CrashCorrect` (`CrashRestores`), `HeldCorrect` (`OnlyHeldValues`), `ReplayIdempotent` (`OnlyClearMovesImage`), `CommitIsFinal` (`CommitSticks`), `ImplementsCorrect` (`ImplementsTornContract`) |
| `EngineProofs` | `EngineTypes` (`TypeOK`), `CatalogStaysSound` (`CatalogSound`), `KeysStaySound` (`KeysSound`), `IndexesStaySound` (`IndexSound`), `OneTableChanges` (`ChangesOneTable`) |
| `CatalogCodecProofs` | `CatalogCorrect` (`CatalogKeeps`) |
| `LexisProofs` | lemmas: what the text helpers return; the tokens of a text |
| `WhereProofs` | `TypeCorrect` (`TypeOK`), `CoversCorrect` (`Covers`), `UnderstoodCorrect` (`Understood`), `ConditionsCorrect` (`ConditionsMean`), `LikeIs` |
| `MutateProofs` | `DoesCorrect` (`DoesAsAsked`), `PlainKeepsCorrect` (`PlainKeeps`) |
| `JoinProofs` | one table: `TypeCorrect` (`TypeOK`), `GroupsCorrect` (`GroupsPartition`), `FoundCorrect` (`FoundInOrder`), `ExplainCorrect` (`ExplainAgrees`); joins: `JoinPrints` (`PrintsPart`), `SelectBesideJoin` (Select's invariants in Join), `JoinExplains` (`JoinExplained` for joins without WHERE) |
| `InputProofs` | `TypeCorrect` (`TypeOK`), `RunsWholeCorrect`, `RecallsLastCorrect`, `RecalledRunsCorrect`, `KeysRunNothingCorrect`, `TypedRunsCorrect`, `PartWaysCorrect` (the properties of those names) |

### The journal

For every set of keys and values, every number of logged writes, crashes and failures,
and every choice of failing operations. The assumptions about constants: the empty
payload is a payload, "no record" is neither a payload nor a key, the bounds are natural
numbers.

The safety properties are not inductive. `CrashRestores` speaks of the first entry
of each key; a step that undoes entry `i` keeps it only if the entries beyond `JN` are
not live and if what was already undone matches. `JournalInv` adds what is missing:
`ControlInv` (which calls are open at which step), `CountInv` (`JN` never counts more
than was logged, and counts nothing once `JS` is gone), `StaleInv` (no live entry
between `JN` and `g_tx_seq`, nor behind a clear), `EntryInv` (the entry being logged
describes the record as it still is) and `UndoInv` (the first live entry of each key
holds its value in `snap`, keys no entry covers are as in `snap`, and during a replay
what lies above the loop index is undone). All but `ControlInv` are conditional on
`damaged = 0`, `UndoInv` also on `torn = 0`: a failed operation that misled the journal
really breaks them, as `journal_failed_log` shows. The proof takes one lemma per
conjunct and in it one step per action. `CrashCorrect` then needs only that a nonempty
set of entries has a smallest one, `RollbackCorrect` is `UndoInv` at the end of the
replay. TLC checks `JournalInv` as an invariant of `journal_faults`.

`HeldCorrect` covers what the two leave open, clears that were cut short (`torn > 0`).
There `UndoInv` is lost, and `HeldInv` takes its place: the old value of every live entry
that `JN` counts is a value its key held since the image was taken. Tearing an entry out
of the journal makes nothing new of the others, and the entry that `LogJN` makes count
is, by `EntryInv`, the value the record has at that moment.

`ReplayIdempotent` says that recovery may be repeated: `Image`, what start-up would
restore now, is moved by nothing but the delete of a `JK` record. All other steps keep
the first entry of each key that counts, and the records no entry covers (`ImageStays`,
`StoreKeepsImage`); it needs `JournalInv`, for a write is harmless only because the
record's old value was logged. `CommitIsFinal` rests on `CommitInv`, which counts
failures: an entry that is still live behind the clear loop has outlived the deletes of
its `JK` and its `JT`, that makes two, and one that `JN` still counts at the delete of
`JS` makes three. The fourth would be the delete of `JS`.

`ImplementsCorrect` is the refinement: the initial states map to initial states, and
every step of the journal to a step of `TxContract` with tears or to a stutter, step by
step over the actions (`StepRefines`), with `HeldInv` for the steps that tear. It is
stated for `MaxFaults = 0`. Where a put of `tx_begin` fails behind `JS`, `JS` is ACTIVE
while no transaction is, and a `TxBegin` from there has no counterpart in the contract,
which is about crashes. `QuietInv` is what holds of
`JS` and the callers while nothing fails.

### The engine

`EngineProofs` is about every set of table definitions, names, values, bounds and
numbers of statements and crashes. `TableDefs` may be any definitions of the form that
`struct TableDef` has; `cmd_create`'s checks are in the model.

The invariant, `EngineInv`, is that the store is a layout: `Holds(s, T, R)` says that a
list `T` of tables, together with rows `R` for each, is a database whose definitions fit
each other and in which keys and references hold, and that the store consists of exactly
its records with exactly their contents, `C`, `T`, `R` and `X`. `CatalogSound`,
`KeysSound` and `IndexSound` all follow from it (`LayoutSound`, `LayoutKeys`,
`LayoutSelects`: the index walk and the scan print the same rows since the `X` records of
an index name each row once). Between statements `kv` and `base` are such layouts. Inside
a statement the writes still to be made, `todo`, lead from `kv` to one (`Leads`,
`LeadsToOne`), so that each `RunOp` only shortens the way.

That each statement's list of writes leads from one layout to another is the bulk of the
proof; its first half is about the operators of Tables and what they do to a store. Lists of
writes are put together from blocks, all deletes or all puts of a set of keys
(`DeletesLead`, `PutsLead`), blocks of blocks (`FlattenLeads`), and from those what
`delete_index_rows`, `rebuild_indexes`, `save_rows` and `save_catalog` do to a store
(`RebuildLeads`, `IndexWritesLead`, `SaveRowsLead`, `SaveCatalogLeads`); then `InsertDone`, `DeleteDone`,
`UpdateDone`, `CreateDone`, `CreateIndexDone`, `DropIndexDone`, `DropTableDone` say which
database each statement arrives at.

The properties themselves say `Whole`: no record operation has failed and no crash has cut
a clear short, however many of these the bounds allow. Afterwards they need not hold:
`execute` commits what a failed statement did, and a clear cut short undoes a part of one,
as `engine_half_done` shows. `EngineTypes` is stated under the same condition; TLC checks
`TypeOK` without it.

### Rows and the statements that write them

For every table, number of columns, limit, and every set of statements whose values have
no quote and whose fields are the value, bare or in quotes, a blank before it or not
(`NamesAssumption`, `AskedAssumption`; names are those `valid_name` accepts). Two facts
about texts carry the proof. `FieldsJoin`: a text joined of fields without commas and
with an even number of quotes in each is split by `parse_csv` at the joins. And what
`Said` takes from a text: `Spell` is written as first words, a middle and last words, each
cut is shown to fall where the middle begins or ends (`FindIIs`), whatever the literals in
it hold, and the clause behind WHERE comes apart in three tokens (`CondIs`); `SaidInsert`,
`SaidUpdate` and `SaidDelete` are the results.

`PlainKeeps` is not inductive. That a row is stored as the join of what was wanted
(`KeptRow`) is kept by an UPDATE only if it was so before, and then the other columns must
have been plain before, too: an UPDATE can make a row plain that was not. So `RowInv` also
says what the user knows: `KnownRow`, that `before` is what was wanted as long as all
values were plain, and `LostRow`, that after a value was lost not all are plain.
`DoesAsAsked` follows, statement by statement, from `RowInv` before it. `SaidUpdate` is
where its exceptions, `HidesWhere` and `NamesWhere`, come from: the first WHERE behind SET
must be the one that was meant.

### Definitions as text

For all names over letters that are not a colon, all lengths and limits, and every
sequence of CREATE and DROP statements. `CatalogKeeps` says nothing of a table while some
other table does not fit, and yet statements go on rewriting the whole catalog as long as
it can be read; so it is not inductive. `CodecInv` says that each text in the catalog is
the writing of some definition that `Agrees` with the one asked for: names, columns and
the tables referred to are the same, and where column names are distinct so are the
primary key and every index and reference whose own token fits. The proof goes through
the tokens: a cut token that still has its colons comes apart at the same places
(`PartsAre`, `CutParts`, `CutThree`), so what is read back is a definition again
(`Recoded`), agreement is kept by reading and writing once more (`AgreesOn`), and a
definition that fits and agrees is the one asked for (`AgreesWhole`). `Reads` and `Saves`
lift this to the list of tables, and each statement does the same to the list read and to
the list asked for.

### SELECT and joins

For every table, statement text, set of indexes, width of `int` and choice of failing
reads. `GroupsInv`: `groups` are empty until grouping starts, and then partition rows 1
to `r - 1`. `FoundInv`: what was found are rows that match, in the order of
their slots; what is still in `queue` and matches comes after them, also on the index
path (`IndexOrderIs`, `EqualityHits`: entries of one value are in the order of slots);
and without a failed read every row that matches is in one of the two.

`JoinInv` adds the pairs: `Joins` relates what was printed to `Reached`, the pairs the
loops have come past, and `QueueAscends` says that the lookups of one left row are in
the order in which the right table is read. `Lists(of, t, T)` says that the sequence `t`
lists the members of `T`, each once and in order; what a pass prints is put together from
the lists of its rows. `JoinExplains` is about joins without WHERE. With WHERE
EXPLAIN takes the clause for a part of the right column's name, which it cuts at 16
characters; whether that is another name depends on the texts, and stays with TLC.

### WHERE

For every text, table, row and limit. `Covers` is strengthened by `ReadInv`: between two
rounds of `parse_where` there are as many connectives as conditions, and `pos` is one
behind the last connective. What `ConditionsMean` says of the connectives (`OrOfAndsIs`)
rests on `LoopInv`: `current` says that
the run of ANDs that condition `i - 1` is in holds so far, `anyOr` that some earlier run
that an OR closed holds. What a condition means plays no part, so the result is about any
conditions.

What they mean is `ConditionsCorrect`. `MeansInv` says that the conditions kept are ones
`parse_where_cond` accepted, so that the values compared on an INT column are integers;
that their tokens are texts goes through `where_tokenize` (`TokenIs`, `TokensText`), from
the texts a statement may hold (`AskedText`). That `atol` returns an integer is a fold
over the digits (`MagnitudeIs`), and that `strcmp` tells texts apart as soon as they
differ is `NeitherLess`. For LIKE, `Left(v, pat, x, y)` says that the text from `x` on can
be cut as the pattern from `y` on asks; one step of `like_match` returns that if its
recursive calls do (`LikeStepIs`), a run of `%` being like one (`PercentRun`). Assumed of
the constants: rows hold what `validate_value` lets in (`mutate.c:48`, `mutate.c:222`),
integers on INT columns, and texts over the characters `CharCodes` orders on the others.

`UnderstoodCorrect` is about what the parser reads against what was asked, for every
question and each of its spellings: names that `valid_name` accepts, the nine operators,
values without quotes that fit a token (`AskedAssumption`; a token has room for an
operator of two symbols). `Reads(w, ts, F)` says that the tokens of
`w`, followed by any text of `F`, are `ts` and then the tokens of that text. It is shown for a name before an operator or a blank, an operator, a bare or a
quoted value, then for a condition (`ReadsCond`) and by least counterexample for all of
them (`ReadsAll`), with `Start(a, k)`, the token condition `k` begins at: four tokens for
each condition before it and two more for each BETWEEN. `SaysInv` is the invariant: the
tokens are those that were asked, the conditions read so far start where these do, the
connectives are theirs, and when the clause was refused, it did not fit.

### Input

For every set of lines and edits, every sequence of inputs, every capacity of the field
and of the statement (with room for a recalled statement in the buffer, `RecallFits`, and
edits that fit their field, `EditsFit`). `InputInv` has four parts: `TypedInv` (sizes and
types), `ScreenInv` (recall is only active with nothing collected and a statement that
fits the field), `RecallInv` (`last` is the text of the last statement that ran, starts
and ends with no blank, holds a `;`, and an erased cell only beside an order) and
`StmtInv` (`stmt` is what was gathered of the lines typed since the last statement ended,
`Gathered`, unless one of them was a key or typed against the loop's idea of the display). `FieldRead`
follows `term_input` through the bytes of a field: an address, the text, erased cells
read as blanks. `TrimIs` says from where to where a trimmed text goes; the
lines a statement was typed as and the text that `run_processor` collected are compared
through it. The five action properties then go through what the loop can do with one
input (`NextIs`, `PassIs`).

### How induction is done

Facts about recursive functions (`like_match`, `Gathered`, `TermInput`, tokens, flattening,
walking a table) are proved by least counterexample: the set of sizes at which the fact
fails, if not empty, has a smallest member (`NatLessThanWellFounded`, `WFMin`), and the step before it yields
a contradiction. That takes a set where the library's induction theorems take an
operator, which no installed prover can instantiate. That a recursive function exists at
all is shown the same way. No module uses recursive operators.

### Only model-checked

- `RecoveryCompletes`: liveness under fairness is out of the prover's reach.
- `OthersKept` (Engine): its proof would need an invariant of stores that are no layouts.
- `OnlyPlainKeeps` (Mutate): that a value that is not plain never comes back, which is
  about rows whose fields moved or that nobody can read any more.
- `ChangesAsMeant` (Mutate): what becomes of texts that are not as documented.
- `AnswersAsMeant`, `JoinAsMeant`: the text of a statement against what its user meant,
  through all clauses; the rows, groups and printed pairs in them are proved, the cutting
  of the text is not.
- `JoinExplained` for joins with WHERE, as above.

## Not modelled

- The VSAM calls and what one failing write leaves of a single record; running out of
  memory.
- Limits far from any instance: a million row slots per table (`MAX_ROW_SLOTS` is read
  by no code), sums of SUM and AVG beyond `long`.
- Output: column widths and headers, `.HELP`, `.VERSION`, `.TABLES`, `.SCHEMA`,
  `.DESC`, TGET/TPUT buffering; the two bytes of a 3270 buffer address and the
  attribute bytes of the screen.
- The parsing of the column list of CREATE TABLE; Tables takes the definition it
  yields.
- The assembler stubs, entry points, jobs and deployment, which hold no logic of the
  program. Another program that writes the same KSDS is excluded: the jobs allocate it
  with `DISP=OLD`.

## Plan

Done: TxJournal, TxContract, TxRefinement; Tables and Engine for all mutating statements;
RowCodec, Mutate, CatalogCodec; Where; Select and Join; Input; and the proofs listed
above. Next, in this order:

1. Proofs: `AnswersAsMeant` for single tables, from the cuts of its text as in
   `MutateProofs`; `OnlyPlainKeeps`.
2. Engine: a proof of `OthersKept`; tears of explicit transactions, over `TxContract`.
3. The parsing of CREATE TABLE on top of Lexis, joined with CatalogCodec.
