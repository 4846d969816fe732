# dpmcore in TLA+

TLA+ models of [dpmcore](../src/README.md), the library and command line that
keep, query and validate a Data Point Model (DPM) database. The models say what
the parts of dpmcore that change persistent state, or compute an order or a
set everything else relies on, do at each step; TLC checks them on small
instances, and TLAPS proves the safety properties for instances of any size.

## The system

| component | source (under `src/src/dpmcore/`) | state it keeps | operations | status |
|---|---|---|---|---|
| SQLite update | `services/database_update.py` | target, temporary and backup file; the engine's open file | `update`, `_update_sqlite`, `_replace_sqlite_file`, `_restore_sqlite_backup` | modelled: `SqliteUpdate`, `ActiveDatabase` |
| Staged update | `services/database_update.py` | active, staging and backup schema; table locks of a transaction | `_update_staged_database`, `_check_swap_locks`, `_swap_staging_to_active`, `_safe_drop_schema` | modelled: `StagedUpdate` |
| Calculation ordering | `services/calculations_export/visitors.py` | dependencies, indegrees, queue, order of the statements | `DAGAnalyzer.create_dag` | modelled but for the resolution of selections: `CalcDag` |
| Migration loader | `loaders/migration.py` | tables of the database it fills | `migrate_from_csv_dir`, `migrate_from_access` | as steps of the update modules |
| CSV export | `services/export_csv.py` | output, temporary and backup directory; a pool of threads | `export`, `export_safely` | modelled: `ExportCsv` |
| ECB validations import | `services/ecb_validations_import.py` | operations, versions, references and scopes in the reserved ID block; a cache of preconditions; one transaction | `import_csv`, `_import_ecb_validations_df`, `_verify_persisted` | modelled: `EcbImport`; one step of the update modules |
| Release windows | `orm/release_sort_order.py`, `dpm_xl/utils/filters.py` | none (pure) | `compute_sort_order`, `release_ids_for_sort_order`, `filter_by_release`, ... | modelled: `ReleaseWindow` |
| Module versions and ghosts | `dpm_xl/model_queries.py`, `services/ast_generator.py`, `cli/main.py` | the module versions of the dictionary; a sweep's targets and results | `ghost_fallbacks`, `list_module_versions`, `_resolve_explicit_release`, `_discover_module_validations`, `build_scope_result_from_db`, `export-script --all-modules` | modelled but for the severity, dates and gate of an operation: `GhostFallback` |
| Operation scopes | `dpm_xl/utils/scopes_calculator.py`, `services/scope_calculator.py` | scopes and their compositions | `calculate_operation_scope`, `calculate_from_expression` | modelled by table codes: `OperationScope` |
| Preconditions, script fixups | `services/_precondition_codes.py`, `services/script_fixups.py` | none (pure) | `required_precondition_codes`, `fix_operation_ast` | not modelled |
| DPM-XL front end | `dpm_xl/` | AST, operand tables, thread-local warning collector | parse, check operands, type | not modelled |
| Server, command line, connections, document exports, ORM | `server/`, `cli/`, `connection.py`, ... | a session per request or connection | routing, queries, formatting | not modelled |

How they interact. `dpmcore update` (`cli/main.py`) calls
`DatabaseUpdateService.update`, which turns an Access file into a directory of
CSV files with the CSV export, then loads the directory into a staging area with
the migration loader, adds the ECB validations with the ECB import, and swaps
the staging area with the active database. Everything else only reads the
active database. The ECB import asks the scope calculator for the scopes of each
validation, which asks the release windows which module versions exist in a
release. The calculations export orders the statements of a script with
`DAGAnalyzer` before anything is generated from them.

What is hard. Nothing in dpmcore coordinates two processes: two updates of the
same target interleave freely, and their readers do not know of them. An update
is a sequence of steps each of which can raise, be interrupted or be the last
one; four handlers and two `finally` clauses undo what was done. Names of
temporary things are taken from a clock. What is listed before a transaction is
used in it. The algorithms must hold on every graph, not on the ones in the
tests. The list of hazards, each at its line and with the properties that would
catch it, is `hazards` in `PROJECT.json`.

What makes each part correct:

- *Update*: the old database is never lost; a run's report is true; readers see
  complete databases only; runs end, and leave nothing behind.
- *Calculation ordering*: a permutation in which producers precede consumers, or
  an error that is deserved and names the right statements; what is exported means the
  same in every such order.
- *CSV export*: the output directory is always a complete export, and the old one
  after a failure; no thread outlives its run.
- *ECB import*: the IDs of a first import are consecutive from the start of the block and
  in the order of the codes, however large the rest of the tables; a second import of a
  file adds nothing, also when the first was reported as a failure because its reply was
  lost; a version's gate is that of its row; and success is not reported for nothing.
- *Release windows*: the filters agree with each other, at the perpetual releases
  too.
- *Ghosts*: at a release one version stands for a module; the answers per release
  and per version agree; what holds for a ghost is read through its stand-in.
- *Scopes*: every scope can evaluate its operation, names versions that are
  exported, and none is wrapped around a version that suffices alone.

## Modules

| module | what it is | runs |
|---|---|---|
| `ActiveDatabase` | abstract specification: what an update promises the readers of a database | through `SqliteUpdate!PromiseKept` |
| `SqliteUpdate` | `_update_sqlite` by any number of processes on one target | `sqlite_*` |
| `MCSqliteUpdate` | settings and symmetry for TLC | |
| `SqliteUpdateProofs` | TLAPS proofs about `SqliteUpdate` | |
| `StagedUpdate` | `_update_staged_database` by any number of processes, with readers | `staged_*` |
| `MCStagedUpdate` | tables, sources and settings for TLC | |
| `StagedUpdateProofs` | TLAPS proofs about `StagedUpdate` | |
| `CalcDag` | `DAGAnalyzer.create_dag` | `calc_dag` |
| `MCCalcDag` | the scripts TLC considers | |
| `CalcDagProofs` | TLAPS proofs about `CalcDag` | |
| `ExportCsv` | `export_safely` by any number of processes, and the threads of `export` | `export_*` |
| `MCExportCsv` | Access files and their tables for TLC | |
| `ExportCsvProofs` | TLAPS proofs about `ExportCsv` | |
| `ReleaseWindow` | the order of the releases and the predicates on windows, as operators | through the next ones |
| `GhostFallback` | which version stands for a module, and the sweep of an export; extends `ReleaseWindow` | through `OperationScope` |
| `OperationScope` | the scopes of an operation; extends `GhostFallback`, whose fallback it has to agree with | `operation_scope`, `perpetual_start` |
| `MCOperationScope` | releases, dictionaries and queries for TLC | |
| `EcbImport` | `import_csv` any number of times into one database; extends `ReleaseWindow` | `ecb_import` |
| `MCEcbImport` | files and databases for TLC | |
| `ReleaseWindowProofs`, `GhostFallbackProofs`, `OperationScopeProofs`, `EcbImportProofs` | TLAPS proofs about these | |

`PROJECT.json` maps every definition that models code to its lines. Definitions
introduced by a comment *Variant:* are not part of the model: each is a
plausible bug, used to see that a property can fail.

### SqliteUpdate

A directory entry (`target`, `temp[t]`, `backup[t]`) is a file or `None`, `data`
gives the content of each file and `handle[p]` the file a process's engine has
open; a rename moves a file and open handles go with it. The content of a file
is the set of batches of rows written to it since its tables were created: the
CSV rows and the ECB rows of a source. `Valid` sources are those for which
`_validate_required_content` is satisfied. Each action is one step of
`_update_sqlite` that touches the file system or a database:

| action | code |
|---|---|
| `Begin` | the names, taken from the clock |
| `Load`, `Fill` | connect to the temporary file, drop and create all tables, append the rows (`MigrationService`) |
| `Check1`, `ImportEcb`, `Check2` | count and exact validation, ECB import, validation, `engine.dispose()`, return of a dry run |
| `BackUp`, `Install` | the two renames of `_replace_sqlite_file` |
| `Verify`, `DropBackup` | validation of the live file, deletion of the backup, return |
| `Restore` | `_restore_sqlite_backup`, an unlink and a rename, called by `_replace_sqlite_file` (`in...`) and by the outer handlers (`out...`) |
| `Cleanup` | the outer `finally` |
| `Raise`, `Interrupt`, `Crash` | an exception at a step that does input or output, caught where the code catches it; a `BaseException`, which only `finally` sees; the death of the process |

`origin[p]` is a history variable: what the target contained when p's run
started.

Abstractions. Reading the clock and finding the target are one step. A load is
two steps, so that another process may come in between; the validations read
a file in one step. The ECB import is one transaction. A failed load leaves the
rows it wrote or none of them. The code keeps no lock on its file between
statements, and SQLite's own locks last for a statement; neither is modelled.

### StagedUpdate

`active` and, for each second, `staging` and `backup` map table names to rows
(the set of sources whose rows were appended) or to `None`. Every operation of
the database is what PostgreSQL does: DDL is transactional, a moved table is
locked until the transaction ends, a reader's transaction keeps a shared lock on
what it has read, the catalog is read as committed. `MoveOut` moves one table of
the active schema and takes its lock, `LockTimeout` is the `lock_timeout`,
`Commit` moves the staging tables in, validates and commits, `RollBack` is
taken when one of these fails. A transaction's effect becomes visible with
`Commit`, so what it has moved so far is only a counter (`moved`) that says which
locks it holds. `ReplyLost` is a commit whose reply is lost, `DropFails` a drop
whose error `_safe_drop_schema` swallows. The locks a commit takes on staging
tables are left out: nobody else uses them. So are sequences and constraints.

`kept[t]` is a history variable: what the swap of the run of second `t` has replaced,
if that run was to keep its schemas (`Replaced`: the tables of the ORM, and the others
that the swap changes or takes away; one that another update has committed since the
tables were listed stays where it is, which is finding 3). `KeptIsComplete` says that
the backup schema has it all, from the swap on and for ever.

### CalcDag

A script is a sequence of statements, each a set of cells it reads and a set of
cells it writes, which is what `visit_Start` records. `Pop` is a round of Kahn's
algorithm, `StartWalk`, `Walk` and `Name` are `_cycle_edge`, `Finish` the
overwrite check and the reordering. The dictionary of `_cycle_edge` keeps the
last edge it sees for each statement; which one that is depends on the order in
which a statement reads its cells, which the model leaves out, so any producer
may be kept. The queue is in script order within a round; in the code it is in
the order of the edges, which for one producer is the order of the readers, the
same. A script means what it computes: `Finds` is the statement whose value another one
reads in an order, `Leaves` the one whose value is left at the end, and `Admissible` are
the orders that respect the reads. `ResultsAreDetermined` compares the exported order
with all of them. `operation_codes` and the texts of errors are left out. `InOrder` writes "in script order" as the
set of the sequences that are; there is one.

### ExportCsv

`out`, `temp[r]` and `backup[r]` are the files of the output directory and of the
two directories of run `r`, or `None`; a file is a table of an Access file. A
rename is one step and on POSIX succeeds over an empty directory (`Replaceable`),
a deletion takes a file at a time (`Shrunk`). `task[p]` is the state of every
table in p's pool.

| action | code |
|---|---|
| `Begin` | the names of the temporary directory and the backup |
| `Submit`, `StartTask`, `EndTask` | list the tables, submit them; a thread takes one, and writes its file |
| `Collect`, `Collected`, `Join` | `as_completed`, the return of `export`, the wait at the end of the `with` block |
| `Look`, `MoveOut`, `MoveIn`, `DropBackup` | is there an output directory; the two renames; the deletion of the backup and the return |
| `Restore` | `_restore_backup`, a check and a rename, by the inner handler (`in...`) and the outer ones (`out...`) |
| `Cleanup` | the outer `finally` |
| `FailTask`, `Raise`, `RaiseDrop`, `IgnoreCleanup` | a table, a rename or a deletion fails; the last is ignored |
| `Interrupt`, `Crash` | a `BaseException`: in the pool the `with` block waits for the threads first, and a second one ends that wait; the death of the process |

Abstractions. A file is written in one step, and a table that fails counts as
missing. The pool hands out tables in any order. A run starts in a second of its
own, so no two share a backup's name. Directories above the output directory,
and an output path that is a file, are left out.

### ReleaseWindow

No state: operators over a table of releases (`ReleaseId`, `ReleaseDate`,
`ReleaseType`), with the name of what they model. `UpTo`, `After`, `From` and
`Before` are the four bounds of `release_ids_for_sort_order`, `InWindow` the
predicate that `filter_by_release` puts on two columns, `Perpetual` the
undated and playground releases, which share a place after every date. A start
that is NULL is not considered; the filters do not agree on it.

### GhostFallback

`version` is the table of module versions, with the tables and indicators of
each (`hosts`); it does not change. A version whose reference dates are a single
day is a ghost. `IsDictionary` is what the code takes for granted: versions of
one module do not overlap. The first half of the module is the fallback per
release (`GhostFallbacks`, `ListModuleVersions`), the second the walk along the
ghosts that follow a version (`SiblingsPastEnd`, `Chain`, `GhostsRepresentedBy`,
`EffectiveEnd`); the code has the two in different files, and they must agree.
`sweep` is the export of all modules: `Sweep` lists its targets, `ScriptForModule`
writes or refuses one of them. `LatestReleaseInWindow` is the release of a
version that is exported without one. `DiscoverModuleValidations` takes the
persisted scopes, each for a version of an operation, with its window and the
module versions it names, and gives those that are read for a version at a
release: fetched through the version or the chain of its ghosts, overlapping it or
the ghost that covers the release, not shared with dead ends only
(`PhantomPaired`), and not outranked by a newer version of the operation.
`BuildScopeResultFromDb` reads the scopes of an operation again when its script is
written, and puts for each ghost the version that stands for it. A walk is written
without recursion: the i-th sibling is `Met` if the ghosts before it reach it.

### OperationScope

`Info` is the data frame of module versions and what they have, resolved with the
fallback for each set of codes; `Scopes` is the body of
`calculate_operation_scope`: the versions that suffice alone, and `ProcessCross` on
one or two `Pools`. A scope is a set of versions, so the same scope emitted
twice counts once. `CalculateFromExpression` adds the gate: `WithGate` refuses
unhosted tables, calculates with all operands, and attributes an error to the
expression or to the gate. `result` is the last calculation. The tables
and items of an expression are inputs, and so is whether it parses.

### EcbImport

`db` is what is committed, `imp.work` what the session of the running import sees,
`imp.made` the rows it has counted. `whole` is a history variable: the files
that were committed without a loss, also those whose import was then reported as a
failure, because the reply was lost or the check had no answer.

| action | code |
|---|---|
| `Start`, `Organisation`, `CheckFloors`, `Operations` | the file is read; the ECB's organisation; the margin of the ID block and the counters; the operations and their groups |
| `SkipRow`, `TakeRow` | a row without a release or seen before; the precondition, with its cache, and the version, or one that is there |
| `References`, `Scope`, `EndRow` | the tables of the expression; the scopes at one release |
| `Commit`, `Verify` | the commit, and the check with a session of its own |
| `LoseTransaction` | a swallowed database error: the session goes on in a new transaction |
| `LoseReply`, `Fail`, `FailToVerify` | a commit whose reply is lost; any other error, or the death of the process |

Abstractions. A row is a code, two releases, a gate and a text; what the parser
and the scope calculation make of a text is an input (`Tables`, `ScopesOf`), so a
code that is taken for its own parent is not. A query that expects one row (`one_or_none`) and
finds two raises (`AtMostOne`); `MCEcbImport` has a database for each such query. A file
without rows goes from the operations to the commit. IDs of nodes are handed out as the
code does; operand references follow nodes one to one and are left out, and so
are concepts, GUIDs, warnings and compositions. The database enforces foreign
keys; on one that does not, such as SQLite without the pragma, no connection is
lost and none dangles. That SQLAlchemy silently begins a new transaction is
taken from the docstring of `_verify_persisted`.

## Runs

| run | instance | states | shows |
|---|---|---|---|
| `sqlite_one` | 1 updater, 2 runs, 3 sources (1 invalid), 4 settings, 2 faults of any kind | 413 515 | `OriginalRecoverable`, `ReturnIsTruthful`, `ActiveIsWhole`, `NoLitter`, `DatabaseComesBack`, `PromiseKept` |
| `sqlite_race` | 2 updaters, 2 runs, 2 sources, 2 faults of any kind | 364 101 | `LiveNotBeingWritten`, `TwoRunsLeaveOne`, `QuietIsWhole` |
| `sqlite_lost` | 2 updaters, 3 runs, no fault | violation | finding 1 |
| `sqlite_fresh` | 1 updater, 1 run, 1 error | violation | finding 2 |
| `staged_race` | 2 updaters, 1 reader, 3 tables, 3 sources, 3 settings, 1 fault of any kind | 519 419 | `ReadersSeeOneLoad`, `NoSchemaLeft`, `KeptIsComplete`, `ActiveChangesWhole`, `EveryRunEnds` |
| `staged_stale` | 2 updaters, no fault | violation | finding 3 |
| `export_one` | 1 exporter, 2 runs, files with 0, 1 and 3 tables, 2 threads, 2 faults of any kind | 61 900 | `ReturnIsTruthful`, `OutputComesBack`, `EveryRunEnds` |
| `export_race` | 2 exporters, 2 runs, files with 1 and 2 tables, 2 threads, 2 faults of any kind but `remove` | 664 800 | `OutIsWhole`, `ExportSurvives`, `NoLitter` |
| `operation_scope` | one module with up to 4 versions, ghosts and gaps, in every order of 5 releases (2 of them perpetual, ids not by date); 2 or 3 modules with 3 tables and an indicator, 6 queries | 182 452 | `OneVersionPerModule`, `SweepLeavesNoneOut`, `ValidationsAreRead`, `ScopesSupplyEveryOperand`, `ScopesNameTargets`, `SelfSufficientStandsAlone` |
| `perpetual_start` | the dictionaries of one module | violation | finding 4 |
| `ecb_import` | an empty file and 3 of 2 or 3 rows, 13 databases, 3 imports, a fault at any step | 18 581 | `OkMeansPersisted`, `IdsDoNotDrift`, `GateIsRowsOwn`, `RepeatAddsNothing` |
| `calc_dag` | every graph of 4 statements with a cell of their own; every script of 3 statements and 2 shared cells | 545 924 | `KahnInv`, `OrderRespectsReads`, `NamedAreOnCycle`, `ResultsAreDetermined`, `Decides` |

Bounds. `MaxClock` bounds the number of seconds in which runs start, so the
number of runs; two are enough for a run to meet what an earlier or a
concurrent run left, and what three may do together is finding 1 for SQLite and
proved for the others. `MaxFaults` = 2 lets a restore fail after the step that
made it necessary, which is the deepest nesting of handlers in the code; one
fault suffices in `StagedUpdate`, whose single handler is `finally`. The number of
files is the number of names in use at once plus a fresh one. `Files` symmetry is
used in `sqlite_race` only, which checks invariants only. Three of the four
statements of the `calc_dag` graphs do not read what they write; the first may,
which is the self-edge the code leaves out.

In `operation_scope` four versions of a module let a ghost follow a ghost with a
genuine version on each side; two modules with a transition give a scope for each
generation, the third a partner for the table that neither has. The dictionaries
and rows of windows are enumerated, so a sweep is a few steps deep. In `ecb_import`
three imports are the least for a file, another one, and the first again. A
hollow commit needs two rows, since the loss must come after the first flush.
These two runs do not check for deadlock: a sweep that is done, a calculation
that was made and an import after the last are the end.

`SameSecond` is FALSE in the runs: a run that starts in the same second as
another shares its names, and then `LiveNotBeingWritten` and `TwoRunsLeaveOne`
do not hold (the variants of `Begin` show how), nor does `KeptIsComplete`: the other
run drops the backup schema of that name. The code does nothing about it;
the properties are stated for runs started in different seconds.

`export_race` leaves out the faults of kind `remove`. With them, `OutIsWhole` does
not hold: one exporter fails half-way in deleting its backup while the other has
moved the output directory away, finds none, and restores what is left of the
backup. A complete export still survives in the other's backup. `ReturnIsTruthful`
and `OutputComesBack` are for one exporter at a time.

Fairness. `FairSpec` asks for weak fairness of `Advance(p)`: a run that was
started goes on by itself, as a process that is scheduled does. Starting a run,
every kind of fault, a reader's steps and the end of a reader's transaction are
not fair. `LockTimeout` is part of `Advance`, since the database guarantees it.
In `ExportCsv` it asks the same of the threads (`Work`): the programs they call
return, which no timeout in the code enforces. In `CalcDag`, weak fairness of `Next` says that the computation goes on.

`Rest` and `Ended` let the system stop where it may; with them, TLC's deadlock
check shows that nothing stops anywhere else. An updater that has used up the
seconds is idle.

What is not claimed. `SweepLeavesNoneOut` is for modules without a gap between
versions that follow each other (`GapFree`): after a gap the walk along the ghosts
stops, and a version that is listed is refused. `ValidationsAreRead` is about the
scripts that were written, with gaps or without. Most
properties of scopes and ghosts are for dated releases; finding 4 is about the
perpetual ones. `OkMeansPersisted` and `IdsDoNotDrift` are for an import that made
the organisation: once it is there, the check after the commit cannot tell a
hollow success. `ReturnIsTruthful`, `ActiveIsWhole` and `PromiseKept` are for one
updater at a time: with two, one may restore over the other's success. Of a
race, the project claims `LiveNotBeingWritten` and `NoLitter` for any number of
runs, and `TwoRunsLeaveOne` and `QuietIsWhole` for two; three can lose the database
(finding 1).

## The promise, and its refinement

`ActiveDatabase` has a content `db`, a content `prev` that a trial may go back to,
and the actions `Install`, `Accept`, `RollBack`. `SqliteUpdate!Promise` maps `db`
to the content of the target or, while there is none, of the newest backup: the
target is away between two renames, and a reader who falls back on the backup
sees an atomic replacement. A trial lasts from the rename of the new file to the
deletion of the backup. `sqlite_one` checks that every step is a step of the
promise or leaves it alone (`PromiseKept`), and `SqliteUpdateProofs` proves it for
any number of runs.

## Proofs

`SqliteUpdateProofs` proves, for any sets of updaters, sources and files, any
number of seconds and of faults:

- `TypeCorrect`: `Spec => []TypeOK`. `TypeOK` is inductive together with
  `RunKnown`: a process that is running has arguments.
- `LiveIsNotWritten`: if no two updaters start in the same second
  (`~SameSecond`), `Spec => []LiveNotBeingWritten`, for any number of updaters.
  That the open file has no live name follows only from knowing where it is: the
  inductive invariant `FileInv` says that it is under the process's own temporary
  name (`HandleIsTemp`), that no other process has that name (`StampsDiffer`,
  which needs `FutureIsFree`: the names of a second that has not begun are free)
  and that no file has two names (`NamesDiffer`).
- `RunsLeaveNoLitter`: under the same condition, `Spec => []NoLitter`. `OwnInv` says for
  each step of a run which of its two names it has used (`Tidy`) and that the file
  of its temporary name has been built by it and it alone (`Built`); other runs
  touch neither name, since stamps differ.
- `OriginalIsRecoverable`: if moreover there is one updater (`Alone`),
  `Spec => []OriginalRecoverable`. The invariant `KeptInv` says at each step of a
  run where the database it started from is (`WhereKept`): at the target until
  the first rename, in the backup from then on, at one of the two after a restore
  or an interruption; that a run's verdict is given at its end only
  (`VerdictInv`); and `FileInv`, by which no step writes to a file with a live
  name (`NamedIsStable`).
- `TargetIsWhole`, `ReturnsAreTruthful`: for one updater too, `[]ActiveIsWhole` and
  `[]ReturnIsTruthful`, from `SoloInv`: every backup is complete, and what a run has
  seen of the target and of its backup is so.
- `TwoRunsLoseNothing`, `TwoRunsEndWhole`: `Spec => []TwoRunsLeaveOne` and
  `Spec => []QuietIsWhole`, for any number of updaters of which two have started a
  run. What a race may do is in `PairInv`: a backup is complete
  (`BackupsWhole`), but for the empty file that the later run may have found; when a
  run is about to delete its backup, another complete database is in place
  (`DropIsSafe`); one is left at every moment (`OneLeft`); and as long as the target is
  missing or bad, one of the two runs is still to restore it (`SomeoneFixes`). That there
  is no third run is a pigeonhole argument on the stamps (`NoThird`), and it is
  where the proof would fail for three.
- `UpdateKeepsPromise`: for one updater, `Spec => PromiseKept`, step by step: every
  action is a step of `ActiveDatabase` under the mapping of `Promise`, or leaves its
  variables alone. The invariant `PromiseInv` adds to `SoloInv` that the newest backup is
  that of the last run (`Latest`), without which a reader who falls back on it would
  go back too far. That there is a newest one, which `Saved` chooses, is the least
  element principle of `WellFoundedInduction` on the seconds (`LatestSecond`).

`StagedUpdateProofs` proves, for any numbers of updaters, readers, tables and seconds:

- `StagedTypeCorrect`: `Spec => []TypeOK`.
- `SwapIsWhole`: if no two updates start in the same second, `Spec => ActiveChangesWhole`.
  `StagedInv` says that a run's staging schema has, from the end of its load on, the
  rows of its source and no others, and that nobody else has that schema.
- `ReadersAreConsistent`: under the same condition `Spec => []ReadersSeeOneLoad`. `ReaderInv`
  says that what an open transaction has read is still active; a commit that
  would change it needs the lock on every table it replaces, and it replaces
  every table of the ORM.
- `SchemasAreDropped`: under the same condition `Spec => []NoSchemaLeft`.
- `KeptStaysComplete`: under the same condition `Spec => []KeptIsComplete`. At the swap,
  every table that it replaces has been listed and so goes to the backup schema
  (`SwapBacksUp`): one of the ORM because its name comes in (`StagedInv`), and a table
  whose name comes in is not there or has been listed (`CanMoveIn`). From then on
  `KeptInv` says that nobody who is running has the second of that run, so that no step
  writes to its backup schema: the run itself ends with its swap, and a later one has a
  later second.

`ExportCsvProofs` proves, for any numbers of exporters, files, threads and runs:

- `ExportTypeCorrect`: `Spec => []TypeOK`.
- `OutputIsWhole`, `AnExportSurvives`: `Spec => []OutIsWhole` and `Spec => []ExportSurvives`, if
  there is one exporter or no deletion fails half-way (`RemovesAlone`). `PoolInv` says that what
  the threads have written is what the temporary directory has, and that after the
  `with` block no thread is left; `OutInv` that the temporary directory is moved only
  when it is complete and that every backup is, but for one that its run is
  deleting.
- `RunsLeaveNoLitter`: if no deletion fails, `Spec => []NoLitter`.
- `ReturnsAreTruthful`: for one exporter, `Spec => []ReturnIsTruthful`.

`CalcDagProofs` proves, for any set of cells and any finite scripts over them:

- `KahnIsRight`, `OrderIsRight`: `Spec => []KahnInv` and
  `Spec => []OrderRespectsReads`. `KahnInv` is inductive with the facts that a
  statement is queued or sorted once (`Once`), that what is sorted waits for
  nothing (`SortedIsFree`), and that what waits for nothing is queued or sorted
  (`FreeIsListed`). That an indegree is the number of pending producers follows
  from `FS_RemoveElement`; that the order has every statement, from its being an
  injection between sets of the same size.
- `SortTypeCorrect`: `Spec => []TypeOK`, from the same invariant.
- `ResultsAreFixed`: `Spec => []ResultsAreDetermined`. What is exported has one writer for
  each cell (`SingleWriters`), which in any order that respects the reads comes before
  every other statement that reads the cell, so it is the one that is found and the
  one that is left (`FindsIsTheWriter`, `LeavesIsTheWriter`). That such an order has
  every statement, the writer too, is again an injection between sets of the same size
  (`AdmissibleIsOnto`), and that the exported one is such an order
  (`ExportedIsAdmissible`) comes from `OrderRespectsReads`.
- `CycleIsRight`: `Spec => []NamedAreOnCycle`, whichever producers are picked. The
  invariant `WalkInv` says that each statement the walk has met leads to where the
  walk is; that the walk has a statement to start at needs `FreeIsListed`.

`ReleaseWindowProofs`, `GhostFallbackProofs` and `OperationScopeProofs` prove, for any
releases, any dictionary without overlaps and any operation:

- `ActiveIsAtTheLast`, `ValidReleasesAreTheWindow`: `ActiveOnly` is `InWindow` at the
  last release, and the releases of the ECB import are those at which `InWindow`
  holds. `WindowIs` spells a window out as comparisons of sort orders.
- `SweepTypeCorrect`, `SweepIsUnambiguous`: `SweepSpec => []OneVersionPerModule`. Two
  versions that cover a dated release overlap; the latest prior version is one,
  since `Supersedes` is a strict order; and a module has a version that stands in
  only where no genuine one covers the release.
- `SweepIsComplete`: `SweepSpec => []SweepLeavesNoneOut`. `SiblingsAre` gets from the definition
  of `SiblingsPastEnd` that the versions that follow one are all listed, each at a place given
  by its rank. That the walk along the ghosts gets to one that covers the release (`ChainGetsThere`) is an
  induction in the code; here it is an argument about a greatest element: if the walk got
  stuck before a version, the version that starts at the latest end before it (`GapFree`) would
  be one of those before, and end later still.
  `EffectiveEndIs` says which end the walk leaves, `OwnIsAccepted` and `StandInIsAccepted` that a
  listed version is accepted at the release, and `HasARelease` that there is one for a sweep
  without a release.
- `SweepReadsAll`: `SweepSpec => []ValidationsAreRead`. `AcceptedIsListed` is the other direction:
  where a version may be exported, it is listed, or a ghost of its chain covers the release
  (`ChainCovers`). No gap matters here. With it, `StandingIs` says what a script represents,
  `SharedIsKept` and `ChainedIsKept` that the filters keep its scopes, and `ReplacedIs` that the
  scopes written name the stand-ins of the ghosts.
- `ScopesAreExported`: `ScopeSpec => []ScopesNameTargets`. What `Resolve` keeps, per
  operand, is a genuine version or the stand-in of a module whose genuine versions
  lack the operand; that there are none at all follows from `OneVersionPerModule`.
- `ScopesAreSupplied`: `ScopeSpec => []ScopesSupplyEveryOperand`. A combination has a
  provider for each table because the pool has each table as a key
  (`ProcessCross` refuses others), and the shortcut for a single row is sound
  because `TablesHosted` and the guard on the expression say that every operand
  has a row.
- `SufficientAreAlone`: `ScopeSpec => []SelfSufficientStandsAlone`. A version that is exported
  and has every operand, as have its ghosts, is resolved for each (`TargetIsResolved`); the
  combinations leave out what suffices alone (`ScopesStandAlone`).

`ReleaseWindowProofs` also holds what the others need of finite sets and orders: least and
greatest elements (`LeastOfNat`, `LastOfOrder`, `GreatestOfFinite`), the sequence that lists a
finite set in an order (`SortedExists`, `SortedIsOnto`), and the ranks of its elements
(`RanksAre`, `RanksOfNat`). They rest on the library's facts about cardinality.

`EcbImportProofs` proves, for any files, databases, releases and number of imports. It
begins with one lemma per action, which says what the action does to the fields of an
import (`OperationsDo`, `TakeRowDoes`, ...), and with `StepsAre`, by which a step is one of
these, an end of the import (`Ends`), or no step; the rest argues from these lemmas. `Shape`
says that an import has these fields, and what it is before its rows.

- `SuccessIsPersisted`: `Spec => []OkMeansPersisted`. The inductive invariant says that
  the organisation goes the way of everything else in its transaction: while the
  session has it, it has all that was counted, and the database has it not
  (`TransactionInv`). So the check after the commit, which looks for the organisation
  only, finds it only if the rest is there (`VerifyInv`).
- `TypeCorrect`: `Spec => []TypeOK`. `TypeInv` adds that the tables are finite, which makes
  the next IDs numbers, and that the keys hold in the session too.
- `GateIsOfItsRow`: `Spec => []GateIsRowsOwn`. After a swallowed error the session has lost
  versions that the cache, and operations that the dictionary of codes, still refer to.
  `GateInv` says that what they refer to is either what they were made for or in no
  table (`CacheHolds`, `OpsHold`), in the database and in the session; that a row with an ID
  of the database is the database's (`Agrees`); and that the next IDs are above all of them
  (`Above`), so that no later row takes a lost one's ID. The foreign keys then leave the first
  case only.
- `IdsAreStable`: `Spec => []IdsDoNotDrift`. While an import that made the organisation has it
  in its session, what it has counted has the IDs from `Base` up to the next ones
  (`Counted`, `UpToNext`); at the start that is so because `CheckFloors` leaves nobody
  else a row in the block. That the new codes get consecutive IDs in their order, by counting
  the smaller ones, is `RanksOfNat`.
- `RepeatsAreEmpty`: `Spec => []RepeatAddsNothing`, over the whole history. `WholeInv`
  says that the database has all that a file in `whole` asks for (`Imported`: an
  operation of each code, a version of each first row of its code and release, and its
  precondition), that no step takes any of it away (`Extends`), and that `seen` has the
  keys of the rows done and no others (`SeenOf`). `RepeatInv` says that an import of
  such a file makes nothing, and never comes to the references or scopes of a row.

The invariants of `CalcDag` take any action that is enabled; that `InOrder` is never empty, so
that `Pop` is enabled, is an induction on the size of a set and is left to TLC
(`Decides`).

Assumptions: those of `SqliteUpdate` on its constants (`Valid` is a subset of
`Source`, the settings are records, `None` is neither a file nor the arguments of
a run nor a content). TLC evaluates them in the `sqlite_*` runs, and has checked
the inductive invariants on the instances of `sqlite_race` and `sqlite_one`, and
likewise those of the other modules. `StagedUpdate` assumes that the tables of the ORM
and the others are listed in sequences and differ, and that `None` is none of the
values it stands beside. `CalcDag` assumes that
scripts are finite sequences of statements. `ReleaseWindow` assumes that releases are
numbers with a date or none and that `None` is neither, `GhostFallback` that the codes,
the releases and each dictionary are finite and that versions of a module do not
overlap, `OperationScope` that queries ask for tables and that `None` is none of the
names of an error's source, `EcbImport` that files and databases are such, that the tables
are finite and their keys hold, that the ECB's organisation is not there before the first
import, and that no version in its block of IDs has a precondition then
(`DataAssumption`): `CheckFloors` refuses every import into a database with anybody
else's version in the block, so such a version says nothing of the import.

Only model-checked: the liveness properties (`DatabaseComesBack`, `OutputComesBack`,
`EveryRunEnds`, `Decides`), which are out of the prover's reach. Every invariant and action
property of a run that passes is a theorem.

## Findings

1. `sqlite_lost`: three updates of one SQLite target, two of them at a time, can lose
   the database although no step of them fails on its own account. In the run the
   target does not exist to begin with. Run 1 installs its database; it has no backup.
   Run 2 starts, finds that database and moves it to its own backup. Run 1 validates
   the missing name, by which SQLite makes an empty file, fails, has no backup to
   restore and returns. Run 3 takes the empty file for the old database, moves it to its
   backup and installs its own; run 2's rename puts the database of run 2 in its
   place. Run 3 finds that one instead of its own and fails. Run 2 finds its own, deletes
   its backup, which is the database of run 1, and reports success. Run 3 unlinks the
   target, which is the database of run 2, to restore its backup, which is the empty
   file. (TLC's trace has these steps; the order of the last ones varies.) A lock per
   target, or a restore that looks at what it takes away, would exclude it.
2. `sqlite_fresh`: an update of a target that does not exist yet, which fails in
   the validation of the live file, exits with status 1 and leaves the new
   database behind.
3. `staged_stale`: the list of active tables is read before the swap's
   transaction, so a table that another update committed meanwhile may stay in the
   active schema beside the new load.
4. `perpetual_start`: `_overlapping_operation_version_rows` takes the open end of a
   window for the place of the undated and playground releases and compares
   strictly, so at such a release an open module version does not see the
   validations that start there, although both windows contain the release.

Noted on the way, without a run: the replacement of a SQLite database is not atomic, as
`cli.rst` says: the target is missing between the two renames, and remains missing if
the process dies there; a version that stands in for a ghost after a gap
is listed by `list_module_versions` and refused by `_resolve_explicit_release`; a
hollow commit of the ECB import is reported as a success if an earlier import made
the organisation; a native operation with the code of a validation is taken over,
and the next import then refuses to start; at a perpetual release `release_needs_ghosts` is
true of an open version; `_latest_operation_by_code` says that its winner "does not
depend on join order", but two scopes of one operation version that name two
ghosts of the chain, or both name the version itself, have one rank, so the first
row gives the severity (`DiscoverModuleValidations` keeps both). Also
`specification/03-services.md:779` gives as the
last step of a SQLite update "Delete the backup on success (unless
`--keep-staging`)"; the SQLite code deletes it in any case.

## Not modelled

The map covers the parts of dpmcore that keep state, order steps or compute a
set that others rely on. These are a small share of its lines. Two thirds of the
lines are of kinds that have no states to check:

- the DPM-XL front end: a parser generated by ANTLR, an AST constructor, and
  sequential tree walks over their output (operand checks, types);
- translation of data: SQL queries (`structure.py`, most of `model_queries.py`), the
  serialisation of expressions to JSON (most of `ast_generator.py`,
  `utils/serialization.py`), spreadsheets and HTML (`layout_exporter/`,
  `meili_*.py`, `calculations_graph/`);
- declarations: ORM and Django models, AST nodes, request and response envelopes,
  options of the command line.

A model of these would repeat them case by case. What the modelled parts take
from them is an input of a module: the tables and items of an expression, the
precondition's codes, the rows of a database. Of the modelled services,
the following is left out: the selections of calculations, the extraction from
Access files, the dependencies between modules that are derived from scopes, and
the scopes of table version ids.

## Plan

Done: `ActiveDatabase`, `SqliteUpdate`, `StagedUpdate`, `CalcDag`, `ExportCsv`,
`ReleaseWindow`, `GhostFallback`, `OperationScope`, `EcbImport`, and proofs about all of
them. Next, in this order:

1. The part of the liveness properties that a proof can reach: a measure of what a run still
   has to do that every step of it lowers, as an action property of `SqliteUpdate`,
   `StagedUpdate`, `ExportCsv` and `CalcDag`.
2. Dependencies between modules (`detect_cross_module_dependencies`), over the
   scopes of `BuildScopeResultFromDb`.
