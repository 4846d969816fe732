---------------------------- MODULE StagedUpdate ----------------------------
(***************************************************************************)
(* DatabaseUpdateService._update_staged_database: any number of processes  *)
(* update one PostgreSQL database while clients read it.                   *)
(*                                                                         *)
(* A run loads its tables into a staging schema of its own, validates      *)
(* them, tries the locks it will need, lists the tables of the active and  *)
(* of the staging schema, and then, in one transaction, moves the listed   *)
(* active tables to a backup schema and the listed staging tables to the   *)
(* active schema.  The `finally` clause drops the staging and the backup   *)
(* schema.  Schema names carry the second in which the run started.        *)
(*                                                                         *)
(* The database is modelled as PostgreSQL behaves: DDL is transactional,   *)
(* moving a table takes an exclusive lock until the transaction ends, a    *)
(* reader's transaction keeps a shared lock on every table it has read,    *)
(* listing tables takes no lock and sees what is committed.  SQL Server    *)
(* runs the same code.                                                     *)
(***************************************************************************)
EXTENDS Naturals, Sequences, SequencesExt

CONSTANTS
  Updater,     \* processes that run `dpmcore update` on the database
  Reader,      \* clients that read the active schema
  Source,      \* CSV directories
  OrmOrder,    \* the tables of the ORM, in dependency order
  ExtraOrder,  \* names of other tables, in alphabetical order
  CsvOf,       \* the tables each source has a CSV file for
  Option,      \* the [dry, keep] settings a run is started with
  Required,    \* tables without rows of which no database is valid
  Old,         \* the source the active schema was loaded from, to begin with
  None,        \* no schema, no table
  MaxClock,    \* bound: seconds in which a run may start
  SameSecond,  \* TRUE: two runs may start in the same second
  FaultKind,   \* the kinds of fault: "error", "interrupt", "crash", "drop",
               \* "reply"
  MaxFaults    \* bound: faults in a behaviour

Orm == ToSet(OrmOrder)
Extra == ToSet(ExtraOrder)
Table == Orm \union Extra
Second == 1..MaxClock

Setting == [dry : BOOLEAN, keep : BOOLEAN]

ASSUME TableAssumption ==
  /\ OrmOrder \in Seq(Orm)
  /\ ExtraOrder \in Seq(Extra)
  /\ Orm \intersect Extra = {}
  /\ Required \subseteq Orm
  /\ CsvOf \in [Source -> SUBSET Table]
  /\ Old \in Source
ASSUME OptionAssumption == Option \subseteq Setting
ASSUME BoundAssumption ==
  /\ MaxClock \in Nat
  /\ MaxFaults \in Nat
  /\ SameSecond \in BOOLEAN
  /\ FaultKind \subseteq {"error", "interrupt", "crash", "drop", "reply"}

VARIABLES
  active,   \* the active schema: the rows of each table, None: no such table
  staging,  \* the staging schema of each second, None: no such schema
  backup,   \* the backup schema of each second, None: no such schema
  clock,    \* the second in which the latest run started
  pc,       \* the step each process is at
  run,      \* the arguments of each process's latest run
  out,      \* the active tables the process has listed, in order
  into,     \* the staging tables the process has listed, in order
  moved,    \* how many of `out` its open transaction has moved
  outcome,  \* how each process's latest run ended
  seen,     \* the rows of each table that a reader's open transaction has
            \* read (and so locked), None: it has not read the table
  leaked,   \* history: seconds a schema of which could not be dropped
  kept,     \* history: of each second, what the swap of a run that was to keep
            \* its schemas has replaced, None: no such swap
  faults    \* faults so far

schemas == <<active, staging, backup>>
lists == <<out, into, moved>>
noted == <<seen, leaked, kept, faults>>
vars == <<active, staging, backup, clock, pc, run, out, into, moved, outcome,
          seen, leaked, kept, faults>>

\* The rows of a table are the rows of the sources that were appended to it.
Rows == SUBSET Source
Tables == [Table -> Rows \union {None}]

\* The arguments of a run: the second it started in names its schemas.
Run == [stamp : Second, src : Source, opt : Setting]

ASSUME NoneAssumption ==
  /\ \A rows \in Rows : rows # None
  /\ None \notin Tables
  /\ None \notin Run

NoTables == [t \in Table |-> None]

\* MigrationService._create_schema: every table of the ORM, empty.
EmptyOrm == [t \in Table |-> IF t \in Orm THEN {} ELSE None]

\* The schema loaded from source s alone, and to be it as far as the tables T
\* go.
Loaded(s) == [t \in Table |-> IF t \in CsvOf[s] THEN {s} ELSE EmptyOrm[t]]
LoadedFrom(s, schema, T) == \A t \in T : schema[t] = Loaded(s)[t]

Step == {"idle", "schema", "tables", "fill", "check", "locks", "mkbackup",
         "list", "move", "dropStaging", "dropBackup"}
\* How a run ended: "late" cut short after its update was in place, "doubtful"
\* failed although its transaction had committed.
Outcome == {"none", "pending", "ok", "late", "failed", "doubtful",
            "interrupted", "crashed"}

TypeOK ==
  /\ active \in Tables
  /\ staging \in [Second -> Tables \union {None}]
  /\ backup \in [Second -> Tables \union {None}]
  /\ clock \in 0..MaxClock
  /\ pc \in [Updater -> Step]
  /\ run \in [Updater -> Run \union {None}]
  /\ \A p \in Updater : /\ ToSet(out[p]) \subseteq Table
                        /\ ToSet(into[p]) \subseteq Table
                        /\ moved[p] \in 0..Len(out[p])
  /\ outcome \in [Updater -> Outcome]
  /\ seen \in [Reader -> Tables]
  /\ leaked \subseteq Second
  /\ kept \in [Second -> Tables \union {None}]
  /\ faults \in 0..MaxFaults

Init ==
  /\ active \in {NoTables, Loaded(Old)}
  /\ staging = [t \in Second |-> None]
  /\ backup = [t \in Second |-> None]
  /\ clock = 0
  /\ pc = [p \in Updater |-> "idle"]
  /\ run = [p \in Updater |-> None]
  /\ out = [p \in Updater |-> <<>>]
  /\ into = [p \in Updater |-> <<>>]
  /\ moved = [p \in Updater |-> 0]
  /\ outcome = [p \in Updater |-> "none"]
  /\ seen = [r \in Reader |-> NoTables]
  /\ leaked = {}
  /\ kept = [t \in Second |-> None]
  /\ faults = 0

-----------------------------------------------------------------------------
\* The code of a run

StagingOf(p) == staging[run[p].stamp]
BackupOf(p) == backup[run[p].stamp]

Goto(p, step) == pc' = [pc EXCEPT ![p] = step]

\* Variant: the staging schema is not dropped.
FinallyDropsBackup(p) == IF run[p].opt.keep THEN "idle" ELSE "dropBackup"

\* Variant: the schemas are dropped after all.
FinallyDropsKept(p) == "dropStaging"

\* Go on if ok, otherwise raise; the only handler is the `finally` clause, which
\* leaves everything in place when the run is to keep its staging schema.
Finally(p) == IF run[p].opt.keep THEN "idle" ELSE "dropStaging"
GotoIf(ok, p, step) ==
  /\ Goto(p, IF ok THEN step ELSE Finally(p))
  /\ outcome' = [outcome EXCEPT ![p] = IF ok THEN @ ELSE "failed"]

\* Variant: the method returns with its transaction open.
EndSwapStaysOpen(p) ==
  /\ out' = [out EXCEPT ![p] = <<>>]
  /\ into' = [into EXCEPT ![p] = <<>>]
  /\ UNCHANGED moved

\* The method that lists and moves the tables returns or raises.
EndSwap(p) ==
  /\ out' = [out EXCEPT ![p] = <<>>]
  /\ into' = [into EXCEPT ![p] = <<>>]
  /\ moved' = [moved EXCEPT ![p] = 0]

\* The tables that the open transaction of p has moved, and so locked.
Held(p) == {out[p][i] : i \in 1..moved[p]}

\* Variant: the tables are replaced in a way that does not wait for readers.
BlockedByUpdaters(p, t) == \E q \in Updater \ {p} : t \in Held(q)

\* Somebody else's lock on the table t keeps p from taking an exclusive one.
Blocked(p, t) ==
  \/ \E r \in Reader : seen[r][t] # None
  \/ \E q \in Updater \ {p} : t \in Held(q)

\* _validate_schema_counts and _validate_required_content.
Validates(p, schema) ==
  /\ \A t \in CsvOf[run[p].src] : schema[t] # None /\ run[p].src \in schema[t]
  /\ \A t \in Required : schema[t] \notin {None, {}}

\* The elements of the sequence s that are in S, in the order of s: SelectSeq,
\* for a set, as a recursive function that can be reasoned about.
Selected(s, S) ==
  LET Pick[i \in 0..Len(s)] ==
        IF i = 0 THEN <<>>
        ELSE IF s[i] \in S THEN Append(Pick[i - 1], s[i]) ELSE Pick[i - 1]
  IN Pick[Len(s)]

\* The tables of a schema.
TablesIn(schema) ==
  IF schema = None THEN {} ELSE {t \in Table : schema[t] # None}

\* _ordered_tables_for_schema: the tables of a schema in ORM order, possibly
\* reversed, then the others.
Ordered(schema, reversed) ==
  LET order == IF reversed THEN Reverse(OrmOrder) ELSE OrmOrder
  IN Selected(order \o ExtraOrder, TablesIn(schema))

Begin(p) ==
  /\ pc[p] = "idle"
  /\ \E t \in Second, s \in Source, o \in Option :
       /\ t = clock + 1 \/ (SameSecond /\ t = clock)
       /\ clock' = t
       /\ run' = [run EXCEPT ![p] = [stamp |-> t, src |-> s, opt |-> o]]
  /\ outcome' = [outcome EXCEPT ![p] = "pending"]
  /\ Goto(p, "schema")
  /\ UNCHANGED <<schemas, lists, noted>>

\* _create_schema_if_missing(staging_schema).
CreateStaging(p) ==
  /\ pc[p] = "schema"
  /\ staging' = [staging EXCEPT ![run[p].stamp] =
                   IF @ = None THEN NoTables ELSE @]
  /\ Goto(p, "tables")
  /\ UNCHANGED <<active, backup, clock, run, lists, outcome, noted>>

\* Read the CSV files, of which there must be one, and drop and create the tables
\* of the ORM.  Other tables stay.
CreateTables(p) ==
  /\ pc[p] = "tables"
  /\ LET ok == CsvOf[run[p].src] # {} /\ StagingOf(p) # None
     IN /\ staging' = [staging EXCEPT ![run[p].stamp] =
                         IF ok THEN [t \in Table |->
                                       IF t \in Orm THEN {} ELSE @[t]]
                               ELSE @]
        /\ GotoIf(ok, p, "fill")
  /\ UNCHANGED <<active, backup, clock, run, lists, noted>>

\* Append the rows of every CSV file, creating tables the ORM does not know.
\* Rows that are already there break a primary key.
Fill(p) ==
  /\ pc[p] = "fill"
  /\ LET s == run[p].src
         Fits(t) == t \in Orm => /\ StagingOf(p)[t] # None
                                 /\ s \notin StagingOf(p)[t]
         ok == StagingOf(p) # None /\ \A t \in CsvOf[s] : Fits(t)
     IN /\ staging' = [staging EXCEPT ![run[p].stamp] =
                         IF ok THEN [t \in Table |->
                                       IF t \notin CsvOf[s] THEN @[t]
                                       ELSE IF @[t] = None THEN {s}
                                       ELSE @[t] \union {s}]
                               ELSE @]
        /\ GotoIf(ok, p, "check")
  /\ UNCHANGED <<active, backup, clock, run, lists, noted>>

\* _validate_csv_count, the ECB import if there is one (it adds rows, which the
\* "at least" counts allow) and _validate_schema on the staging schema.
Check(p) ==
  /\ pc[p] = "check"
  /\ GotoIf(StagingOf(p) # None /\ Validates(p, StagingOf(p)), p, "locks")
  /\ UNCHANGED <<schemas, clock, run, lists, noted>>

\* _check_swap_locks: lock the active tables of the same names, or time out, and
\* release them.  A dry run ends here.
CheckLocks(p) ==
  /\ pc[p] = "locks"
  /\ LET ok == \A t \in CsvOf[run[p].src] : active[t] # None => ~Blocked(p, t)
         dry == run[p].opt.dry
     IN /\ Goto(p, IF ok /\ ~dry THEN "mkbackup" ELSE Finally(p))
        /\ outcome' = [outcome EXCEPT ![p] = CASE ~ok       -> "failed"
                                               [] ok /\ dry -> "ok"
                                               [] OTHER     -> @]
  /\ UNCHANGED <<schemas, clock, run, lists, noted>>

\* _create_schema_if_missing(backup_schema).
CreateBackup(p) ==
  /\ pc[p] = "mkbackup"
  /\ backup' = [backup EXCEPT ![run[p].stamp] =
                  IF @ = None THEN NoTables ELSE @]
  /\ Goto(p, "list")
  /\ UNCHANGED <<active, staging, clock, run, lists, outcome, noted>>

\* Variant: only the tables that were loaded are swapped.
ListLoadedTables(p) ==
  /\ pc[p] = "list"
  /\ LET loaded == CsvOf[run[p].src]
     IN /\ out' = [out EXCEPT ![p] = Selected(Ordered(active, TRUE), loaded)]
        /\ into' = [into EXCEPT ![p] =
                      Selected(Ordered(StagingOf(p), FALSE), loaded)]
  /\ moved' = [moved EXCEPT ![p] = 0]
  /\ Goto(p, "move")
  /\ UNCHANGED <<schemas, clock, run, outcome, noted>>

\* _swap_staging_to_active: list the tables, before the transaction begins.
ListTables(p) ==
  /\ pc[p] = "list"
  /\ out' = [out EXCEPT ![p] = Ordered(active, TRUE)]
  /\ into' = [into EXCEPT ![p] = Ordered(StagingOf(p), FALSE)]
  /\ moved' = [moved EXCEPT ![p] = 0]
  /\ Goto(p, "move")
  /\ UNCHANGED <<schemas, clock, run, outcome, noted>>

\* _swap_staging_to_active: in the transaction, move the next listed table out
\* of the active schema.
MoveOut(p) ==
  /\ pc[p] = "move"
  /\ moved[p] < Len(out[p])
  /\ ~Blocked(p, out[p][moved[p] + 1])
  /\ IF active[out[p][moved[p] + 1]] # None
     THEN /\ moved' = [moved EXCEPT ![p] = @ + 1]
          /\ UNCHANGED <<pc, out, into, outcome>>
     ELSE EndSwap(p) /\ GotoIf(FALSE, p, "move")
  /\ UNCHANGED <<schemas, clock, run, noted>>

\* Variant: no lock timeout is set.
LockWait(p) ==
  /\ pc[p] = "move"
  /\ moved[p] < Len(out[p])
  /\ Blocked(p, out[p][moved[p] + 1])
  /\ UNCHANGED vars

\* _set_swap_timeout: the lock is not to be had in time; the transaction rolls
\* back.
LockTimeout(p) ==
  /\ pc[p] = "move"
  /\ moved[p] < Len(out[p])
  /\ Blocked(p, out[p][moved[p] + 1])
  /\ EndSwap(p) /\ GotoIf(FALSE, p, "move")
  /\ UNCHANGED <<schemas, clock, run, noted>>

\* The active schema as the transaction leaves it.
SwappedActive(p) ==
  [t \in Table |-> CASE t \in ToSet(into[p]) -> StagingOf(p)[t]
                     [] t \in ToSet(out[p]) \ ToSet(into[p]) -> None
                     [] OTHER -> active[t]]

\* The listed staging tables can be moved: they are there, and no table of the
\* name is in the way.
CanMoveIn(p) ==
  /\ StagingOf(p) # None
  /\ \A t \in ToSet(into[p]) : /\ StagingOf(p)[t] # None
                               /\ t \in ToSet(out[p]) \/ active[t] = None
\* The listed active tables can be moved to the backup schema.
CanMoveOut(p) ==
  /\ BackupOf(p) # None
  /\ \A t \in ToSet(out[p]) : BackupOf(p)[t] = None

\* The tables that the swap replaces: those of the ORM, and of the others those
\* that it changes or takes away.
Replaced ==
  [t \in Table |-> IF t \in Orm \/ active'[t] # active[t] THEN active[t]
                                                           ELSE None]
NoteReplaced(p) ==
  kept' = [kept EXCEPT ![run[p].stamp] =
             IF run[p].opt.keep THEN Replaced ELSE @]

\* What the transaction commits: old tables to the backup schema, new tables to
\* the active schema.
SwapEffect(p) ==
  /\ active' = SwappedActive(p)
  /\ backup' = [backup EXCEPT ![run[p].stamp] =
                  [t \in Table |-> IF t \in ToSet(out[p]) THEN active[t]
                                                           ELSE @[t]]]
  /\ staging' = [staging EXCEPT ![run[p].stamp] =
                   [t \in Table |-> IF t \in ToSet(into[p]) THEN None
                                                            ELSE @[t]]]
  /\ NoteReplaced(p)

\* _swap_staging_to_active: move the staging tables in, validate, and commit.
\* If a move or the validation fails, the transaction rolls back.
Commit(p) ==
  /\ pc[p] = "move"
  /\ moved[p] = Len(out[p])
  /\ CanMoveIn(p) /\ CanMoveOut(p) /\ Validates(p, SwappedActive(p))
  /\ SwapEffect(p)
  /\ outcome' = [outcome EXCEPT ![p] = "ok"]
  /\ EndSwap(p) /\ Goto(p, Finally(p))
  /\ UNCHANGED <<clock, run, seen, leaked, faults>>

RollBack(p) ==
  /\ pc[p] = "move"
  /\ moved[p] = Len(out[p])
  /\ ~(CanMoveIn(p) /\ CanMoveOut(p) /\ Validates(p, SwappedActive(p)))
  /\ EndSwap(p) /\ GotoIf(FALSE, p, "move")
  /\ UNCHANGED <<schemas, clock, run, noted>>

\* The `finally` clause: drop the staging schema, then the backup schema.
DropStaging(p) ==
  /\ pc[p] = "dropStaging"
  /\ staging' = [staging EXCEPT ![run[p].stamp] = None]
  /\ Goto(p, "dropBackup")
  /\ UNCHANGED <<active, backup, clock, run, lists, outcome, noted>>

DropBackup(p) ==
  /\ pc[p] = "dropBackup"
  /\ backup' = [backup EXCEPT ![run[p].stamp] = None]
  /\ Goto(p, "idle")
  /\ UNCHANGED <<active, staging, clock, run, lists, outcome, noted>>

-----------------------------------------------------------------------------
\* Readers

\* A client reads a table in its open transaction, once nobody has it locked.
Read(r, t) ==
  /\ active[t] # None
  /\ \A p \in Updater : t \notin Held(p)
  /\ seen' = [seen EXCEPT ![r][t] = active[t]]
  /\ UNCHANGED <<schemas, clock, pc, run, lists, outcome, leaked, kept, faults>>

EndRead(r) ==
  /\ seen[r] # NoTables
  /\ seen' = [seen EXCEPT ![r] = NoTables]
  /\ UNCHANGED <<schemas, clock, pc, run, lists, outcome, leaked, kept, faults>>

-----------------------------------------------------------------------------
\* Faults

Fault(kind) ==
  /\ kind \in FaultKind
  /\ faults < MaxFaults
  /\ faults' = faults + 1

Dropping == {"dropStaging", "dropBackup"}

\* A run whose swap has committed ends late, however it is cut short.
Ended(p, how) == [outcome EXCEPT ![p] = IF @ = "ok" THEN "late" ELSE how]

\* A statement fails; an open transaction rolls back.
Raise(p) ==
  /\ pc[p] \notin Dropping \union {"idle"}
  /\ Fault("error")
  /\ Goto(p, Finally(p))
  /\ outcome' = Ended(p, "failed")
  /\ EndSwap(p)
  /\ UNCHANGED <<schemas, clock, run, seen, leaked, kept>>

\* _safe_drop_schema: a schema that cannot be dropped is left there, silently.
DropFails(p) ==
  /\ pc[p] \in Dropping
  /\ Fault("drop")
  /\ Goto(p, IF pc[p] = "dropStaging" THEN "dropBackup" ELSE "idle")
  /\ leaked' = leaked \union {run[p].stamp}
  /\ UNCHANGED <<schemas, clock, run, lists, outcome, seen, kept>>

\* The server commits the swap and the connection is lost before its reply.
ReplyLost(p) ==
  /\ pc[p] = "move"
  /\ moved[p] = Len(out[p])
  /\ CanMoveIn(p) /\ CanMoveOut(p) /\ Validates(p, SwappedActive(p))
  /\ Fault("reply")
  /\ SwapEffect(p)
  /\ outcome' = [outcome EXCEPT ![p] = "doubtful"]
  /\ EndSwap(p) /\ Goto(p, Finally(p))
  /\ UNCHANGED <<clock, run, seen, leaked>>

\* A BaseException: the transaction rolls back and the `finally` clause runs;
\* in the `finally` clause, the rest of it is skipped.
Interrupt(p) ==
  /\ pc[p] # "idle"
  /\ Fault("interrupt")
  /\ Goto(p, IF pc[p] \in Dropping THEN "idle" ELSE Finally(p))
  /\ outcome' = Ended(p, "interrupted")
  /\ EndSwap(p)
  /\ UNCHANGED <<schemas, clock, run, seen, leaked, kept>>

\* The process dies: the server rolls its transaction back, the schemas stay.
Crash(p) ==
  /\ pc[p] # "idle"
  /\ Fault("crash")
  /\ Goto(p, "idle")
  /\ outcome' = Ended(p, "crashed")
  /\ EndSwap(p)
  /\ UNCHANGED <<schemas, clock, run, seen, leaked, kept>>

-----------------------------------------------------------------------------
Advance(p) ==
  \/ CreateStaging(p) \/ CreateTables(p) \/ Fill(p) \/ Check(p)
  \/ CheckLocks(p) \/ CreateBackup(p) \/ ListTables(p)
  \/ MoveOut(p) \/ LockTimeout(p) \/ Commit(p) \/ RollBack(p)
  \/ DropStaging(p) \/ DropBackup(p)

\* Nothing has to be updated ever again.
Rest ==
  /\ \A p \in Updater : pc[p] = "idle"
  /\ UNCHANGED vars

Next ==
  \/ \E p \in Updater : \/ Begin(p)
                        \/ Advance(p)
                        \/ Raise(p) \/ DropFails(p) \/ ReplyLost(p)
                        \/ Interrupt(p) \/ Crash(p)
  \/ \E r \in Reader : EndRead(r) \/ \E t \in Table : Read(r, t)
  \/ Rest

Spec == Init /\ [][Next]_vars

\* A run that was started goes on by itself.  Readers owe nobody anything: one
\* may keep its transaction open for ever.
FairSpec == Spec /\ \A p \in Updater : WF_vars(Advance(p))

-----------------------------------------------------------------------------
\* Properties

\* Whenever the active schema changes, it becomes the complete load of one
\* source, as far as the tables of the ORM go: whatever the updaters that race
\* listed, and whatever fails, no mixture of two loads is ever committed.
ActiveChangesWhole ==
  [][active' # active => \E s \in Source : LoadedFrom(s, active', Orm)]_vars

\* A transaction that reads several tables of the ORM reads them all from the
\* same load, although a swap moves them one by one.
ReadersSeeOneLoad ==
  \A r \in Reader : \E s \in Source :
     LoadedFrom(s, seen[r], {t \in Orm : seen[r][t] # None})

\* A run that returns has dropped its staging and its backup schema, unless it
\* was told to keep them or the drop failed silently.
NoSchemaLeft ==
  \A p \in Updater :
    (/\ pc[p] = "idle"
     /\ outcome[p] \in {"ok", "failed"}
     /\ ~run[p].opt.keep
     /\ run[p].stamp \notin leaked) => StagingOf(p) = None /\ BackupOf(p) = None

\* With keep_staging, what a swap has replaced is in the backup schema of the
\* run from then on, whole: neither the `finally` clause of the run, which ends
\* without dropping it, nor anything that fails, nor a later update takes it away.
KeptIsComplete ==
  \A t \in Second : kept[t] # None =>
     /\ backup[t] # None
     /\ \A u \in Table : kept[t][u] # None => backup[t][u] = kept[t][u]

\* Every run ends, even if a reader keeps its locks for ever or two updaters
\* wait for each other.
EveryRunEnds == \A p \in Updater : pc[p] # "idle" ~> pc[p] = "idle"

\* From the docstring of _swap_staging_to_active: "Moves all tables from
\* active_schema to backup_schema", so that the new load is all there is.
SwapMovesAll ==
  [][\A p \in Updater :
       (outcome[p] = "pending" /\ outcome'[p] = "ok" /\ ~run[p].opt.dry) =>
          \A t \in Table : active'[t] # None => t \in ToSet(into[p])]_vars
=============================================================================
