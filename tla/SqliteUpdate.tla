---------------------------- MODULE SqliteUpdate ----------------------------
(***************************************************************************)
(* DatabaseUpdateService._update_sqlite and the helpers it calls, run by   *)
(* any number of processes against one SQLite target.                      *)
(*                                                                         *)
(* A run builds a new database in a hidden temporary file next to the      *)
(* target, validates it, moves the target aside to a backup, moves the     *)
(* temporary file to the target, validates again and deletes the backup.   *)
(* The names of the temporary file and of the backup carry the second in   *)
(* which the run started, so two runs started in the same second share     *)
(* them.                                                                   *)
(*                                                                         *)
(* A directory entry maps a name to a file (an inode); a rename moves the  *)
(* file and a process that has it open keeps it open, as on POSIX.  Each   *)
(* action is one file-system or database step of the code: the steps of    *)
(* several processes interleave, a step may raise, a process may be        *)
(* interrupted (a BaseException, which only `finally` sees) or die.        *)
(***************************************************************************)
EXTENDS Naturals

CONSTANTS
  Updater,     \* processes that run `dpmcore update` on the target
  Source,      \* CSV directories
  Valid,       \* those whose Release and Organisation tables have rows
  Option,      \* the [ecb, dry, keep] settings a run is started with
  Inode,       \* files
  None,        \* no file, no database
  MaxClock,    \* bound: seconds in which a run may start
  SameSecond,  \* TRUE: two runs may start in the same second
  FaultKind,   \* the kinds of fault: "error", "interrupt", "crash"
  MaxFaults    \* bound: faults in a behaviour

Setting == [ecb : BOOLEAN, dry : BOOLEAN, keep : BOOLEAN]

ASSUME SourceAssumption == Valid \subseteq Source
ASSUME OptionAssumption == Option \subseteq Setting
ASSUME BoundAssumption ==
  /\ MaxClock \in Nat
  /\ MaxFaults \in Nat
  /\ SameSecond \in BOOLEAN
  /\ FaultKind \subseteq {"error", "interrupt", "crash"}

VARIABLES
  target,   \* the file under the target's name, or None
  temp,     \* the file under the temporary name of each second, or None
  backup,   \* the file under the backup name of each second, or None
  data,     \* what each file contains
  clock,    \* the second in which the latest run started
  pc,       \* the step each process is at
  run,      \* the arguments of each process's latest run
  handle,   \* the file the engine of each process has open, or None
  outcome,  \* how each process's latest run ended
  origin,   \* history: what the target contained when that run started
  faults    \* faults so far

files == <<target, temp, backup, data>>
vars == <<target, temp, backup, data, clock, pc, run, handle, outcome,
          origin, faults>>

Second == 1..MaxClock

\* The arguments of a run: the second it started in names its files.
Run == [stamp : Second, src : Source, opt : Setting]

ASSUME NoneAssumption == None \notin Inode /\ None \notin Run

(***************************************************************************)
(* The content of a file: the batches of rows written to it since its      *)
(* tables were last dropped and created.                                   *)
(***************************************************************************)
Batch == Source \X {"csv", "ecb"}
Content == SUBSET Batch

ASSUME NoContentAssumption == \A c \in Content : c # None

Csv(s) == <<s, "csv">>
Ecb(s) == <<s, "ecb">>

\* The complete databases: every row of one valid source, with or without the
\* ECB validations.
Whole == {{Csv(s)} : s \in Valid} \union {{Csv(s), Ecb(s)} : s \in Valid}

ContentOf(f) == IF f = None THEN None ELSE data[f]

InUse == {target} \union {temp[t] : t \in Second}
                  \union {backup[t] : t \in Second}
                  \union {handle[p] : p \in Updater}

Building == {"load", "fill", "check1", "ecb", "check2"}
Swapping == {"backup", "install", "verify", "drop"}
Restoring == {"inUnlink", "inMove", "outUnlink", "outMove"}
Step == {"idle", "cleanup"} \union Building \union Swapping \union Restoring

\* How a run ended: "late" cut short after its update was in place,
\* "unrestored" failed in the outer handler while restoring.
Outcome == {"none", "pending", "ok", "late", "failed", "unrestored",
            "interrupted", "crashed"}

TypeOK ==
  /\ target \in Inode \union {None}
  /\ temp \in [Second -> Inode \union {None}]
  /\ backup \in [Second -> Inode \union {None}]
  /\ data \in [Inode -> Content]
  /\ clock \in 0..MaxClock
  /\ pc \in [Updater -> Step]
  /\ run \in [Updater -> Run \union {None}]
  /\ handle \in [Updater -> Inode \union {None}]
  /\ outcome \in [Updater -> Outcome]
  /\ origin \in [Updater -> Content \union {None}]
  /\ faults \in 0..MaxFaults

Init ==
  /\ target \in Inode \union {None}
  /\ temp = [t \in Second |-> None]
  /\ backup = [t \in Second |-> None]
  /\ \E old \in Whole :
       data = [i \in Inode |-> IF i = target THEN old ELSE {}]
  /\ clock = 0
  /\ pc = [p \in Updater |-> "idle"]
  /\ run = [p \in Updater |-> None]
  /\ handle = [p \in Updater |-> None]
  /\ outcome = [p \in Updater |-> "none"]
  /\ origin = [p \in Updater |-> None]
  /\ faults = 0

-----------------------------------------------------------------------------
\* The code of a run

TempOf(p) == temp[run[p].stamp]
BackupOf(p) == backup[run[p].stamp]

Goto(p, step) == pc' = [pc EXCEPT ![p] = step]

\* Go on if ok, otherwise raise: a DatabaseUpdateError ends in the outer
\* handlers, which restore the backup if there is one.
GotoIf(ok, p, step) ==
  /\ Goto(p, IF ok THEN step ELSE "outUnlink")
  /\ outcome' = [outcome EXCEPT ![p] = IF ok THEN @ ELSE "failed"]

\* Variant: the required tables are not checked.
AcceptsCountsOnly(p, c, exact) ==
  IF exact THEN c = {Csv(run[p].src)} ELSE Csv(run[p].src) \in c

\* The content c passes the checks of p's run: the required tables have rows,
\* and the counts are those of the CSV files, exactly or at least.
Accepts(p, c, exact) ==
  LET s == run[p].src
  IN /\ s \in Valid
     /\ IF exact THEN c = {Csv(s)} ELSE Csv(s) \in c

\* Variant: the names of a run's files do not depend on the clock.
BeginFixedNames(p) ==
  /\ pc[p] = "idle"
  /\ clock < MaxClock
  /\ clock' = clock + 1
  /\ \E s \in Source, o \in Option :
       run' = [run EXCEPT ![p] = [stamp |-> 1, src |-> s, opt |-> o]]
  /\ outcome' = [outcome EXCEPT ![p] = "pending"]
  /\ origin' = [origin EXCEPT ![p] = ContentOf(target)]
  /\ Goto(p, "load")
  /\ UNCHANGED <<files, handle, faults>>

\* Variant: the clock is read before it advances.
BeginStaleClock(p) ==
  /\ pc[p] = "idle"
  /\ clock < MaxClock
  /\ clock' = clock + 1
  /\ \E s \in Source, o \in Option :
       run' = [run EXCEPT ![p] = [stamp |-> clock, src |-> s, opt |-> o]]
  /\ outcome' = [outcome EXCEPT ![p] = "pending"]
  /\ origin' = [origin EXCEPT ![p] = ContentOf(target)]
  /\ Goto(p, "load")
  /\ UNCHANGED <<files, handle, faults>>

\* The names of the run's files are taken from the clock.
Begin(p) ==
  /\ pc[p] = "idle"
  /\ \E t \in Second, s \in Source, o \in Option :
       /\ t = clock + 1 \/ (SameSecond /\ t = clock)
       /\ clock' = t
       /\ run' = [run EXCEPT ![p] = [stamp |-> t, src |-> s, opt |-> o]]
  /\ outcome' = [outcome EXCEPT ![p] = "pending"]
  /\ origin' = [origin EXCEPT ![p] = ContentOf(target)]
  /\ Goto(p, "load")
  /\ UNCHANGED <<files, handle, faults>>

\* Connect to the temporary file, which creates it if it is not there, and
\* drop and create all tables.
Load(p) ==
  /\ pc[p] = "load"
  /\ \E f \in IF TempOf(p) = None THEN Inode \ InUse ELSE {TempOf(p)} :
       /\ temp' = [temp EXCEPT ![run[p].stamp] = f]
       /\ data' = [data EXCEPT ![f] = {}]
       /\ handle' = [handle EXCEPT ![p] = f]
  /\ Goto(p, "fill")
  /\ UNCHANGED <<target, backup, clock, run, outcome, origin, faults>>

\* Append the rows of the CSV files.  Rows that are already there break a
\* primary key: a MigrationError, which no handler restores after.
Fill(p) ==
  /\ pc[p] = "fill"
  /\ LET row == Csv(run[p].src)
         clash == row \in data[handle[p]]
     IN /\ data' = [data EXCEPT ![handle[p]] = @ \union {row}]
        /\ Goto(p, IF clash THEN "cleanup" ELSE "check1")
        /\ outcome' = [outcome EXCEPT ![p] = IF clash THEN "failed" ELSE @]
        /\ handle' = [handle EXCEPT ![p] = IF clash THEN None ELSE @]
  /\ UNCHANGED <<target, temp, backup, clock, run, origin, faults>>

\* _validate_csv_count and the exact _validate_sqlite, before the ECB import.
Check1(p) ==
  /\ pc[p] = "check1"
  /\ LET ok == Accepts(p, data[handle[p]], TRUE)
     IN /\ GotoIf(ok, p, "ecb")
        /\ handle' = [handle EXCEPT ![p] = IF ok THEN @ ELSE None]
  /\ UNCHANGED <<files, clock, run, origin, faults>>

\* import_csv, in one transaction, when the run has a validations file.
ImportEcb(p) ==
  /\ pc[p] = "ecb"
  /\ data' = IF run[p].opt.ecb
             THEN [data EXCEPT ![handle[p]] = @ \union {Ecb(run[p].src)}]
             ELSE data
  /\ Goto(p, "check2")
  /\ UNCHANGED <<target, temp, backup, clock, run, handle, outcome, origin,
                 faults>>

\* Variant: the engine is not disposed of.
Check2KeepsEngine(p) ==
  /\ pc[p] = "check2"
  /\ GotoIf(Accepts(p, data[handle[p]], ~run[p].opt.ecb), p, "backup")
  /\ UNCHANGED <<files, clock, run, handle, origin, faults>>

\* _validate_sqlite after the import; then the engine is disposed of, and a
\* dry run returns.
Check2(p) ==
  /\ pc[p] = "check2"
  /\ LET ok == Accepts(p, data[handle[p]], ~run[p].opt.ecb)
         dry == run[p].opt.dry
     IN /\ Goto(p, CASE ~ok      -> "outUnlink"
                     [] ok /\ dry -> "cleanup"
                     [] OTHER     -> "backup")
        /\ outcome' = [outcome EXCEPT ![p] = CASE ~ok      -> "failed"
                                               [] ok /\ dry -> "ok"
                                               [] OTHER     -> @]
  /\ handle' = [handle EXCEPT ![p] = None]
  /\ UNCHANGED <<files, clock, run, origin, faults>>

\* Variant: the target is deleted instead of being moved aside.
BackUpDiscards(p) ==
  /\ pc[p] = "backup"
  /\ target' = None
  /\ Goto(p, "install")
  /\ UNCHANGED <<temp, backup, data, clock, run, handle, outcome, origin,
                 faults>>

\* _replace_sqlite_file: move the target, if there is one, to the backup name.
BackUp(p) ==
  /\ pc[p] = "backup"
  /\ backup' = [backup EXCEPT ![run[p].stamp] =
                  IF target = None THEN @ ELSE target]
  /\ target' = None
  /\ Goto(p, "install")
  /\ UNCHANGED <<temp, data, clock, run, handle, outcome, origin, faults>>

\* _replace_sqlite_file: move the temporary file to the target's name.  If it
\* is gone, the inner handler restores.
Install(p) ==
  /\ pc[p] = "install"
  /\ LET ok == TempOf(p) # None
     IN /\ target' = IF ok THEN TempOf(p) ELSE target
        /\ Goto(p, IF ok THEN "verify" ELSE "inUnlink")
        /\ outcome' = [outcome EXCEPT ![p] = IF ok THEN @ ELSE "failed"]
  /\ temp' = [temp EXCEPT ![run[p].stamp] = None]
  /\ UNCHANGED <<backup, data, clock, run, handle, origin, faults>>

\* Validate what is now under the target's name.  Connecting to a name that is
\* not there creates an empty file, which fails the validation.
Verify(p) ==
  /\ pc[p] = "verify"
  /\ \E f \in IF target = None THEN Inode \ InUse ELSE {target} :
       /\ target' = f
       /\ data' = [data EXCEPT ![f] = IF target = None THEN {} ELSE @]
  /\ GotoIf(/\ target # None
            /\ Accepts(p, data[target], ~run[p].opt.ecb), p, "drop")
  /\ UNCHANGED <<temp, backup, clock, run, handle, origin, faults>>

\* Variant: the backup is forgotten.
DropBackupForgets(p) ==
  /\ pc[p] = "drop"
  /\ outcome' = [outcome EXCEPT ![p] = "ok"]
  /\ Goto(p, "cleanup")
  /\ UNCHANGED <<files, clock, run, handle, origin, faults>>

\* Delete the backup, if there is one, and return.
DropBackup(p) ==
  /\ pc[p] = "drop"
  /\ backup' = [backup EXCEPT ![run[p].stamp] = None]
  /\ outcome' = [outcome EXCEPT ![p] = "ok"]
  /\ Goto(p, "cleanup")
  /\ UNCHANGED <<target, temp, data, clock, run, handle, origin, faults>>

\* Variant: the target is unlinked before the backup is looked for.
RestoreUnlinkFirst(p, from, move, after) ==
  /\ pc[p] = from
  /\ target' = None
  /\ Goto(p, IF BackupOf(p) = None THEN after ELSE move)
  /\ UNCHANGED <<temp, backup, data, clock, run, handle, outcome, origin,
                 faults>>

\* _restore_sqlite_backup, called by _replace_sqlite_file (from = "inUnlink")
\* and by the outer handlers (from = "outUnlink"): with a backup, first unlink
\* the target.
RestoreUnlink(p, from, move, after) ==
  /\ pc[p] = from
  /\ target' = IF BackupOf(p) = None THEN target ELSE None
  /\ Goto(p, IF BackupOf(p) = None THEN after ELSE move)
  /\ UNCHANGED <<temp, backup, data, clock, run, handle, outcome, origin,
                 faults>>

\* _restore_sqlite_backup: then move the backup to the target's name.
RestoreMove(p, from, after) ==
  /\ pc[p] = from
  /\ target' = IF BackupOf(p) = None THEN target ELSE BackupOf(p)
  /\ backup' = [backup EXCEPT ![run[p].stamp] = None]
  /\ Goto(p, after)
  /\ UNCHANGED <<temp, data, clock, run, handle, outcome, origin, faults>>

Restore(p) ==
  \/ RestoreUnlink(p, "inUnlink", "inMove", "outUnlink")
  \/ RestoreMove(p, "inMove", "outUnlink")
  \/ RestoreUnlink(p, "outUnlink", "outMove", "cleanup")
  \/ RestoreMove(p, "outMove", "cleanup")

\* The outer `finally`: delete the temporary file unless it is to be kept.
Cleanup(p) ==
  /\ pc[p] = "cleanup"
  /\ temp' = [temp EXCEPT ![run[p].stamp] =
                IF run[p].opt.keep THEN @ ELSE None]
  /\ Goto(p, "idle")
  /\ UNCHANGED <<target, backup, data, clock, run, handle, outcome, origin,
                 faults>>

-----------------------------------------------------------------------------
\* Faults

Fault(kind) ==
  /\ kind \in FaultKind
  /\ faults < MaxFaults
  /\ faults' = faults + 1

\* The steps that do input or output, which is what may fail.
CanRaise(p) ==
  \/ pc[p] \in {"load", "fill", "check1", "check2", "install", "verify",
                "inMove", "outMove"}
  \/ pc[p] = "ecb" /\ run[p].opt.ecb
  \/ pc[p] = "backup" /\ target # None
  \/ pc[p] = "drop" /\ BackupOf(p) # None
  \/ pc[p] \in {"inUnlink", "outUnlink"} /\ BackupOf(p) # None
                                         /\ target # None
  \/ pc[p] = "cleanup" /\ TempOf(p) # None /\ ~run[p].opt.keep

\* Variant: a failure after the old database was moved is not restored after.
HandlersOfInstall(step) ==
  CASE step \in {"load", "fill", "install"} -> {"cleanup"}
    [] step \in {"outUnlink", "outMove"}    -> {"cleanup"}
    [] step = "cleanup"                     -> {"idle"}
    [] OTHER                                -> {"outUnlink"}

\* Variant: a failure of the last validation is not restored after.
HandlersOfVerify(step) ==
  CASE step \in {"load", "fill", "verify"}  -> {"cleanup"}
    [] step = "install"                     -> {"inUnlink"}
    [] step \in {"outUnlink", "outMove"}    -> {"cleanup"}
    [] step = "cleanup"                     -> {"idle"}
    [] OTHER                                -> {"outUnlink"}

\* Where an exception raised at a step is caught.  Loading raises a
\* MigrationError, whose handler does not restore, or another exception.
Handlers(step) ==
  CASE step \in {"load", "fill"}         -> {"cleanup", "outUnlink"}
    [] step = "install"                  -> {"inUnlink"}
    [] step \in {"outUnlink", "outMove"} -> {"cleanup"}
    [] step = "cleanup"                  -> {"idle"}
    [] OTHER                             -> {"outUnlink"}

\* A run whose update is already in place ends late, however it is cut short.
Ended(p, how) == [outcome EXCEPT ![p] = IF @ = "ok" THEN "late" ELSE how]

Raise(p) ==
  /\ CanRaise(p)
  /\ Fault("error")
  /\ \E step \in Handlers(pc[p]) : Goto(p, step)
  /\ outcome' = Ended(p, CASE pc[p] \in {"outUnlink", "outMove"} -> "unrestored"
                           [] pc[p] = "cleanup" -> outcome[p]
                           [] OTHER -> "failed")
  /\ handle' = [handle EXCEPT ![p] = None]
  /\ UNCHANGED <<files, clock, run, origin>>

\* A BaseException (KeyboardInterrupt): only the `finally` clauses run.
Interrupt(p) ==
  /\ pc[p] # "idle"
  /\ Fault("interrupt")
  /\ Goto(p, IF pc[p] = "cleanup" THEN "idle" ELSE "cleanup")
  /\ outcome' = Ended(p, "interrupted")
  /\ handle' = [handle EXCEPT ![p] = None]
  /\ UNCHANGED <<files, clock, run, origin>>

\* The process dies.  Its files stay; it may be started again.
Crash(p) ==
  /\ pc[p] # "idle"
  /\ Fault("crash")
  /\ Goto(p, "idle")
  /\ outcome' = Ended(p, "crashed")
  /\ handle' = [handle EXCEPT ![p] = None]
  /\ UNCHANGED <<files, clock, run, origin>>

-----------------------------------------------------------------------------
Advance(p) ==
  \/ Load(p) \/ Fill(p) \/ Check1(p) \/ ImportEcb(p) \/ Check2(p)
  \/ BackUp(p) \/ Install(p) \/ Verify(p) \/ DropBackup(p)
  \/ Restore(p) \/ Cleanup(p)

\* Nothing has to be updated ever again.
Rest ==
  /\ \A p \in Updater : pc[p] = "idle"
  /\ UNCHANGED vars

Next ==
  \/ \E p \in Updater : \/ Begin(p)
                        \/ Advance(p)
                        \/ Raise(p)
                        \/ Interrupt(p)
                        \/ Crash(p)
  \/ Rest

Spec == Init /\ [][Next]_vars

\* A run that was started goes on by itself; nothing obliges anybody to start
\* one, and no fault has to happen.
FairSpec == Spec /\ \A p \in Updater : WF_vars(Advance(p))

-----------------------------------------------------------------------------
\* Properties

\* Is p's run past the point where it takes the old database away for good?
Settled(p) == outcome[p] \in {"none", "ok", "late"}

\* A database that was active when a run started is never lost: until the run
\* has succeeded, the target or the run's own backup holds it, whichever step
\* raises, and wherever the process is interrupted or dies (one updater).
OriginalRecoverable ==
  \A p \in Updater :
    (~Settled(p) /\ origin[p] # None) =>
       origin[p] \in {ContentOf(target), ContentOf(BackupOf(p))}

\* What the content of the target should be when p's run has succeeded.
Promised(p) ==
  IF run[p].opt.dry THEN origin[p]
  ELSE {Csv(run[p].src)} \union
       (IF run[p].opt.ecb THEN {Ecb(run[p].src)} ELSE {})

\* What a run of an existing target tells its caller is true: after success
\* the target is the new database (after a dry run the old one), after failure
\* it is the one that was there before (one updater).
ReturnIsTruthful ==
  \A p \in Updater :
    (pc[p] = "idle" /\ origin[p] # None) =>
      /\ outcome[p] = "failed" => ContentOf(target) = origin[p]
      /\ outcome[p] = "ok" => ContentOf(target) = Promised(p)

\* The file under the target's name is at every moment a complete database
\* built from a valid source: never one that is being loaded, that failed its
\* validation, or that a validation created empty (one updater).
ActiveIsWhole == target # None => data[target] \in Whole

\* A run that returns leaves no backup behind, and one that succeeds no
\* temporary file unless it was asked to keep it.
NoLitter ==
  \A p \in Updater :
    pc[p] = "idle" =>
      /\ outcome[p] \in {"ok", "failed"} => BackupOf(p) = None
      /\ outcome[p] = "ok" => (TempOf(p) = None \/ run[p].opt.keep)

\* While a run goes on after taking the database away, the database comes
\* back, unless the process is killed or the restore itself fails.
DatabaseComesBack ==
  \A p \in Updater :
    (pc[p] # "idle" /\ origin[p] # None /\ target = None) ~>
      (target # None \/ outcome[p] \in {"unrestored", "interrupted",
                                        "crashed"})

\* No process has a file open for loading that readers or a restore could
\* see: with a name per run, the engine is disposed of before the file is
\* moved, and nobody else ever opens it.
LiveNotBeingWritten ==
  \A p \in Updater :
    handle[p] # None =>
      /\ handle[p] # target
      /\ \A t \in Second : handle[p] # backup[t]

\* From cli.rst: "If any step fails the active database is left untouched."  At
\* the least, once there was a complete database, one remains under the
\* target's name or a backup name.
DatabaseSurvives ==
  (\E p \in Updater : origin[p] # None) =>
     \E f \in {target} \union {backup[t] : t \in Second} :
        f # None /\ data[f] \in Whole

\* No more than two runs have started, each in a second of its own.
TwoRuns == clock <= 2

\* A complete database survives two runs that overlap, whichever of their steps
\* fails, and wherever a process dies.  It does not always survive three.
TwoRunsLeaveOne == TwoRuns => DatabaseSurvives

\* Once all updaters have returned to their callers, after two runs that
\* overlapped, there is a target, if there was one, and it is complete.
QuietIsWhole ==
  (TwoRuns /\ \A p \in Updater : pc[p] = "idle" /\ outcome[p] \in {"ok", "failed"}) =>
     /\ (\E p \in Updater : origin[p] # None) => target # None
     /\ ActiveIsWhole

\* The newest backup: what the target is taken to contain while it is missing.
Newest == CHOOSE t \in Second :
            /\ backup[t] # None
            /\ \A u \in Second : backup[u] # None => u <= t
Saved == IF \E t \in Second : backup[t] # None
         THEN data[backup[Newest]] ELSE None

\* A new database is in place, and its run has neither given it up nor
\* declared it good.
OnTrial ==
  \E p \in Updater :
    \/ pc[p] \in {"verify", "drop"}
    \/ pc[p] = "outUnlink" /\ BackupOf(p) # None /\ target # None

Promise == INSTANCE ActiveDatabase WITH
             db    <- IF target # None THEN data[target] ELSE Saved,
             prev  <- IF OnTrial THEN Saved ELSE None,
             trial <- OnTrial

\* To a reader who falls back on the newest backup while the target is missing,
\* the database only ever changes from one complete content to another, or
\* back to exactly the one before (one updater).
PromiseKept == Promise!Spec

\* From cli.rst: exit status 1 means "the active database was not modified".
FailureLeavesActive ==
  \A p \in Updater :
    (pc[p] = "idle" /\ outcome[p] = "failed") => ContentOf(target) = origin[p]
=============================================================================
