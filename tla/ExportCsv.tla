----------------------------- MODULE ExportCsv -----------------------------
(***************************************************************************)
(* ExportCsvService.export_safely, run by any number of processes with one *)
(* output directory, and the pool of threads of ExportCsvService.export.   *)
(*                                                                         *)
(* A run exports the tables of an Access file in parallel to a temporary   *)
(* directory, moves the output directory aside to a backup, moves the      *)
(* temporary directory to the output's name and deletes the backup.  A     *)
(* directory is renamed in one step, on POSIX also over an empty one, and  *)
(* deleted file by file.  The temporary directory has a name of its own    *)
(* (mkdtemp); the backup's name carries the second, and the model has one  *)
(* run start in a second.                                                  *)
(*                                                                         *)
(* The text of a table is written whole: what a thread that fails half-way *)
(* leaves in the file is left out, the file counts as missing.             *)
(***************************************************************************)
EXTENDS Naturals, FiniteSets

CONSTANTS
  Exporter,   \* processes that run `dpmcore export-csv` to the directory
  Source,     \* Access files
  Table,      \* names of tables
  TablesOf,   \* the user tables of each Access file
  Workers,    \* the threads of a pool (8 in the code)
  None,       \* no directory
  MaxRuns,    \* bound: runs in a behaviour
  FaultKind,  \* the kinds of fault: "error", "remove", "interrupt", "crash"
  MaxFaults   \* bound: faults in a behaviour

File == Source \X Table
Content == SUBSET File

ASSUME TablesAssumption == TablesOf \in [Source -> SUBSET Table]
ASSUME BoundAssumption ==
  /\ Workers \in Nat \ {0}
  /\ MaxRuns \in Nat
  /\ MaxFaults \in Nat
  /\ FaultKind \subseteq {"error", "remove", "interrupt", "crash"}
ASSUME NoneAssumption == \A d \in Content : d # None

VARIABLES
  out,      \* the files of the output directory, or None
  temp,     \* the files of the temporary directory of each run, or None
  backup,   \* the files of the backup of each run, or None
  started,  \* the runs started so far
  pc,       \* the step each process is at
  run,      \* the number of each process's latest run
  src,      \* the Access file it exports
  task,     \* what has become of each table in its pool
  outcome,  \* how it ended
  origin,   \* history: what the output directory was when it started
  faults    \* faults so far

dirs == <<out, temp, backup>>
arguments == <<started, run, src, origin>>
vars == <<out, temp, backup, started, pc, run, src, task, outcome, origin,
          faults>>

Runs == 1..MaxRuns
Full(s) == {s} \X TablesOf[s]
Exports == {Full(s) : s \in Source}

\* A table waits for a thread, is being exported, has been exported or not, and
\* its result has been seen by the process.
Status == {"none", "waiting", "running", "done", "failed", "seen"}
NoTasks == [t \in Table |-> "none"]

Exporting == {"list", "pool", "join"}
Swapping == {"look", "moveOut", "moveIn", "drop"}
Restoring == {"inCheck", "inMove", "outCheck", "outMove"}
Step == {"idle", "cleanup"} \union Exporting \union Swapping \union Restoring

\* How a run ended: "late" cut short after the new export was in place,
\* "unrestored" failed in the outer handler while restoring.
Outcome == {"none", "pending", "ok", "late", "failed", "unrestored",
            "interrupted", "crashed"}

Init ==
  /\ out \in Exports \union {{}, None}
  /\ temp = [r \in Runs |-> None]
  /\ backup = [r \in Runs |-> None]
  /\ started = 0
  /\ pc = [p \in Exporter |-> "idle"]
  /\ run = [p \in Exporter |-> 0]
  /\ src \in [Exporter -> Source]
  /\ task = [p \in Exporter |-> NoTasks]
  /\ outcome = [p \in Exporter |-> "none"]
  /\ origin = [p \in Exporter |-> None]
  /\ faults = 0

-----------------------------------------------------------------------------
\* The code of a run

TempOf(p) == temp[run[p]]
BackupOf(p) == backup[run[p]]
TasksIn(p, statuses) == {t \in Table : task[p][t] \in statuses}

\* Some thread of p's pool works, or will.
Active(p) == TasksIn(p, {"waiting", "running"}) # {}

Goto(p, step) == pc' = [pc EXCEPT ![p] = step]
Conclude(p, how) == outcome' = [outcome EXCEPT ![p] = how]
SetStatus(p, t, s) == task' = [task EXCEPT ![p][t] = s]

\* A directory can be renamed to a name that is free or an empty directory.
Replaceable(d) == d = None \/ d = {}

\* Variant: the run does not take a number of its own.
BeginUncounted(p) ==
  /\ pc[p] = "idle"
  /\ ~Active(p)
  /\ started < MaxRuns
  /\ run' = [run EXCEPT ![p] = started + 1]
  /\ \E s \in Source : src' = [src EXCEPT ![p] = s]
  /\ temp' = [temp EXCEPT ![started + 1] = {}]
  /\ origin' = [origin EXCEPT ![p] = out]
  /\ task' = [task EXCEPT ![p] = NoTasks]
  /\ Conclude(p, "pending")
  /\ Goto(p, "list")
  /\ UNCHANGED <<out, backup, started, faults>>

\* mkdtemp and _backup_dir_for.  A process that left threads behind has waited
\* for them on exit.
Begin(p) ==
  /\ pc[p] = "idle"
  /\ ~Active(p)
  /\ started < MaxRuns
  /\ started' = started + 1
  /\ run' = [run EXCEPT ![p] = started + 1]
  /\ \E s \in Source : src' = [src EXCEPT ![p] = s]
  /\ temp' = [temp EXCEPT ![started + 1] = {}]
  /\ origin' = [origin EXCEPT ![p] = out]
  /\ task' = [task EXCEPT ![p] = NoTasks]
  /\ Conclude(p, "pending")
  /\ Goto(p, "list")
  /\ UNCHANGED <<out, backup, faults>>

\* export: list the tables and submit each of them to the pool.
Submit(p) ==
  /\ pc[p] = "list"
  /\ task' = [task EXCEPT ![p] = [t \in Table |->
                IF t \in TablesOf[src[p]] THEN "waiting" ELSE "none"]]
  /\ Goto(p, "pool")
  /\ UNCHANGED <<dirs, arguments, outcome, faults>>

\* A free thread takes a table.  The pool hands them out in the order of the
\* file; here it is any order, of which that is one.
StartTask(p) ==
  /\ Cardinality(TasksIn(p, {"running"})) < Workers
  /\ \E t \in TasksIn(p, {"waiting"}) : SetStatus(p, t, "running")
  /\ UNCHANGED <<dirs, arguments, pc, outcome, faults>>

\* _export_table: write the table's file, if the directory is still there.
EndTask(p) ==
  /\ \E t \in TasksIn(p, {"running"}) :
       IF TempOf(p) = None
       THEN /\ SetStatus(p, t, "failed")
            /\ UNCHANGED temp
       ELSE /\ SetStatus(p, t, "done")
            /\ temp' = [temp EXCEPT ![run[p]] = @ \union {<<src[p], t>>}]
  /\ UNCHANGED <<out, backup, arguments, pc, outcome, faults>>

Work(p) == StartTask(p) \/ EndTask(p)

\* Variant: the result of a future is not asked for.
CollectUnchecked(p) ==
  /\ pc[p] = "pool"
  /\ \E t \in TasksIn(p, {"done", "failed"}) : SetStatus(p, t, "seen")
  /\ UNCHANGED <<dirs, arguments, pc, outcome, faults>>

\* as_completed: look at a result.  The first failure seen ends the export.
Collect(p) ==
  /\ pc[p] = "pool"
  /\ \E t \in TasksIn(p, {"done", "failed"}) :
       /\ SetStatus(p, t, "seen")
       /\ IF task[p][t] = "failed"
          THEN Conclude(p, "failed") /\ Goto(p, "join")
          ELSE UNCHANGED <<outcome, pc>>
  /\ UNCHANGED <<dirs, arguments, faults>>

\* Variant: export returns when every table has been taken by a thread.
CollectedEarly(p) ==
  /\ pc[p] = "pool"
  /\ TasksIn(p, {"waiting"}) = {}
  /\ Goto(p, "look")
  /\ UNCHANGED <<dirs, arguments, task, outcome, faults>>

\* Every result has been seen: export returns.
Collected(p) ==
  /\ pc[p] = "pool"
  /\ TasksIn(p, Status \ {"none", "seen"}) = {}
  /\ Goto(p, "look")
  /\ UNCHANGED <<dirs, arguments, task, outcome, faults>>

\* Variant: the pool is left without waiting for its threads.
JoinWithoutWait(p) ==
  /\ pc[p] = "join"
  /\ Goto(p, IF outcome[p] = "failed" THEN "outCheck" ELSE "cleanup")
  /\ UNCHANGED <<dirs, arguments, task, outcome, faults>>

\* Variant: the process polls until it has seen every result.
JoinPolls(p) ==
  /\ pc[p] = "join"
  /\ Goto(p, CASE TasksIn(p, Status \ {"none", "seen"}) # {} -> "join"
               [] outcome[p] = "failed"                      -> "outCheck"
               [] OTHER                                      -> "cleanup")
  /\ UNCHANGED <<dirs, arguments, task, outcome, faults>>

\* The end of the `with` block, after a failure or an interruption: the tables
\* that still wait are exported all the same, and all threads are waited for.
Join(p) ==
  /\ pc[p] = "join"
  /\ ~Active(p)
  /\ Goto(p, IF outcome[p] = "failed" THEN "outCheck" ELSE "cleanup")
  /\ UNCHANGED <<dirs, arguments, task, outcome, faults>>

\* Is there something to move aside?
Look(p) ==
  /\ pc[p] = "look"
  /\ Goto(p, IF out = None THEN "moveIn" ELSE "moveOut")
  /\ UNCHANGED <<dirs, arguments, task, outcome, faults>>

\* Variant: the output directory is deleted instead of being moved aside.
MoveOutDiscards(p) ==
  /\ pc[p] = "moveOut"
  /\ out' = None
  /\ Goto(p, "moveIn")
  /\ UNCHANGED <<temp, backup, arguments, task, outcome, faults>>

\* Move the output directory to the backup's name, unless it has gone.
MoveOut(p) ==
  /\ pc[p] = "moveOut"
  /\ IF out = None
     THEN /\ Conclude(p, "failed")
          /\ Goto(p, "outCheck")
          /\ UNCHANGED <<out, backup>>
     ELSE /\ backup' = [backup EXCEPT ![run[p]] = out]
          /\ out' = None
          /\ Goto(p, "moveIn")
          /\ UNCHANGED outcome
  /\ UNCHANGED <<temp, arguments, task, faults>>

\* Move the temporary directory to the output's name, unless there is one again.
MoveIn(p) ==
  /\ pc[p] = "moveIn"
  /\ IF Replaceable(out)
     THEN /\ out' = TempOf(p)
          /\ temp' = [temp EXCEPT ![run[p]] = None]
          /\ Goto(p, "drop")
          /\ UNCHANGED outcome
     ELSE /\ Conclude(p, "failed")
          /\ Goto(p, "inCheck")
          /\ UNCHANGED <<out, temp>>
  /\ UNCHANGED <<backup, arguments, task, faults>>

\* What one step of rmtree makes of a directory.
Shrunk(d) == IF d = {} THEN {None} ELSE {d \ {f} : f \in d}

\* Delete the backup, if there is one, and return.
DropBackup(p) ==
  /\ pc[p] = "drop"
  /\ IF BackupOf(p) = None
     THEN /\ Conclude(p, "ok")
          /\ Goto(p, "cleanup")
          /\ UNCHANGED backup
     ELSE /\ \E d \in Shrunk(BackupOf(p)) :
               backup' = [backup EXCEPT ![run[p]] = d]
          /\ UNCHANGED <<outcome, pc>>
  /\ UNCHANGED <<out, temp, arguments, task, faults>>

\* _restore_backup, called by the inner handler (from = "inCheck") and by the
\* outer ones (from = "outCheck"): is there a backup and no output directory?
RestoreCheck(p, from, move, after) ==
  /\ pc[p] = from
  /\ Goto(p, IF BackupOf(p) # None /\ out = None THEN move ELSE after)
  /\ UNCHANGED <<dirs, arguments, task, outcome, faults>>

\* _restore_backup: then move it back, unless a directory has come up meanwhile.
RestoreMove(p, from, after) ==
  /\ pc[p] = from
  /\ IF Replaceable(out)
     THEN /\ out' = BackupOf(p)
          /\ backup' = [backup EXCEPT ![run[p]] = None]
          /\ UNCHANGED outcome
     ELSE /\ Conclude(p, IF from = "outMove" THEN "unrestored" ELSE "failed")
          /\ UNCHANGED <<out, backup>>
  /\ Goto(p, after)
  /\ UNCHANGED <<temp, arguments, task, faults>>

\* Variant: the outer handlers do not restore.
RestoreInnerOnly(p) ==
  \/ RestoreCheck(p, "inCheck", "inMove", "cleanup")
  \/ RestoreMove(p, "inMove", "cleanup")
  \/ RestoreCheck(p, "outCheck", "cleanup", "cleanup")

Restore(p) ==
  \/ RestoreCheck(p, "inCheck", "inMove", "outCheck")
  \/ RestoreMove(p, "inMove", "outCheck")
  \/ RestoreCheck(p, "outCheck", "outMove", "cleanup")
  \/ RestoreMove(p, "outMove", "cleanup")

\* The outer `finally`: delete the temporary directory, if there is one.  A file
\* that a thread adds while rmtree is at work makes it fail, which is ignored.
Cleanup(p) ==
  /\ pc[p] = "cleanup"
  /\ \/ /\ TempOf(p) = None \/ Active(p)
        /\ Goto(p, "idle")
        /\ UNCHANGED temp
     \/ /\ TempOf(p) # None
        /\ \E d \in Shrunk(TempOf(p)) : temp' = [temp EXCEPT ![run[p]] = d]
        /\ UNCHANGED pc
  /\ UNCHANGED <<out, backup, arguments, task, outcome, faults>>

-----------------------------------------------------------------------------
\* Faults

Fault(kind) ==
  /\ kind \in FaultKind
  /\ faults < MaxFaults
  /\ faults' = faults + 1

\* A run whose export is already in place ends late, however it is cut short.
Ended(p, how) == IF outcome[p] \in {"ok", "late"} THEN "late" ELSE how

\* mdb-export fails, or the file of the table cannot be written.
FailTask(p) ==
  /\ Fault("error")
  /\ \E t \in TasksIn(p, {"running"}) : SetStatus(p, t, "failed")
  /\ UNCHANGED <<dirs, arguments, pc, outcome>>

\* The tools are missing, the tables cannot be listed, or a rename fails.
Raise(p) ==
  /\ pc[p] \in {"list", "moveOut", "moveIn", "inMove", "outMove"}
  /\ Fault("error")
  /\ Goto(p, CASE pc[p] = "moveIn"  -> "inCheck"
               [] pc[p] = "outMove" -> "cleanup"
               [] OTHER             -> "outCheck")
  /\ Conclude(p, IF pc[p] = "outMove" THEN "unrestored" ELSE "failed")
  /\ UNCHANGED <<dirs, arguments, task>>

\* The backup cannot be deleted, or not all of it.
RaiseDrop(p) ==
  /\ pc[p] = "drop"
  /\ BackupOf(p) # None
  /\ Fault("remove")
  /\ Goto(p, "outCheck")
  /\ Conclude(p, "late")
  /\ UNCHANGED <<dirs, arguments, task>>

\* The temporary directory cannot be deleted, or not all of it: ignored.
IgnoreCleanup(p) ==
  /\ pc[p] = "cleanup"
  /\ TempOf(p) # None
  /\ Fault("remove")
  /\ Goto(p, "idle")
  /\ UNCHANGED <<dirs, arguments, task, outcome>>

\* A BaseException (KeyboardInterrupt): only the `with` block, which waits for
\* the threads, and `finally` see it; a second one ends the wait.
Interrupt(p) ==
  /\ pc[p] # "idle"
  /\ Fault("interrupt")
  /\ Goto(p, CASE pc[p] = "pool"    -> "join"
               [] pc[p] = "cleanup" -> "idle"
               [] OTHER             -> "cleanup")
  /\ Conclude(p, Ended(p, "interrupted"))
  /\ UNCHANGED <<dirs, arguments, task>>

\* The process dies, with its threads.  Its directories stay.
Crash(p) ==
  /\ pc[p] # "idle"
  /\ Fault("crash")
  /\ Goto(p, "idle")
  /\ task' = [task EXCEPT ![p] = NoTasks]
  /\ Conclude(p, Ended(p, "crashed"))
  /\ UNCHANGED <<dirs, arguments>>

-----------------------------------------------------------------------------
\* A step of p's process by itself, and of one of its threads (Work).
Advance(p) ==
  \/ Submit(p) \/ Collect(p) \/ Collected(p) \/ Join(p)
  \/ Look(p) \/ MoveOut(p) \/ MoveIn(p) \/ DropBackup(p)
  \/ Restore(p) \/ Cleanup(p)

\* Nothing has to be exported ever again.
Rest ==
  /\ \A p \in Exporter : pc[p] = "idle" /\ ~Active(p)
  /\ UNCHANGED vars

Next ==
  \/ \E p \in Exporter : \/ Begin(p)
                         \/ Advance(p)
                         \/ Work(p)
                         \/ FailTask(p)
                         \/ Raise(p)
                         \/ RaiseDrop(p)
                         \/ IgnoreCleanup(p)
                         \/ Interrupt(p)
                         \/ Crash(p)
  \/ Rest

Spec == Init /\ [][Next]_vars

\* A run that was started goes on by itself, and the programs that its threads
\* call return; nothing obliges anybody to start one, and no fault to happen.
FairSpec ==
  /\ Spec
  /\ \A p \in Exporter : WF_vars(Advance(p)) /\ WF_vars(Work(p))

-----------------------------------------------------------------------------
\* Properties

TypeOK ==
  /\ out \in {None} \union Content
  /\ temp \in [Runs -> {None} \union Content]
  /\ backup \in [Runs -> {None} \union Content]
  /\ started \in 0..MaxRuns
  /\ pc \in [Exporter -> Step]
  /\ run \in [Exporter -> 0..started]
  /\ src \in [Exporter -> Source]
  /\ task \in [Exporter -> [Table -> Status]]
  /\ outcome \in [Exporter -> Outcome]
  /\ origin \in [Exporter -> {None} \union Content]
  /\ faults \in 0..MaxFaults

\* What a run tells its caller is true: after success the output directory has
\* every table of the file and nothing else; after failure it is what it was
\* before the run, absent included; a run that fails only in deleting the
\* backup has put the new export in place (one exporter).
ReturnIsTruthful ==
  \A p \in Exporter :
    pc[p] = "idle" =>
      /\ outcome[p] \in {"ok", "late"} => out = Full(src[p])
      /\ outcome[p] = "failed" => out = origin[p]

\* The output directory is at every moment a complete export of one file, or
\* the empty directory somebody made: never a part of one or of two, whichever
\* tables fail, and however many exporters race for it.
OutIsWhole == out # None => out \in Exports \union {{}}

\* However many exporters race for one directory, and whatever fails, some
\* complete export is at the output's name or in a backup, once there was one.
ExportSurvives ==
  (\E p \in Exporter : origin[p] \in Exports) =>
     \E d \in {out} \union {backup[r] : r \in Runs} : d \in Exports

\* A run that returns to its caller leaves no thread at work and no temporary
\* directory behind, and one that succeeds no backup, however many exporters
\* race for one directory.
NoLitter ==
  \A p \in Exporter :
    pc[p] = "idle" =>
      /\ outcome[p] \in {"ok", "failed"} => ~Active(p) /\ TempOf(p) = None
      /\ outcome[p] = "ok" => BackupOf(p) = None

\* While a run goes on after taking the output directory away, one comes back,
\* unless the process is interrupted or killed or the restore itself fails.
OutputComesBack ==
  \A p \in Exporter :
    (pc[p] # "idle" /\ origin[p] # None /\ out = None) ~>
      (out # None \/ outcome[p] \in {"unrestored", "interrupted", "crashed"})

\* Every run ends: the process never waits for a result that does not come.
EveryRunEnds == \A p \in Exporter : pc[p] # "idle" ~> pc[p] = "idle"
=============================================================================
