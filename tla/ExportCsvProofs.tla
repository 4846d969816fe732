-------------------------- MODULE ExportCsvProofs --------------------------
(***************************************************************************)
(* Proofs about ExportCsv, for any number of exporters, tables, Access     *)
(* files, threads and faults.                                              *)
(***************************************************************************)
EXTENDS ExportCsv, TLAPS

(***************************************************************************)
(* Types.                                                                  *)
(***************************************************************************)

\* A process that has started no run has nothing to do.
Known ==
  \A p \in Exporter :
    run[p] = 0 => /\ pc[p] = "idle"
                  /\ outcome[p] = "none"
                  /\ \A t \in Table : task[p][t] = "none"

TypeInv == TypeOK /\ Known

\* A step of p's process or of its threads, other than the start of a run.
Own(p) ==
  \/ Advance(p) \/ Work(p) \/ FailTask(p)
  \/ Raise(p) \/ RaiseDrop(p) \/ IgnoreCleanup(p) \/ Interrupt(p) \/ Crash(p)

\* The full export of a file is some content.
LEMMA FullIsContent ==
  ASSUME NEW s \in Source
  PROVE  Full(s) \in Content /\ Full(s) # None
  <1>1. TablesOf[s] \subseteq Table
    BY TablesAssumption
  <1>2. Full(s) \in Content
    BY <1>1 DEF Full, Content, File
  <1>3. QED
    BY <1>2, NoneAssumption

LEMMA InitTypeInv == Init => TypeInv
  <1> SUFFICES ASSUME Init PROVE TypeInv
    OBVIOUS
  <1>1. out \in {None} \union Content
    BY FullIsContent DEF Init, Exports, Content
  <1>2. NoTasks \in [Table -> Status]
    BY DEF NoTasks, Status
  <1>3. TypeOK
    BY <1>1, <1>2, BoundAssumption DEF Init, TypeOK, Step, Outcome
  <1>4. Known
    BY DEF Init, Known, NoTasks
  <1>5. QED
    BY <1>3, <1>4 DEF TypeInv

\* A process that has something to do has a run of its own.
LEMMA RunIsOwn ==
  ASSUME TypeInv, NEW p \in Exporter, pc[p] # "idle" \/ Active(p)
  PROVE  /\ run[p] \in Runs
         /\ run[p] <= started
         /\ TempOf(p) \in {None} \union Content
         /\ BackupOf(p) \in {None} \union Content
  <1>1. run[p] # 0
    BY DEF TypeInv, Known, Active, TasksIn
  <1>2. run[p] \in 0..started /\ started \in 0..MaxRuns
    BY DEF TypeInv, TypeOK
  <1>3. run[p] \in Runs /\ run[p] <= started
    BY <1>1, <1>2, BoundAssumption DEF Runs
  <1>4. QED
    BY <1>3 DEF TypeInv, TypeOK, TempOf, BackupOf

\* A process that makes a step has something to do.
LEMMA OwnIsBusy ==
  ASSUME NEW p \in Exporter, Own(p)
  PROVE  pc[p] # "idle" \/ Active(p)
  <1>1. CASE Advance(p)
    BY <1>1 DEF Advance, Submit, Collect, Collected, Join, Look, MoveOut,
         MoveIn, DropBackup, Restore, RestoreCheck, RestoreMove, Cleanup
  <1>2. CASE Work(p) \/ FailTask(p)
    BY <1>2 DEF Work, StartTask, EndTask, FailTask, Active, TasksIn
  <1>3. CASE \/ Raise(p) \/ RaiseDrop(p) \/ IgnoreCleanup(p) \/ Interrupt(p)
             \/ Crash(p)
    BY <1>3 DEF Raise, RaiseDrop, IgnoreCleanup, Interrupt, Crash
  <1>4. QED
    BY <1>1, <1>2, <1>3 DEF Own

\* What rmtree leaves is a part of what there was.
LEMMA ShrunkIsContent ==
  ASSUME NEW d \in Content, NEW e \in Shrunk(d)
  PROVE  e \in {None} \union Content
  BY DEF Shrunk, Content

LEMMA BeginTypeInv ==
  ASSUME TypeInv, NEW p \in Exporter, Begin(p)
  PROVE  TypeInv'
  <1>1. /\ started \in 0..MaxRuns /\ MaxRuns \in Nat /\ started < MaxRuns
        /\ started' = started + 1
    BY BoundAssumption DEF TypeInv, TypeOK, Begin
  <1>2. started' \in 0..MaxRuns /\ started' \in Runs /\ started' # 0
    BY <1>1 DEF Runs
  <1>3. run' = [run EXCEPT ![p] = started'] /\ run' \in [Exporter -> 0..started']
    BY <1>1 DEF TypeInv, TypeOK, Begin
  <1>4. {} \in Content /\ NoTasks \in [Table -> Status]
    BY DEF Content, NoTasks, Status
  <1>5. TypeOK'
    BY <1>1, <1>2, <1>3, <1>4
       DEF TypeInv, TypeOK, Begin, Conclude, Goto, Step, Exporting, Outcome
  <1>6. Known'
    <2>1. SUFFICES ASSUME NEW q \in Exporter, run'[q] = 0
                   PROVE  /\ pc'[q] = "idle" /\ outcome'[q] = "none"
                          /\ \A t \in Table : task'[q][t] = "none"
      BY DEF Known
    <2>2. q # p /\ run[q] = 0
      BY <1>2, <1>3, <2>1 DEF TypeInv, TypeOK
    <2>3. pc'[q] = pc[q] /\ outcome'[q] = outcome[q] /\ task'[q] = task[q]
      BY <2>2 DEF Begin, Goto, Conclude, TypeInv, TypeOK
    <2>4. QED
      BY <2>2, <2>3 DEF TypeInv, Known
  <1>7. QED
    BY <1>5, <1>6 DEF TypeInv

\* What a step of p may change: what is p's, and the output directory.
LEMMA OwnFrame ==
  ASSUME TypeInv, NEW p \in Exporter, Own(p)
  PROVE  /\ UNCHANGED arguments
         /\ \A q \in Exporter :
              q # p => /\ pc'[q] = pc[q]
                       /\ task'[q] = task[q]
                       /\ outcome'[q] = outcome[q]
         /\ \A r \in Runs :
              r # run[p] => temp'[r] = temp[r] /\ backup'[r] = backup[r]
  <1> USE DEF TypeInv, TypeOK, Goto, Conclude, SetStatus
  <1>1. CASE Submit(p) \/ Collect(p) \/ Collected(p) \/ Join(p) \/ Look(p)
    BY <1>1 DEF Submit, Collect, Collected, Join, Look, dirs, arguments
  <1>2. CASE MoveOut(p) \/ MoveIn(p) \/ DropBackup(p) \/ Cleanup(p)
    BY <1>2 DEF MoveOut, MoveIn, DropBackup, Cleanup, arguments
  <1>3. CASE Restore(p)
    BY <1>3 DEF Restore, RestoreCheck, RestoreMove, dirs, arguments
  <1>4. CASE Work(p) \/ FailTask(p)
    BY <1>4 DEF Work, StartTask, EndTask, FailTask, dirs, arguments
  <1>5. CASE \/ Raise(p) \/ RaiseDrop(p) \/ IgnoreCleanup(p) \/ Interrupt(p)
             \/ Crash(p)
    BY <1>5 DEF Raise, RaiseDrop, IgnoreCleanup, Interrupt, Crash, dirs, arguments
  <1>6. QED
    BY <1>1, <1>2, <1>3, <1>4, <1>5 DEF Own, Advance

LEMMA OwnTypeInv ==
  ASSUME TypeInv, NEW p \in Exporter, Own(p)
  PROVE  TypeInv'
  <1>0. /\ run[p] \in Runs /\ run[p] # 0
        /\ TempOf(p) \in {None} \union Content
        /\ BackupOf(p) \in {None} \union Content
    BY RunIsOwn, OwnIsBusy DEF Runs
  <1>1. /\ started' \in 0..MaxRuns /\ run' \in [Exporter -> 0..started']
        /\ src' \in [Exporter -> Source]
        /\ origin' \in [Exporter -> {None} \union Content]
    BY OwnFrame DEF arguments, TypeInv, TypeOK
  <1>2. /\ out' \in {None} \union Content
        /\ temp' \in [Runs -> {None} \union Content]
        /\ backup' \in [Runs -> {None} \union Content]
    <2> USE DEF TypeInv, TypeOK
    <2>1. CASE MoveOut(p) \/ MoveIn(p) \/ Restore(p)
      BY <1>0, <2>1 DEF MoveOut, MoveIn, Restore, RestoreCheck, RestoreMove, dirs
    <2>2. CASE DropBackup(p) \/ Cleanup(p)
      BY <1>0, <2>2, ShrunkIsContent DEF DropBackup, Cleanup
    <2>3. CASE EndTask(p)
      <3>1. \A t \in Table : <<src[p], t>> \in File
        BY DEF File
      <3>2. \A d \in Content, t \in Table : d \union {<<src[p], t>>} \in Content
        BY <3>1 DEF Content
      <3>3. QED
        BY <1>0, <2>3, <3>2 DEF EndTask, TempOf, TasksIn
    <2>4. CASE UNCHANGED dirs
      BY <2>4 DEF dirs
    <2>5. UNCHANGED dirs \/ MoveOut(p) \/ MoveIn(p) \/ Restore(p)
            \/ DropBackup(p) \/ Cleanup(p) \/ EndTask(p)
      BY DEF Own, Advance, Work, Submit, Collect, Collected, Join, Look,
             StartTask, FailTask, Raise, RaiseDrop, IgnoreCleanup, Interrupt, Crash
    <2>6. QED
      BY <2>1, <2>2, <2>3, <2>4, <2>5
  <1>3. /\ pc' \in [Exporter -> Step]
        /\ task' \in [Exporter -> [Table -> Status]]
        /\ outcome' \in [Exporter -> Outcome]
        /\ faults' \in 0..MaxFaults
    <2>0. ASSUME NEW t \in Table, NEW s \in Status, SetStatus(p, t, s)
          PROVE  task' \in [Exporter -> [Table -> Status]]
      BY <2>0 DEF SetStatus, TypeInv, TypeOK
    <2> USE DEF TypeInv, TypeOK, Goto, Conclude, Status, Step,
                Outcome, Exporting, Swapping, Restoring
    <2>1. CASE Submit(p) \/ Collect(p) \/ Collected(p) \/ Join(p) \/ Look(p)
      <3>1. CASE Submit(p)
        BY <3>1 DEF Submit
      <3>2. CASE Collect(p)
        BY <2>0, <3>2 DEF Collect, TasksIn
      <3>3. CASE Collected(p) \/ Join(p) \/ Look(p)
        BY <3>3 DEF Collected, Join, Look
      <3>4. QED
        BY <2>1, <3>1, <3>2, <3>3
    <2>2. CASE MoveOut(p) \/ MoveIn(p) \/ DropBackup(p) \/ Cleanup(p)
      BY <2>2 DEF MoveOut, MoveIn, DropBackup, Cleanup
    <2>3. CASE Restore(p)
      BY <2>3 DEF Restore, RestoreCheck, RestoreMove
    <2>4. CASE Work(p)
      BY <2>0, <2>4 DEF Work, StartTask, EndTask, TasksIn
    <2>5. ASSUME NEW kind, Fault(kind) PROVE faults' \in 0..MaxFaults
      BY <2>5, BoundAssumption DEF Fault
    <2>6. CASE FailTask(p)
      BY <2>0, <2>5, <2>6 DEF FailTask, TasksIn
    <2>7. CASE Raise(p)
      BY <2>5, <2>7 DEF Raise
    <2>8. CASE RaiseDrop(p) \/ IgnoreCleanup(p)
      BY <2>5, <2>8 DEF RaiseDrop, IgnoreCleanup
    <2>9. CASE Interrupt(p)
      BY <2>5, <2>9 DEF Interrupt, Ended
    <2>10. CASE Crash(p)
      BY <2>5, <2>10 DEF Crash, Ended, NoTasks
    <2>11. QED
      BY <2>1, <2>2, <2>3, <2>4, <2>6, <2>7, <2>8, <2>9, <2>10 DEF Own, Advance
  <1>4. Known'
    <2>1. SUFFICES ASSUME NEW q \in Exporter, run[q] = 0
                   PROVE  /\ pc'[q] = "idle" /\ outcome'[q] = "none"
                          /\ \A t \in Table : task'[q][t] = "none"
      BY OwnFrame DEF Known, arguments
    <2>2. q # p
      BY <1>0, <2>1
    <2>3. QED
      BY <2>1, <2>2, OwnFrame DEF TypeInv, Known
  <1>5. QED
    BY <1>1, <1>2, <1>3, <1>4 DEF TypeInv, TypeOK

LEMMA StutterTypeInv == TypeInv /\ UNCHANGED vars => TypeInv'
  <1> SUFFICES ASSUME TypeInv, UNCHANGED vars PROVE TypeInv'
    OBVIOUS
  <1>1. TypeOK'
    BY DEF TypeInv, TypeOK, vars
  <1>2. Known'
    BY DEF TypeInv, Known, vars
  <1>3. QED
    BY <1>1, <1>2 DEF TypeInv

\* Every step is the start of a run, a step of one, or none.
LEMMA StepsAre ==
  [Next]_vars => \/ \E p \in Exporter : Begin(p) \/ Own(p)
                 \/ UNCHANGED vars
  BY DEF Next, Own, Rest

LEMMA NextTypeInv == TypeInv /\ [Next]_vars => TypeInv'
  BY BeginTypeInv, OwnTypeInv, StutterTypeInv, StepsAre

\* The service's state has the types it is declared with.
THEOREM ExportTypeCorrect == Spec => []TypeOK
  <1>1. TypeInv => TypeOK
    BY DEF TypeInv
  <1>2. QED
    BY <1>1, InitTypeInv, NextTypeInv, PTL DEF Spec

-----------------------------------------------------------------------------
(***************************************************************************)
(* Names and the pool.                                                     *)
(***************************************************************************)

\* No two processes work on the directories of one run.
RunsDiffer ==
  \A p, q \in Exporter : (p # q /\ run[p] # 0) => run[p] # run[q]

\* The names of later runs are free.
FutureIsFree ==
  \A r \in Runs : r > started => temp[r] = None /\ backup[r] = None

NameInv == RunsDiffer /\ FutureIsFree

\* The temporary directory has the tables whose export has ended well, and all
\* of them when export has returned.
Pooled(p) ==
  /\ pc[p] = "list" => TempOf(p) = {}
  /\ pc[p] = "pool" =>
       /\ TempOf(p) = {src[p]} \X TasksIn(p, {"done", "seen"})
       /\ \A t \in Table : task[p][t] = "none" <=> t \notin TablesOf[src[p]]
  /\ pc[p] \in {"look", "moveOut", "moveIn"} => TempOf(p) = Full(src[p])

\* Outside export, unless the process was interrupted in it, no thread works.
AtRest(p) ==
  \/ pc[p] \notin {"pool", "join", "cleanup", "idle"}
  \/ pc[p] \in {"cleanup", "idle"} /\ outcome[p] \in {"ok", "failed"}

Working(p) ==
  /\ AtRest(p) => ~Active(p)
  /\ pc[p] = "list" => TasksIn(p, Status \ {"none"}) = {}

PoolInv == TypeInv /\ NameInv /\ \A p \in Exporter : Pooled(p) /\ Working(p)

LEMMA InitPoolInv == Init => PoolInv
  <1> SUFFICES ASSUME Init PROVE PoolInv
    OBVIOUS
  <1>1. TypeInv
    BY InitTypeInv
  <1>2. NameInv
    BY DEF Init, NameInv, RunsDiffer, FutureIsFree
  <1>3. ASSUME NEW p \in Exporter PROVE Pooled(p) /\ Working(p)
    <2>1. pc[p] = "idle" /\ outcome[p] = "none"
      BY DEF Init
    <2>2. QED
      BY <2>1 DEF Pooled, Working, AtRest
  <1>4. QED
    BY <1>1, <1>2, <1>3 DEF PoolInv

\* The run a process starts has names that nobody uses.
LEMMA BeginNames ==
  ASSUME TypeInv, NameInv, NEW p \in Exporter, Begin(p)
  PROVE  /\ NameInv'
         /\ started' \in Runs /\ run'[p] = started'
         /\ temp' = [temp EXCEPT ![started'] = {}]
         /\ backup' = backup
         /\ BackupOf(p)' = None /\ TempOf(p)' = {}
         /\ \A q \in Exporter :
              q # p => run'[q] = run[q] /\ run[q] # started'
  <1>1. /\ started \in Nat /\ started' = started + 1 /\ started' \in Runs
        /\ ~(started' <= started) /\ started' # 0
    BY BoundAssumption DEF TypeInv, TypeOK, Begin, Runs
  <1>2. /\ temp' = [temp EXCEPT ![started'] = {}]
        /\ backup' = backup
        /\ run' = [run EXCEPT ![p] = started']
    BY <1>1 DEF Begin
  <1>3. /\ run'[p] = started'
        /\ \A q \in Exporter : q # p => run'[q] = run[q] /\ run[q] # started'
    BY <1>1, <1>2 DEF TypeInv, TypeOK
  <1>4. BackupOf(p)' = None /\ TempOf(p)' = {}
    BY <1>1, <1>2, <1>3 DEF TypeInv, TypeOK, NameInv, FutureIsFree, BackupOf, TempOf
  <1>5. RunsDiffer'
    BY <1>1, <1>3 DEF NameInv, RunsDiffer
  <1>6. FutureIsFree'
    <2>1. SUFFICES ASSUME NEW r \in Runs, r > started'
                   PROVE  temp'[r] = None /\ backup'[r] = None
      BY DEF FutureIsFree
    <2>2. r > started /\ r # started'
      BY <1>1, <2>1 DEF Runs
    <2>3. QED
      BY <1>2, <2>2 DEF NameInv, FutureIsFree, TypeInv, TypeOK
  <1>7. QED
    BY <1>1, <1>2, <1>3, <1>4, <1>5, <1>6 DEF NameInv

LEMMA OwnNames ==
  ASSUME TypeInv, NameInv, NEW p \in Exporter, Own(p)
  PROVE  NameInv'
  <1>1. RunsDiffer'
    BY OwnFrame DEF NameInv, RunsDiffer, arguments
  <1>2. FutureIsFree'
    <2>1. SUFFICES ASSUME NEW r \in Runs, r > started
                   PROVE  temp'[r] = None /\ backup'[r] = None
      BY OwnFrame DEF FutureIsFree, arguments
    <2>2. run[p] <= started /\ run[p] \in Runs /\ started \in Nat
      BY RunIsOwn, OwnIsBusy DEF TypeInv, TypeOK
    <2>3. r # run[p]
      BY <2>1, <2>2 DEF Runs
    <2>4. QED
      BY <2>1, <2>3, OwnFrame DEF NameInv, FutureIsFree
  <1>3. QED
    BY <1>1, <1>2 DEF NameInv

\* What a step of one process leaves alone of another.
LEMMA Elsewhere ==
  ASSUME TypeInv, NameInv, NEW p \in Exporter, Begin(p) \/ Own(p),
         NEW q \in Exporter, q # p
  PROVE  /\ run'[q] = run[q] /\ src'[q] = src[q] /\ origin'[q] = origin[q]
         /\ pc'[q] = pc[q] /\ task'[q] = task[q] /\ outcome'[q] = outcome[q]
         /\ \A statuses : TasksIn(q, statuses)' = TasksIn(q, statuses)
         /\ Active(q)' = Active(q)
         /\ run[q] # 0 => TempOf(q)' = TempOf(q) /\ BackupOf(q)' = BackupOf(q)
  <1>1. /\ run'[q] = run[q] /\ src'[q] = src[q] /\ origin'[q] = origin[q]
        /\ pc'[q] = pc[q] /\ task'[q] = task[q] /\ outcome'[q] = outcome[q]
    <2>1. CASE Begin(p)
      BY <2>1 DEF Begin, Goto, Conclude, TypeInv, TypeOK
    <2>2. CASE Own(p)
      BY <2>2, OwnFrame DEF arguments
    <2>3. QED
      BY <2>1, <2>2
  <1>2. ASSUME run[q] # 0 PROVE TempOf(q)' = TempOf(q) /\ BackupOf(q)' = BackupOf(q)
    <2>1. run[q] \in Runs
      BY <1>2, BoundAssumption DEF TypeInv, TypeOK, Runs
    <2>2. CASE Begin(p)
      BY <1>1, <2>1, <2>2, BeginNames DEF TempOf, BackupOf, TypeInv, TypeOK
    <2>3. CASE Own(p)
      <3>1. run[q] # run[p]
        BY <1>2 DEF NameInv, RunsDiffer
      <3>2. QED
        BY <1>1, <2>1, <2>3, <3>1, OwnFrame DEF TempOf, BackupOf
    <2>4. QED
      BY <2>2, <2>3
  <1>3. \A statuses : TasksIn(q, statuses)' = TasksIn(q, statuses)
    BY <1>1 DEF TasksIn
  <1>4. Active(q)' = Active(q)
    BY <1>1 DEF Active, TasksIn
  <1>5. QED
    BY <1>1, <1>2, <1>3, <1>4

\* What a step that leaves the tasks alone means for the pool.
LEMMA SameTasks ==
  ASSUME NEW p \in Exporter, task'[p] = task[p]
  PROVE  /\ Active(p)' = Active(p)
         /\ \A statuses : TasksIn(p, statuses)' = TasksIn(p, statuses)
  BY DEF Active, TasksIn

LEMMA OwnWorking ==
  ASSUME PoolInv, NEW p \in Exporter, Own(p)
  PROVE  Working(p)'
  <1> USE DEF PoolInv, TypeInv, TypeOK, Working
  <1>1. CASE Submit(p)
    <2>1. pc'[p] = "pool"
      BY <1>1 DEF Submit, Goto
    <2>2. QED
      BY <2>1 DEF AtRest
  <1>2. CASE Work(p) \/ FailTask(p)
    <2>1. Active(p) /\ pc' = pc /\ outcome' = outcome
      BY <1>2 DEF Work, StartTask, EndTask, FailTask, Active, TasksIn
    <2>2. ~AtRest(p)
      BY <2>1
    <2>3. QED
      BY <2>1, <2>2 DEF AtRest
  <1>3. CASE Collect(p)
    <2>1. pc'[p] \in {"pool", "join"}
      BY <1>3 DEF Collect, Goto
    <2>2. QED
      BY <2>1 DEF AtRest
  <1>4. CASE Collected(p) \/ Join(p)
    <2>1. ~Active(p) /\ task' = task /\ pc'[p] # "list"
      BY <1>4 DEF Collected, Join, Goto, Active, TasksIn, Status
    <2>2. QED
      BY <2>1, SameTasks
  <1>5. CASE \/ Look(p) \/ MoveOut(p) \/ MoveIn(p) \/ DropBackup(p) \/ Restore(p)
             \/ RaiseDrop(p) \/ Raise(p)
    <2>1. /\ pc[p] \notin {"pool", "join", "cleanup", "idle"}
          /\ task' = task /\ pc'[p] # "list"
      <3>1. CASE Look(p) \/ MoveOut(p) \/ MoveIn(p) \/ DropBackup(p)
        BY <3>1 DEF Look, MoveOut, MoveIn, DropBackup, Goto
      <3>2. CASE Restore(p) \/ RaiseDrop(p) \/ Raise(p)
        BY <3>2 DEF Restore, RestoreCheck, RestoreMove, RaiseDrop, Raise, Goto
      <3>3. QED
        BY <1>5, <3>1, <3>2
    <2>2. ~Active(p)
      BY <2>1 DEF AtRest
    <2>3. QED
      BY <2>1, <2>2, SameTasks
  <1>6. CASE Cleanup(p) \/ IgnoreCleanup(p)
    <2>1. /\ pc[p] = "cleanup" /\ pc'[p] \in {"cleanup", "idle"}
          /\ task' = task /\ outcome' = outcome
      BY <1>6 DEF Cleanup, IgnoreCleanup, Goto
    <2>2. AtRest(p)' => AtRest(p)
      BY <2>1 DEF AtRest
    <2>3. QED
      BY <2>1, <2>2, SameTasks
  <1>7. CASE Interrupt(p)
    <2>1. pc'[p] \in {"join", "idle", "cleanup"} /\ outcome'[p] \in {"late", "interrupted"}
      BY <1>7 DEF Interrupt, Goto, Conclude, Ended
    <2>2. QED
      BY <2>1 DEF AtRest
  <1>8. CASE Crash(p)
    <2>1. pc'[p] = "idle" /\ task'[p] = NoTasks
      BY <1>8 DEF Crash, Goto
    <2>2. ~Active(p)'
      BY <2>1 DEF Active, TasksIn, NoTasks
    <2>3. QED
      BY <2>1, <2>2
  <1>9. QED
    BY <1>1, <1>2, <1>3, <1>4, <1>5, <1>6, <1>7, <1>8 DEF Own, Advance

LEMMA OwnPooled ==
  ASSUME PoolInv, NEW p \in Exporter, Own(p)
  PROVE  Pooled(p)'
  <1>0. /\ run[p] \in Runs /\ run' = run /\ src' = src
        /\ src[p] \in Source /\ TablesOf[src[p]] \subseteq Table
        /\ TempOf(p)' = temp'[run[p]]
        /\ UNCHANGED temp => TempOf(p)' = TempOf(p)
    <2>1. run[p] \in Runs /\ run' = run /\ src' = src
      BY RunIsOwn, OwnIsBusy, OwnFrame DEF PoolInv, arguments
    <2>2. QED
      BY <2>1, TablesAssumption DEF PoolInv, TypeInv, TypeOK, TempOf
  <1>1. CASE Submit(p)
    <2>1. /\ pc[p] = "list" /\ pc'[p] = "pool" /\ UNCHANGED temp
          /\ task'[p] = [t \in Table |->
                           IF t \in TablesOf[src[p]] THEN "waiting" ELSE "none"]
      BY <1>1 DEF Submit, Goto, dirs, PoolInv, TypeInv, TypeOK
    <2>2. TasksIn(p, {"done", "seen"})' = {}
      BY <2>1 DEF TasksIn
    <2>3. TempOf(p)' = {}
      BY <1>0, <2>1 DEF PoolInv, Pooled
    <2>4. QED
      BY <1>0, <2>1, <2>2, <2>3 DEF Pooled
  <1>2. CASE Work(p) \/ FailTask(p)
    <2>1. Active(p) /\ pc' = pc
      BY <1>2 DEF Work, StartTask, EndTask, FailTask, Active, TasksIn
    <2>2. pc[p] \in {"pool", "join", "cleanup", "idle"}
      BY <2>1 DEF PoolInv, Working, AtRest
    <2>3. CASE pc[p] # "pool"
      BY <2>1, <2>2, <2>3 DEF Pooled
    <2>4. CASE pc[p] = "pool"
      <3> DEFINE Ends == TasksIn(p, {"done", "seen"})
      <3>1. /\ TempOf(p) = {src[p]} \X Ends
            /\ \A t \in Table : task[p][t] = "none" <=> t \notin TablesOf[src[p]]
        BY <2>4 DEF PoolInv, Pooled
      <3>2. PICK t \in Table, s \in {"running", "failed", "done"} :
               SetStatus(p, t, s) /\ task[p][t] \in {"waiting", "running"}
        BY <1>2 DEF Work, StartTask, EndTask, FailTask, TasksIn
      <3>3. /\ task'[p][t] = s
            /\ \A u \in Table : u # t => task'[p][u] = task[p][u]
        BY <3>2 DEF SetStatus, PoolInv, TypeInv, TypeOK
      <3>4. \A u \in Table : task'[p][u] = "none" <=> u \notin TablesOf[src'[p]]
        BY <1>0, <3>1, <3>2, <3>3
      <3>5. CASE StartTask(p) \/ FailTask(p)
        <4>1. UNCHANGED temp
          BY <3>5 DEF StartTask, FailTask, dirs
        <4>2. PICK u \in Table, v \in {"running", "failed"} :
                 SetStatus(p, u, v) /\ task[p][u] \in {"waiting", "running"}
          BY <3>5 DEF StartTask, FailTask, TasksIn
        <4>3. /\ task'[p][u] = v
              /\ \A w \in Table : w # u => task'[p][w] = task[p][w]
          BY <4>2 DEF SetStatus, PoolInv, TypeInv, TypeOK
        <4>4. TasksIn(p, {"done", "seen"})' = Ends
          BY <4>2, <4>3 DEF TasksIn
        <4>5. QED
          BY <1>0, <2>1, <2>4, <3>1, <3>4, <4>1, <4>4 DEF Pooled
      <3>6. CASE EndTask(p)
        <4>1. TempOf(p) # None
          <5>1. Ends \subseteq Table
            BY DEF TasksIn
          <5>2. {src[p]} \X Ends \in Content
            BY <1>0, <5>1 DEF Content, File
          <5>3. QED
            BY <3>1, <5>2, NoneAssumption
        <4>2. PICK u \in Table :
                 /\ task[p][u] = "running" /\ SetStatus(p, u, "done")
                 /\ temp' = [temp EXCEPT ![run[p]] = @ \union {<<src[p], u>>}]
          BY <3>6, <4>1 DEF EndTask, TasksIn
        <4>3. /\ task'[p][u] = "done"
              /\ \A w \in Table : w # u => task'[p][w] = task[p][w]
          BY <4>2 DEF SetStatus, PoolInv, TypeInv, TypeOK
        <4>4. TasksIn(p, {"done", "seen"})' = Ends \union {u}
          BY <4>2, <4>3 DEF TasksIn
        <4>5. TempOf(p)' = TempOf(p) \union {<<src[p], u>>}
          BY <1>0, <4>2 DEF TempOf, PoolInv, TypeInv, TypeOK
        <4>6. TempOf(p)' = {src[p]} \X TasksIn(p, {"done", "seen"})'
          <5> HIDE DEF Ends
          <5>1. {src[p]} \X (Ends \union {u}) = ({src[p]} \X Ends) \union {<<src[p], u>>}
            OBVIOUS
          <5>2. QED
            BY <3>1, <4>4, <4>5, <5>1
        <4>7. QED
          BY <1>0, <2>1, <2>4, <3>4, <4>6 DEF Pooled
      <3>7. QED
        BY <1>2, <3>5, <3>6 DEF Work
    <2>5. QED
      BY <2>3, <2>4
  <1>3. CASE Collect(p)
    <2>1. pc[p] = "pool" /\ UNCHANGED temp
      BY <1>3 DEF Collect, dirs
    <2>2. PICK t \in Table :
             /\ task[p][t] \in {"done", "failed"} /\ SetStatus(p, t, "seen")
             /\ IF task[p][t] = "failed" THEN Goto(p, "join") ELSE UNCHANGED pc
      BY <1>3 DEF Collect, TasksIn
    <2>3. CASE task[p][t] = "failed"
      <3>1. pc'[p] = "join"
        BY <2>2, <2>3 DEF Goto, PoolInv, TypeInv, TypeOK
      <3>2. QED
        BY <3>1 DEF Pooled
    <2>4. CASE task[p][t] = "done"
      <3>1. /\ task'[p][t] = "seen" /\ pc'[p] = "pool"
            /\ \A u \in Table : u # t => task'[p][u] = task[p][u]
        BY <2>1, <2>2, <2>4 DEF SetStatus, PoolInv, TypeInv, TypeOK
      <3>2. TasksIn(p, {"done", "seen"})' = TasksIn(p, {"done", "seen"})
        BY <2>4, <3>1 DEF TasksIn
      <3>3. \A u \in Table : task'[p][u] = "none" <=> task[p][u] = "none"
        BY <2>4, <3>1
      <3>4. QED
        BY <1>0, <2>1, <3>1, <3>2, <3>3 DEF PoolInv, Pooled
    <2>5. QED
      BY <2>2, <2>3, <2>4
  <1>4. CASE Collected(p)
    <2>1. /\ pc[p] = "pool" /\ pc'[p] = "look" /\ UNCHANGED temp
          /\ TasksIn(p, Status \ {"none", "seen"}) = {}
      BY <1>4 DEF Collected, Goto, dirs, PoolInv, TypeInv, TypeOK
    <2>2. /\ TempOf(p) = {src[p]} \X TasksIn(p, {"done", "seen"})
          /\ \A t \in Table : task[p][t] = "none" <=> t \notin TablesOf[src[p]]
      BY <2>1 DEF PoolInv, Pooled
    <2>3. \A t \in Table : task[p][t] \in {"none", "seen"}
      BY <2>1 DEF TasksIn, PoolInv, TypeInv, TypeOK
    <2>4. TasksIn(p, {"done", "seen"}) = TablesOf[src[p]]
      BY <1>0, <2>2, <2>3 DEF TasksIn
    <2>5. QED
      BY <1>0, <2>1, <2>2, <2>4 DEF Pooled, Full
  <1>5. CASE Look(p) \/ MoveOut(p)
    <2>1. /\ pc[p] \in {"look", "moveOut"} /\ UNCHANGED temp
          /\ pc'[p] \in {"moveOut", "moveIn", "outCheck"}
      BY <1>5 DEF Look, MoveOut, Goto, dirs, PoolInv, TypeInv, TypeOK
    <2>2. QED
      BY <1>0, <2>1 DEF PoolInv, Pooled
  <1>6. CASE \/ Join(p) \/ MoveIn(p) \/ DropBackup(p) \/ Restore(p) \/ Cleanup(p)
             \/ Raise(p) \/ RaiseDrop(p) \/ IgnoreCleanup(p) \/ Interrupt(p)
             \/ Crash(p)
    <2>1. pc'[p] \notin {"list", "pool", "look", "moveOut", "moveIn"}
      <3> USE DEF PoolInv, TypeInv, TypeOK, Goto
      <3>1. CASE Join(p) \/ MoveIn(p) \/ DropBackup(p) \/ Cleanup(p)
        BY <3>1 DEF Join, MoveIn, DropBackup, Cleanup
      <3>2. CASE Restore(p)
        BY <3>2 DEF Restore, RestoreCheck, RestoreMove
      <3>3. CASE \/ Raise(p) \/ RaiseDrop(p) \/ IgnoreCleanup(p) \/ Interrupt(p)
                 \/ Crash(p)
        BY <3>3 DEF Raise, RaiseDrop, IgnoreCleanup, Interrupt, Crash
      <3>4. QED
        BY <1>6, <3>1, <3>2, <3>3
    <2>2. QED
      BY <2>1 DEF Pooled
  <1>7. QED
    BY <1>1, <1>2, <1>3, <1>4, <1>5, <1>6 DEF Own, Advance

LEMMA StepPoolInv ==
  ASSUME PoolInv, NEW p \in Exporter, Begin(p) \/ Own(p)
  PROVE  PoolInv'
  <1>1. TypeInv'
    BY BeginTypeInv, OwnTypeInv DEF PoolInv
  <1>2. NameInv'
    BY BeginNames, OwnNames DEF PoolInv
  <1>3. ASSUME NEW q \in Exporter, q # p PROVE Pooled(q)' /\ Working(q)'
    <2>1. pc[q] # "idle" => run[q] # 0
      BY DEF PoolInv, TypeInv, Known
    <2>2. /\ pc'[q] = pc[q] /\ task'[q] = task[q] /\ outcome'[q] = outcome[q]
          /\ src'[q] = src[q] /\ Active(q)' = Active(q)
          /\ \A statuses : TasksIn(q, statuses)' = TasksIn(q, statuses)
          /\ run[q] # 0 => TempOf(q)' = TempOf(q)
      BY <1>3, Elsewhere DEF PoolInv
    <2>3. Working(q)'
      BY <2>2 DEF PoolInv, Working, AtRest
    <2>4. Pooled(q)'
      BY <2>1, <2>2 DEF PoolInv, Pooled
    <2>5. QED
      BY <2>3, <2>4
  <1>4. Pooled(p)' /\ Working(p)'
    <2>1. CASE Begin(p)
      <3>1. pc'[p] = "list" /\ task'[p] = NoTasks /\ TempOf(p)' = {}
        BY <2>1, BeginNames DEF PoolInv, Begin, Goto, TypeInv, TypeOK
      <3>2. ~Active(p)' /\ TasksIn(p, Status \ {"none"})' = {}
        BY <3>1 DEF Active, TasksIn, NoTasks
      <3>3. QED
        BY <3>1, <3>2 DEF Pooled, Working
    <2>2. QED
      BY <2>1, OwnPooled, OwnWorking
  <1>5. QED
    BY <1>1, <1>2, <1>3, <1>4 DEF PoolInv

LEMMA StutterPoolInv == PoolInv /\ UNCHANGED vars => PoolInv'
  BY StutterTypeInv
     DEF PoolInv, vars, NameInv, RunsDiffer, FutureIsFree, Pooled, Working,
         AtRest, Active, TasksIn, TempOf

-----------------------------------------------------------------------------
(***************************************************************************)
(* What is at the output's name, and in the backups.                       *)
(***************************************************************************)

\* A complete export, or the empty directory somebody made.
Whole == Exports \union {{}}

Alone == \A p, q \in Exporter : p = q

\* A deletion of a backup that fails half-way has no other exporter to disturb.
RemovesAlone == Alone \/ "remove" \notin FaultKind

\* A backup that may be restored is whole.
Saved(p) ==
  /\ pc[p] \in {"list", "pool", "join", "look", "moveOut"} => BackupOf(p) = None
  /\ pc[p] \in {"moveIn", "inCheck"} => BackupOf(p) \in Whole \union {None}
  /\ pc[p] \in {"inMove", "outMove"} => BackupOf(p) \in Whole
  /\ pc[p] = "outCheck" => \/ BackupOf(p) \in Whole \union {None}
                           \/ Alone /\ out # None
  /\ (pc[p] = "drop" /\ Alone) => out # None

OutWhole == out \in Whole \union {None}

OutInv == PoolInv /\ OutWhole /\ \A p \in Exporter : Saved(p)

LEMMA WholeIsContent == Whole \subseteq Content /\ None \notin Whole
  <1>1. {} \in Content
    BY DEF Content
  <1>2. Whole \subseteq Content
    BY <1>1, FullIsContent DEF Whole, Exports
  <1>3. QED
    BY <1>2, NoneAssumption

LEMMA InitOutInv == Init => OutInv
  <1> SUFFICES ASSUME Init PROVE OutInv
    OBVIOUS
  <1>1. PoolInv
    BY InitPoolInv
  <1>2. OutWhole
    BY DEF Init, OutWhole, Whole
  <1>3. \A p \in Exporter : Saved(p)
    BY DEF Init, Saved
  <1>4. QED
    BY <1>1, <1>2, <1>3 DEF OutInv

\* What a step of p makes of the output directory and its backup.
LEMMA OwnMoves ==
  ASSUME PoolInv, NEW p \in Exporter, Own(p)
  PROVE  \/ out' = out /\ BackupOf(p)' = BackupOf(p)
         \/ /\ MoveOut(p) /\ out # None /\ out' = None
            /\ BackupOf(p)' = out /\ pc'[p] = "moveIn"
         \/ /\ MoveIn(p) /\ Replaceable(out) /\ out' = Full(src[p])
            /\ BackupOf(p)' = BackupOf(p) /\ pc'[p] = "drop"
         \/ /\ DropBackup(p) /\ out' = out /\ pc'[p] = "drop"
            /\ BackupOf(p) # None /\ BackupOf(p)' \in Shrunk(BackupOf(p))
         \/ /\ Restore(p) /\ pc[p] \in {"inMove", "outMove"}
            /\ Replaceable(out) /\ out' = BackupOf(p) /\ BackupOf(p)' = None
            /\ pc'[p] = IF pc[p] = "inMove" THEN "outCheck" ELSE "cleanup"
            /\ outcome' = outcome
  <1>0. /\ run[p] \in Runs /\ run' = run
        /\ UNCHANGED backup => BackupOf(p)' = BackupOf(p)
    BY RunIsOwn, OwnIsBusy, OwnFrame DEF PoolInv, arguments, BackupOf
  <1> USE DEF PoolInv, TypeInv, TypeOK, Goto
  <1>1. CASE MoveOut(p)
    BY <1>0, <1>1 DEF MoveOut, BackupOf
  <1>2. CASE MoveIn(p)
    <2>1. TempOf(p) = Full(src[p])
      BY <1>2 DEF MoveIn, Pooled
    <2>2. QED
      BY <1>0, <1>2, <2>1 DEF MoveIn
  <1>3. CASE DropBackup(p)
    BY <1>0, <1>3 DEF DropBackup, BackupOf
  <1>4. CASE Restore(p)
    BY <1>0, <1>4 DEF Restore, RestoreCheck, RestoreMove, BackupOf, dirs
  <1>5. CASE ~(MoveOut(p) \/ MoveIn(p) \/ DropBackup(p) \/ Restore(p))
    <2>1. UNCHANGED <<out, backup>>
      BY <1>5 DEF Own, Advance, Work, Submit, Collect, Collected, Join, Look,
           Cleanup, StartTask, EndTask, FailTask, Raise, RaiseDrop,
           IgnoreCleanup, Interrupt, Crash, dirs
    <2>2. QED
      BY <1>0, <2>1
  <1>6. QED
    BY <1>1, <1>2, <1>3, <1>4, <1>5

LEMMA OwnOutWhole ==
  ASSUME OutInv, NEW p \in Exporter, Own(p)
  PROVE  OutWhole'
  <1>1. Full(src[p]) \in Whole
    BY DEF OutInv, PoolInv, TypeInv, TypeOK, Whole, Exports
  <1>2. pc[p] \in {"inMove", "outMove"} => BackupOf(p) \in Whole
    BY DEF OutInv, Saved
  <1>3. Whole' = Whole
    BY DEF Whole, Exports, Full
  <1>4. QED
    BY <1>1, <1>2, <1>3, OwnMoves DEF OutInv, OutWhole

\* The steps of the code, by where they lead.
LEMMA OwnSaved ==
  ASSUME RemovesAlone, OutInv, NEW p \in Exporter, Own(p)
  PROVE  Saved(p)'
  <1>0. /\ Whole' = Whole /\ None \notin Whole /\ out \in Whole \union {None}
        /\ Saved(p) /\ Full(src[p]) # None
    BY WholeIsContent, FullIsContent
       DEF Whole, Exports, Full, OutInv, OutWhole, PoolInv, TypeInv, TypeOK
  <1>1. CASE MoveOut(p)
    <2>1. CASE out = None
      <3>1. pc[p] = "moveOut" /\ pc'[p] = "outCheck" /\ backup' = backup
            /\ BackupOf(p)' = BackupOf(p)
        BY <1>1, <2>1, OwnFrame
           DEF MoveOut, Goto, arguments, BackupOf, OutInv, PoolInv, TypeInv, TypeOK
      <3>2. QED
        BY <1>0, <3>1 DEF Saved
    <2>2. CASE out # None
      <3>1. BackupOf(p)' = out /\ pc'[p] = "moveIn"
        BY <1>1, <2>2, OwnFrame, RunIsOwn, OwnIsBusy
           DEF MoveOut, Goto, arguments, BackupOf, OutInv, PoolInv, TypeInv, TypeOK
      <3>2. QED
        BY <1>0, <2>2, <3>1 DEF Saved
    <2>3. QED
      BY <2>1, <2>2
  <1>2. CASE MoveIn(p)
    <2>1. BackupOf(p)' = BackupOf(p) /\ pc[p] = "moveIn"
      BY <1>2, OwnFrame DEF MoveIn, arguments, BackupOf, OutInv, PoolInv
    <2>2. \/ pc'[p] = "drop" /\ out' = TempOf(p)
          \/ pc'[p] = "inCheck"
      BY <1>2 DEF MoveIn, Goto, OutInv, PoolInv, TypeInv, TypeOK
    <2>3. TempOf(p) # None
      BY <1>0, <2>1 DEF OutInv, PoolInv, Pooled
    <2>4. QED
      BY <1>0, <2>1, <2>2, <2>3 DEF Saved
  <1>3. CASE DropBackup(p)
    <2>1. /\ pc[p] = "drop" /\ out' = out
          /\ pc'[p] \in {"drop", "cleanup"}
      BY <1>3 DEF DropBackup, Goto, OutInv, PoolInv, TypeInv, TypeOK
    <2>2. QED
      BY <1>0, <2>1 DEF Saved
  <1>4. CASE Restore(p)
    <2>1. PoolInv
      BY DEF OutInv
    <2>2. CASE pc[p] \in {"inCheck", "outCheck"}
      <3>1. /\ out' = out /\ BackupOf(p)' = BackupOf(p)
            /\ \/ /\ pc'[p] \in {"inMove", "outMove"}
                  /\ BackupOf(p) # None /\ out = None
               \/ pc[p] = "inCheck" /\ pc'[p] = "outCheck"
               \/ pc'[p] = "cleanup"
        BY <1>4, <2>1, <2>2, OwnFrame
           DEF Restore, RestoreCheck, RestoreMove, dirs, arguments, BackupOf,
               Goto, PoolInv, TypeInv, TypeOK
      <3>2. QED
        BY <1>0, <2>2, <3>1 DEF Saved
    <2>3. CASE pc[p] \in {"inMove", "outMove"}
      <3>1. /\ pc'[p] \in {"outCheck", "cleanup"}
            /\ BackupOf(p)' \in {BackupOf(p), None}
        BY <1>4, <2>1, <2>3, OwnFrame, RunIsOwn, OwnIsBusy
           DEF Restore, RestoreCheck, RestoreMove, arguments, BackupOf,
               Goto, PoolInv, TypeInv, TypeOK
      <3>2. QED
        BY <1>0, <2>3, <3>1 DEF Saved
    <2>4. QED
      BY <1>4, <2>2, <2>3 DEF Restore, RestoreCheck, RestoreMove
  <1>5. CASE Raise(p)
    <2>1. /\ pc[p] \in {"list", "moveOut", "moveIn", "inMove", "outMove"}
          /\ BackupOf(p)' = BackupOf(p)
          /\ pc'[p] = CASE pc[p] = "moveIn"  -> "inCheck"
                        [] pc[p] = "outMove" -> "cleanup"
                        [] OTHER             -> "outCheck"
      BY <1>5, OwnFrame
         DEF Raise, dirs, arguments, BackupOf, Goto, OutInv, PoolInv, TypeInv, TypeOK
    <2>2. QED
      BY <1>0, <2>1 DEF Saved
  <1>6. CASE RaiseDrop(p)
    <2>1. pc[p] = "drop" /\ pc'[p] = "outCheck" /\ out' = out /\ "remove" \in FaultKind
      BY <1>6 DEF RaiseDrop, Fault, Goto, dirs, OutInv, PoolInv, TypeInv, TypeOK
    <2>2. Alone /\ Alone' /\ out # None
      BY <1>0, <2>1 DEF RemovesAlone, Alone, Saved
    <2>3. QED
      BY <2>1, <2>2 DEF Saved
  <1>7. CASE \/ Submit(p) \/ Work(p) \/ FailTask(p) \/ Collect(p) \/ Collected(p)
             \/ Join(p) \/ Look(p)
    <2>1. out' = out /\ BackupOf(p)' = BackupOf(p)
      BY <1>7, OwnFrame
         DEF Submit, Work, StartTask, EndTask, FailTask, Collect, Collected, Join,
             Look, dirs, arguments, BackupOf, OutInv, PoolInv
    <2>2. \/ pc'[p] = pc[p]
          \/ /\ pc[p] \in {"list", "pool", "join", "look"}
             /\ pc'[p] \in {"pool", "join", "look", "moveOut", "moveIn",
                            "outCheck", "cleanup"}
      <3> USE DEF OutInv, PoolInv, TypeInv, TypeOK, Goto
      <3>1. CASE Submit(p) \/ Collect(p) \/ Collected(p) \/ Join(p) \/ Look(p)
        BY <3>1 DEF Submit, Collect, Collected, Join, Look
      <3>2. CASE Work(p) \/ FailTask(p)
        BY <3>2 DEF Work, StartTask, EndTask, FailTask
      <3>3. QED
        BY <1>7, <3>1, <3>2
    <2>3. QED
      BY <1>0, <2>1, <2>2 DEF Saved
  <1>8. CASE Cleanup(p) \/ IgnoreCleanup(p) \/ Interrupt(p) \/ Crash(p)
    <2>1. \/ pc'[p] \in {"cleanup", "idle"}
          \/ pc[p] = "pool" /\ pc'[p] = "join" /\ backup' = backup
      BY <1>8 DEF Cleanup, IgnoreCleanup, Interrupt, Crash, Goto, dirs,
           OutInv, PoolInv, TypeInv, TypeOK
    <2>2. backup' = backup => BackupOf(p)' = BackupOf(p)
      BY OwnFrame DEF arguments, BackupOf, OutInv, PoolInv
    <2>3. QED
      BY <1>0, <2>1, <2>2 DEF Saved
  <1>9. QED
    BY <1>1, <1>2, <1>3, <1>4, <1>5, <1>6, <1>7, <1>8 DEF Own, Advance

LEMMA StepOutInv ==
  ASSUME RemovesAlone, OutInv, NEW p \in Exporter, Begin(p) \/ Own(p)
  PROVE  OutInv'
  <1>1. PoolInv'
    BY StepPoolInv DEF OutInv
  <1>2. OutWhole'
    <2>1. CASE Begin(p)
      BY <2>1 DEF Begin, OutInv, OutWhole, Whole, Exports, Full
    <2>2. QED
      BY <2>1, OwnOutWhole
  <1>3. ASSUME NEW q \in Exporter, q # p PROVE Saved(q)'
    <2>1. pc[q] # "idle" => run[q] # 0
      BY DEF OutInv, PoolInv, TypeInv, Known
    <2>2. /\ pc'[q] = pc[q]
          /\ run[q] # 0 => BackupOf(q)' = BackupOf(q)
      BY <1>3, Elsewhere DEF OutInv, PoolInv
    <2>3. ~Alone /\ ~Alone' /\ Whole' = Whole
      BY <1>3 DEF Alone, Whole, Exports, Full
    <2>4. QED
      BY <2>1, <2>2, <2>3 DEF OutInv, Saved
  <1>4. Saved(p)'
    <2>1. CASE Begin(p)
      <3>1. pc'[p] = "list" /\ BackupOf(p)' = None
        BY <2>1, BeginNames DEF OutInv, PoolInv, TypeInv, TypeOK, Begin, Goto
      <3>2. QED
        BY <3>1 DEF Saved
    <2>2. QED
      BY <2>1, OwnSaved
  <1>5. QED
    BY <1>1, <1>2, <1>3, <1>4 DEF OutInv

LEMMA NextOutInv ==
  ASSUME RemovesAlone
  PROVE  OutInv /\ [Next]_vars => OutInv'
  <1>1. OutInv /\ UNCHANGED vars => OutInv'
    BY StutterPoolInv
       DEF OutInv, vars, OutWhole, Whole, Exports, Full, Saved, Alone, BackupOf
  <1>2. QED
    BY <1>1, StepOutInv, StepsAre

\* The output directory is never a part of an export, nor of two: whatever
\* fails, and however many exporters race for it, unless one of them fails to
\* delete its backup while another is at work.
THEOREM OutputIsWhole ==
  ASSUME RemovesAlone
  PROVE  Spec => []OutIsWhole
  <1>1. OutInv => OutIsWhole
    BY DEF OutInv, OutWhole, Whole, OutIsWhole
  <1>2. OutInv /\ [Next]_vars => OutInv'
    BY NextOutInv
  <1>3. QED
    BY <1>1, <1>2, InitOutInv, PTL DEF Spec

-----------------------------------------------------------------------------
(***************************************************************************)
(* Some complete export survives.                                          *)
(***************************************************************************)

\* No process deletes the backup of run r.
Spared(r) == \A p \in Exporter : pc[p] = "drop" => run[p] # r

\* Once there was a complete export, there is one at the output's name or in a
\* backup that nobody deletes.
Survives ==
  (\E p \in Exporter : origin[p] \in Exports) =>
    \/ out \in Exports
    \/ \E r \in Runs : Spared(r) /\ backup[r] \in Exports

SurviveInv == OutInv /\ Survives

\* Runs that a step of p lets go on being spared.
LEMMA StaysSpared ==
  ASSUME PoolInv, NEW p \in Exporter, Own(p), NEW r \in Runs, Spared(r),
         pc'[p] = "drop" => pc[p] = "drop" \/ run[p] # r
  PROVE  Spared(r)'
  BY OwnFrame DEF Spared, PoolInv, arguments

LEMMA OwnSurvives ==
  ASSUME SurviveInv, NEW p \in Exporter, Own(p)
  PROVE  Survives'
  <1>0. /\ PoolInv /\ Saved(p) /\ OutWhole
        /\ run[p] \in Runs /\ run' = run /\ origin' = origin
        /\ Exports' = Exports /\ None \notin Exports /\ Full(src[p]) \in Exports
        /\ BackupOf(p) = backup[run[p]] /\ BackupOf(p)' = backup'[run[p]]
    <2>1. PoolInv /\ Saved(p) /\ OutWhole
      BY DEF SurviveInv, OutInv
    <2>2. run[p] \in Runs /\ run' = run /\ origin' = origin
      BY <2>1, RunIsOwn, OwnIsBusy, OwnFrame DEF PoolInv, arguments
    <2>3. /\ Exports' = Exports /\ None \notin Exports
          /\ Full(src[p]) \in Exports
      BY <2>1, WholeIsContent DEF Whole, Exports, Full, PoolInv, TypeInv, TypeOK
    <2>4. QED
      BY <2>1, <2>2, <2>3 DEF BackupOf
  <1>1. SUFFICES ASSUME \E q \in Exporter : origin[q] \in Exports
                 PROVE  \/ out' \in Exports
                        \/ \E r \in Runs : Spared(r)' /\ backup'[r] \in Exports
    BY <1>0 DEF Survives
  <1>2. \A r \in Runs : r # run[p] => backup'[r] = backup[r]
    BY <1>0, OwnFrame DEF PoolInv
  <1>3. CASE out' = out /\ BackupOf(p)' = BackupOf(p)
    <2>1. CASE out \in Exports
      BY <1>3, <2>1
    <2>2. CASE out \notin Exports
      <3>1. PICK r \in Runs : Spared(r) /\ backup[r] \in Exports
        BY <1>1, <2>2 DEF SurviveInv, Survives
      <3>2. backup'[r] = backup[r]
        BY <1>0, <1>2, <1>3
      <3>3. pc'[p] = "drop" => pc[p] = "drop" \/ MoveIn(p)
        <4> USE <1>0 DEF PoolInv, TypeInv, TypeOK, Goto
        <4>1. CASE Submit(p) \/ Collect(p) \/ Collected(p) \/ Join(p) \/ Look(p)
          BY <4>1 DEF Submit, Collect, Collected, Join, Look
        <4>2. CASE MoveOut(p) \/ DropBackup(p) \/ Cleanup(p) \/ Restore(p)
          BY <4>2 DEF MoveOut, DropBackup, Cleanup, Restore, RestoreCheck, RestoreMove
        <4>3. CASE Work(p) \/ FailTask(p)
          BY <4>3 DEF Work, StartTask, EndTask, FailTask
        <4>4. CASE \/ Raise(p) \/ RaiseDrop(p) \/ IgnoreCleanup(p) \/ Interrupt(p)
                   \/ Crash(p)
          BY <4>4 DEF Raise, RaiseDrop, IgnoreCleanup, Interrupt, Crash
        <4>5. QED
          BY <4>1, <4>2, <4>3, <4>4 DEF Own, Advance
      <3>4. MoveIn(p) /\ pc'[p] = "drop" => out' \in Exports
        <4>1. MoveIn(p) /\ pc'[p] = "drop" => out' = TempOf(p) /\ pc[p] = "moveIn"
          BY <1>0 DEF MoveIn, Goto, PoolInv, TypeInv, TypeOK
        <4>2. QED
          BY <1>0, <4>1 DEF PoolInv, Pooled
      <3>5. Spared(r)' \/ out' \in Exports
        BY <1>0, <3>1, <3>3, <3>4, StaysSpared
      <3>6. QED
        BY <3>1, <3>2, <3>5
    <2>3. QED
      BY <2>1, <2>2
  <1>4. CASE MoveOut(p) /\ out # None /\ BackupOf(p)' = out /\ pc'[p] = "moveIn"
    <2>1. Spared(run[p])'
      <3>1. \A q \in Exporter : q # p => run[q] # run[p]
        <4>1. run[p] # 0
          BY <1>0 DEF Runs
        <4>2. QED
          BY <1>0, <4>1 DEF PoolInv, NameInv, RunsDiffer
      <3>2. QED
        BY <1>0, <1>4, <3>1 DEF Spared
    <2>2. CASE out \in Exports
      BY <1>0, <1>4, <2>1, <2>2
    <2>3. CASE out \notin Exports
      <3>1. PICK r \in Runs : Spared(r) /\ backup[r] \in Exports
        BY <1>1, <2>3 DEF SurviveInv, Survives
      <3>2. BackupOf(p) = None
        BY <1>0, <1>4 DEF MoveOut, Saved
      <3>3. backup'[r] = backup[r]
        BY <1>0, <1>2, <3>1, <3>2
      <3>4. Spared(r)'
        BY <1>0, <1>4, <3>1, StaysSpared
      <3>5. QED
        BY <3>1, <3>3, <3>4
    <2>4. QED
      BY <2>2, <2>3
  <1>5. CASE MoveIn(p) /\ out' = Full(src[p])
    BY <1>0, <1>5
  <1>6. CASE DropBackup(p) /\ out' = out /\ pc'[p] = "drop"
    <2>1. CASE out \in Exports
      BY <1>6, <2>1
    <2>2. CASE out \notin Exports
      <3>1. PICK r \in Runs : Spared(r) /\ backup[r] \in Exports
        BY <1>1, <2>2 DEF SurviveInv, Survives
      <3>2. pc[p] = "drop"
        BY <1>6 DEF DropBackup
      <3>3. backup'[r] = backup[r]
        BY <1>2, <3>1, <3>2 DEF Spared
      <3>4. Spared(r)'
        BY <1>0, <3>1, <3>2, StaysSpared
      <3>5. QED
        BY <3>1, <3>3, <3>4
    <2>3. QED
      BY <2>1, <2>2
  <1>7. CASE /\ Restore(p) /\ pc[p] \in {"inMove", "outMove"}
             /\ Replaceable(out) /\ out' = BackupOf(p)
             /\ pc'[p] = IF pc[p] = "inMove" THEN "outCheck" ELSE "cleanup"
    <2>1. BackupOf(p) \in Exports \union {{}}
      BY <1>0, <1>7 DEF Saved, Whole
    <2>2. CASE out \in Exports
      BY <1>0, <1>7, <2>1, <2>2 DEF Replaceable
    <2>3. CASE out \notin Exports
      <3>1. PICK r \in Runs : Spared(r) /\ backup[r] \in Exports
        BY <1>1, <2>3 DEF SurviveInv, Survives
      <3>2. CASE r = run[p]
        BY <1>0, <1>7, <3>1, <3>2
      <3>3. CASE r # run[p]
        <4>1. Spared(r)'
          BY <1>0, <1>7, <3>1, StaysSpared
        <4>2. QED
          BY <1>2, <3>1, <3>3, <4>1
      <3>4. QED
        BY <3>2, <3>3
    <2>4. QED
      BY <2>2, <2>3
  <1>8. QED
    BY <1>0, <1>3, <1>4, <1>5, <1>6, <1>7, OwnMoves

LEMMA BeginSurvives ==
  ASSUME SurviveInv, NEW p \in Exporter, Begin(p)
  PROVE  Survives'
  <1>1. /\ out' = out /\ backup' = backup /\ Exports' = Exports
        /\ origin' = [origin EXCEPT ![p] = out]
    BY DEF Begin, Exports, Full
  <1>2. \A r \in Runs : Spared(r) => Spared(r)'
    <2>1. pc'[p] = "list"
      BY DEF Begin, Goto, SurviveInv, OutInv, PoolInv, TypeInv, TypeOK
    <2>2. \A q \in Exporter : q # p => pc'[q] = pc[q] /\ run'[q] = run[q]
      BY Elsewhere DEF SurviveInv, OutInv, PoolInv
    <2>3. QED
      BY <2>1, <2>2 DEF Spared
  <1>3. ASSUME NEW q \in Exporter, origin'[q] \in Exports
        PROVE  out \in Exports \/ origin[q] \in Exports
    BY <1>1, <1>3 DEF SurviveInv, OutInv, PoolInv, TypeInv, TypeOK
  <1>4. QED
    BY <1>1, <1>2, <1>3 DEF SurviveInv, Survives

\* However many exporters race for one directory, and whatever fails, once
\* there was a complete export there is one at the output's name or in a backup.
THEOREM AnExportSurvives ==
  ASSUME RemovesAlone
  PROVE  Spec => []ExportSurvives
  <1>1. Init => SurviveInv
    <2>1. Init => Survives
      BY WholeIsContent DEF Init, Survives, Whole
    <2>2. QED
      BY <2>1, InitOutInv DEF SurviveInv
  <1>2. SurviveInv /\ [Next]_vars => SurviveInv'
    <2>1. SUFFICES ASSUME SurviveInv, [Next]_vars PROVE SurviveInv'
      OBVIOUS
    <2>2. OutInv'
      BY <2>1, NextOutInv DEF SurviveInv
    <2>3. CASE UNCHANGED vars
      BY <2>1, <2>2, <2>3 DEF SurviveInv, Survives, Spared, vars, Exports, Full
    <2>4. QED
      BY <2>1, <2>2, <2>3, BeginSurvives, OwnSurvives, StepsAre DEF SurviveInv
  <1>3. SurviveInv => ExportSurvives
    BY DEF SurviveInv, Survives, ExportSurvives
  <1>4. QED
    BY <1>1, <1>2, <1>3, PTL DEF Spec

-----------------------------------------------------------------------------
(***************************************************************************)
(* What a run leaves behind, and what it says.                             *)
(***************************************************************************)

\* What a run can have come to, by the step it is at.
Verdict(p) ==
  /\ pc[p] \in (Exporting \union Swapping) \ {"join"} => outcome[p] = "pending"
  /\ pc[p] = "join" => outcome[p] \in {"failed", "interrupted"}
  /\ pc[p] \in {"inCheck", "inMove"} => outcome[p] = "failed"
  /\ pc[p] \in {"outCheck", "outMove"} => outcome[p] \in {"failed", "late"}


Littered(p) ==
  /\ (pc[p] \in {"cleanup", "idle"} /\ outcome[p] = "ok") => BackupOf(p) = None
  /\ (pc[p] = "idle" /\ outcome[p] \in {"ok", "failed"}) => TempOf(p) = None

\* What a run did before it ends, when there is no other: the output is as it
\* was, or aside, until the new export takes its name.
Truth(p) ==
  /\ pc[p] \in {"list", "pool", "join", "look", "moveOut"} =>
       out = origin[p] /\ BackupOf(p) = None
  /\ pc[p] \in {"moveIn", "inCheck", "inMove", "outMove"} =>
       out = None /\ BackupOf(p) = origin[p]
  /\ pc[p] = "outMove" => outcome[p] = "failed"
  /\ pc[p] = "drop" => out = Full(src[p])
  /\ (pc[p] = "outCheck" /\ outcome[p] = "late") => out = Full(src[p])
  /\ (pc[p] = "outCheck" /\ outcome[p] = "failed") =>
       \/ out = origin[p] /\ BackupOf(p) = None
       \/ out = None /\ BackupOf(p) = origin[p]
  /\ pc[p] \in {"cleanup", "idle"} =>
       /\ outcome[p] \in {"ok", "late"} => out = Full(src[p])
       /\ outcome[p] = "failed" => out = origin[p]

VerdictInv == PoolInv /\ \A p \in Exporter : Verdict(p)
LitterInv == VerdictInv /\ \A p \in Exporter : Littered(p)
TruthInv == VerdictInv /\ \A p \in Exporter : Truth(p)

LEMMA OwnVerdict ==
  ASSUME VerdictInv, NEW p \in Exporter, Own(p)
  PROVE  Verdict(p)'
  <1>0. PoolInv /\ Verdict(p)
    BY DEF VerdictInv
  <1> USE <1>0 DEF PoolInv, TypeInv, TypeOK, Goto, Conclude, Verdict, Exporting, Swapping
  <1>1. CASE Submit(p) \/ Collect(p) \/ Collected(p)
    <2>1. CASE Submit(p) \/ Collected(p)
      BY <2>1 DEF Submit, Collected
    <2>2. CASE Collect(p)
      <3>1. \/ pc'[p] = "pool" /\ outcome'[p] = "pending"
            \/ pc'[p] = "join" /\ outcome'[p] = "failed"
        BY <2>2 DEF Collect
      <3>2. QED
        BY <3>1
    <2>3. QED
      BY <1>1, <2>1, <2>2
  <1>2. CASE Join(p) \/ Look(p)
    BY <1>2 DEF Join, Look
  <1>3. CASE MoveOut(p) \/ MoveIn(p) \/ DropBackup(p)
    BY <1>3 DEF MoveOut, MoveIn, DropBackup
  <1>4. CASE Restore(p)
    <2>1. CASE pc[p] \in {"inCheck", "outCheck"}
      <3>1. /\ outcome' = outcome
            /\ \/ pc[p] = "inCheck" /\ pc'[p] \in {"inMove", "outCheck"}
               \/ pc[p] = "outCheck" /\ pc'[p] \in {"outMove", "cleanup"}
            /\ pc'[p] = "outMove" => BackupOf(p) # None
        BY <1>4, <2>1 DEF Restore, RestoreCheck, RestoreMove
      <3>2. /\ pc[p] = "inCheck" => outcome[p] = "failed"
            /\ outcome[p] \in {"failed", "late"}
        BY <2>1
      <3>3. \/ pc'[p] \in {"inMove", "outCheck"} /\ outcome'[p] = "failed"
            \/ pc'[p] = "outMove" /\ outcome'[p] \in {"failed", "late"}
            \/ pc'[p] = "cleanup"
        BY <3>1, <3>2
      <3>4. QED
        BY <3>3
    <2>2. CASE pc[p] \in {"inMove", "outMove"}
      <3>1. \/ pc'[p] = "outCheck" /\ outcome'[p] = "failed"
            \/ pc'[p] = "cleanup"
        BY <1>4, <2>2 DEF Restore, RestoreCheck, RestoreMove
      <3>2. QED
        BY <3>1
    <2>3. QED
      BY <1>4, <2>1, <2>2 DEF Restore, RestoreCheck, RestoreMove
  <1>5. CASE Cleanup(p) \/ IgnoreCleanup(p) \/ Crash(p)
    <2>1. pc'[p] \in {"cleanup", "idle"}
      BY <1>5 DEF Cleanup, IgnoreCleanup, Crash
    <2>2. QED
      BY <2>1
  <1>6. CASE Work(p) \/ FailTask(p)
    BY <1>6 DEF Work, StartTask, EndTask, FailTask
  <1>7. CASE Raise(p) \/ RaiseDrop(p)
    <2>1. \/ pc'[p] = "inCheck" /\ outcome'[p] = "failed"
          \/ pc'[p] = "outCheck" /\ outcome'[p] \in {"failed", "late"}
          \/ pc'[p] = "cleanup"
      BY <1>7 DEF Raise, RaiseDrop
    <2>2. QED
      BY <2>1
  <1>8. CASE Interrupt(p)
    <2>1. \/ pc[p] = "pool" /\ pc'[p] = "join" /\ outcome'[p] = Ended(p, "interrupted")
          \/ pc'[p] \in {"cleanup", "idle"}
      BY <1>8 DEF Interrupt
    <2>2. QED
      BY <2>1 DEF Ended
  <1>9. QED
    BY <1>1, <1>2, <1>3, <1>4, <1>5, <1>6, <1>7, <1>8 DEF Own, Advance

LEMMA NextVerdictInv == VerdictInv /\ [Next]_vars => VerdictInv'
  <1>1. ASSUME VerdictInv, NEW p \in Exporter, Begin(p) \/ Own(p) PROVE VerdictInv'
    <2>1. PoolInv'
      BY <1>1, StepPoolInv DEF VerdictInv
    <2>2. ASSUME NEW q \in Exporter, q # p PROVE Verdict(q)'
      BY <1>1, <2>2, Elsewhere DEF VerdictInv, PoolInv, Verdict
    <2>3. Verdict(p)'
      <3>1. CASE Begin(p)
        BY <1>1, <3>1
           DEF Begin, Goto, Conclude, Verdict, Exporting, VerdictInv, PoolInv,
               TypeInv, TypeOK
      <3>2. QED
        BY <1>1, <3>1, OwnVerdict
    <2>4. QED
      BY <2>1, <2>2, <2>3 DEF VerdictInv
  <1>2. VerdictInv /\ UNCHANGED vars => VerdictInv'
    BY StutterPoolInv DEF VerdictInv, Verdict, vars
  <1>3. QED
    BY <1>1, <1>2, StepsAre

LEMMA InitVerdictInv == Init => VerdictInv
  BY InitPoolInv
     DEF Init, VerdictInv, Verdict, Exporting, Swapping

LEMMA OwnLittered ==
  ASSUME "remove" \notin FaultKind, LitterInv, NEW p \in Exporter, Own(p)
  PROVE  Littered(p)'
  <1>0. /\ PoolInv /\ Littered(p) /\ run' = run
        /\ UNCHANGED temp => TempOf(p)' = TempOf(p)
        /\ UNCHANGED backup => BackupOf(p)' = BackupOf(p)
    BY OwnFrame DEF LitterInv, VerdictInv, PoolInv, arguments, TempOf, BackupOf
  <1> USE DEF PoolInv, TypeInv, TypeOK, Goto, Conclude
  <1>1. CASE DropBackup(p)
    <2>1. \/ pc'[p] = "drop"
          \/ pc'[p] = "cleanup" /\ BackupOf(p) = None /\ backup' = backup
      BY <1>0, <1>1 DEF DropBackup
    <2>2. QED
      BY <1>0, <2>1 DEF Littered
  <1>2. CASE Cleanup(p)
    <2>1. /\ pc[p] = "cleanup" /\ outcome' = outcome /\ backup' = backup
          /\ \/ pc'[p] = "idle" /\ temp' = temp /\ (TempOf(p) = None \/ Active(p))
             \/ pc'[p] = "cleanup"
      BY <1>0, <1>2 DEF Cleanup
    <2>2. outcome[p] \in {"ok", "failed"} => ~Active(p)
      BY <1>0, <2>1 DEF Working, AtRest
    <2>3. QED
      BY <1>0, <2>1, <2>2 DEF Littered
  <1>3. CASE Work(p) \/ FailTask(p)
    <2>1. Active(p) /\ pc' = pc /\ outcome' = outcome /\ backup' = backup
      BY <1>3 DEF Work, StartTask, EndTask, FailTask, Active, TasksIn, dirs
    <2>2. ~AtRest(p)
      BY <1>0, <2>1 DEF Working
    <2>3. QED
      BY <1>0, <2>1, <2>2 DEF Littered, AtRest
  <1>4. CASE Interrupt(p) \/ Crash(p)
    <2>1. outcome'[p] \in {"late", "interrupted", "crashed"}
      BY <1>0, <1>4 DEF Interrupt, Crash, Ended
    <2>2. QED
      BY <2>1 DEF Littered
  <1>5. CASE \/ Submit(p) \/ Collect(p) \/ Collected(p) \/ Look(p) \/ MoveOut(p)
             \/ MoveIn(p) \/ RaiseDrop(p)
    <2>1. pc'[p] \notin {"cleanup", "idle"}
      <3>1. CASE Submit(p) \/ Collect(p) \/ Collected(p) \/ Look(p)
        BY <1>0, <3>1 DEF Submit, Collect, Collected, Look
      <3>2. CASE MoveOut(p) \/ MoveIn(p) \/ RaiseDrop(p)
        BY <1>0, <3>2 DEF MoveOut, MoveIn, RaiseDrop
      <3>3. QED
        BY <1>5, <3>1, <3>2
    <2>2. QED
      BY <2>1 DEF Littered
  <1>6. CASE Join(p) \/ Raise(p) \/ Restore(p)
    <2>1. pc'[p] # "idle"
      BY <1>0, <1>6 DEF Join, Raise, Restore, RestoreCheck, RestoreMove
    <2>2. outcome[p] # "ok"
      <3>1. pc[p] \notin {"cleanup", "idle"}
        BY <1>0, <1>6 DEF Join, Raise, Restore, RestoreCheck, RestoreMove
      <3>2. QED
        BY <3>1 DEF LitterInv, VerdictInv, Verdict, Exporting, Swapping, Step,
             Restoring
    <2>3. outcome'[p] # "ok"
      BY <1>0, <1>6, <2>2 DEF Join, Raise, Restore, RestoreCheck, RestoreMove
    <2>4. QED
      BY <2>1, <2>3 DEF Littered
  <1>7. CASE IgnoreCleanup(p)
    BY <1>7 DEF IgnoreCleanup, Fault
  <1>8. QED
    BY <1>1, <1>2, <1>3, <1>4, <1>5, <1>6, <1>7 DEF Own, Advance

\* A run that returns leaves no thread at work and no temporary directory, and
\* one that succeeds no backup, when deletions do not fail: however many
\* exporters race, and whatever else goes wrong.
THEOREM RunsLeaveNoLitter ==
  ASSUME "remove" \notin FaultKind
  PROVE  Spec => []NoLitter
  <1>1. Init => LitterInv
    BY InitVerdictInv DEF Init, LitterInv, Littered
  <1>2. LitterInv /\ [Next]_vars => LitterInv'
    <2>1. ASSUME LitterInv, NEW p \in Exporter, Begin(p) \/ Own(p)
          PROVE  \A q \in Exporter : Littered(q)'
      <3>1. ASSUME NEW q \in Exporter, q # p PROVE Littered(q)'
        <4>1. outcome[q] \in {"ok", "failed"} => run[q] # 0
          BY <2>1 DEF LitterInv, VerdictInv, PoolInv, TypeInv, Known
        <4>2. /\ pc'[q] = pc[q] /\ outcome'[q] = outcome[q]
              /\ run[q] # 0 => TempOf(q)' = TempOf(q) /\ BackupOf(q)' = BackupOf(q)
          BY <2>1, <3>1, Elsewhere DEF LitterInv, VerdictInv, PoolInv
        <4>3. QED
          BY <2>1, <4>1, <4>2 DEF LitterInv, Littered
      <3>2. Littered(p)'
        <4>1. CASE Begin(p)
          <5>1. pc'[p] = "list"
            BY <2>1, <4>1
               DEF Begin, Goto, LitterInv, VerdictInv, PoolInv, TypeInv, TypeOK
          <5>2. QED
            BY <5>1 DEF Littered
        <4>2. QED
          BY <2>1, <4>1, OwnLittered
      <3>3. QED
        BY <3>1, <3>2
    <2>2. LitterInv /\ UNCHANGED vars => \A q \in Exporter : Littered(q)'
      BY DEF LitterInv, Littered, vars, TempOf, BackupOf
    <2>3. LitterInv /\ [Next]_vars => VerdictInv'
      BY NextVerdictInv DEF LitterInv
    <2>4. QED
      BY <2>1, <2>2, <2>3, StepsAre DEF LitterInv
  <1>3. LitterInv => NoLitter
    <2>1. SUFFICES ASSUME LitterInv, NEW p \in Exporter, pc[p] = "idle"
                   PROVE  /\ outcome[p] \in {"ok", "failed"} =>
                               ~Active(p) /\ TempOf(p) = None
                          /\ outcome[p] = "ok" => BackupOf(p) = None
      BY DEF NoLitter
    <2>2. outcome[p] \in {"ok", "failed"} => ~Active(p)
      BY <2>1 DEF LitterInv, VerdictInv, PoolInv, Working, AtRest
    <2>3. QED
      BY <2>1, <2>2 DEF LitterInv, Littered
  <1>4. QED
    BY <1>1, <1>2, <1>3, PTL DEF Spec

LEMMA OwnTruth ==
  ASSUME TruthInv, NEW p \in Exporter, Own(p)
  PROVE  Truth(p)'
  <1>0. /\ PoolInv /\ Verdict(p) /\ Truth(p)
        /\ run[p] \in Runs /\ run' = run /\ src' = src /\ origin' = origin
        /\ Full(src[p]) # None /\ Full(src[p])' = Full(src[p])
        /\ UNCHANGED backup => BackupOf(p)' = BackupOf(p)
    <2>1. PoolInv /\ Verdict(p) /\ Truth(p)
      BY DEF TruthInv, VerdictInv
    <2>2. run[p] \in Runs /\ run' = run /\ src' = src /\ origin' = origin
      BY <2>1, RunIsOwn, OwnIsBusy, OwnFrame DEF PoolInv, arguments
    <2>3. Full(src[p]) # None
      BY <2>1, FullIsContent DEF PoolInv, TypeInv, TypeOK
    <2>4. QED
      BY <2>1, <2>2, <2>3 DEF Full, BackupOf
  <1> USE DEF PoolInv, TypeInv, TypeOK, Goto, Conclude
  <1>1. CASE \/ Submit(p) \/ Collect(p) \/ Collected(p) \/ Work(p) \/ FailTask(p)
    <2>1. UNCHANGED <<out, backup>>
      BY <1>1 DEF Submit, Collect, Collected, Work, StartTask, EndTask, FailTask, dirs
    <2>2. \/ pc[p] \in {"list", "pool"} /\ pc'[p] \in {"pool", "join", "look"}
          \/ pc' = pc /\ outcome' = outcome
      <3>1. CASE Submit(p) \/ Collect(p) \/ Collected(p)
        BY <1>0, <3>1 DEF Submit, Collect, Collected
      <3>2. CASE Work(p) \/ FailTask(p)
        BY <3>2 DEF Work, StartTask, EndTask, FailTask
      <3>3. QED
        BY <1>1, <3>1, <3>2
    <2>3. QED
      BY <1>0, <2>1, <2>2 DEF Truth
  <1>2. CASE Join(p)
    <2>1. /\ pc[p] = "join" /\ UNCHANGED <<out, backup>> /\ outcome' = outcome
          /\ pc'[p] = IF outcome[p] = "failed" THEN "outCheck" ELSE "cleanup"
      BY <1>0, <1>2 DEF Join, dirs
    <2>2. outcome[p] \in {"failed", "interrupted"}
      BY <1>0, <2>1 DEF Verdict
    <2>3. QED
      BY <1>0, <2>1, <2>2 DEF Truth
  <1>3. CASE Look(p)
    <2>1. /\ pc[p] = "look" /\ UNCHANGED <<out, backup>>
          /\ pc'[p] = IF out = None THEN "moveIn" ELSE "moveOut"
      BY <1>0, <1>3 DEF Look, dirs
    <2>2. QED
      BY <1>0, <2>1 DEF Truth
  <1>4. CASE MoveOut(p)
    <2>1. pc[p] = "moveOut" /\ out = origin[p] /\ BackupOf(p) = None
      BY <1>0, <1>4 DEF MoveOut, Truth
    <2>2. \/ /\ out' = out /\ backup' = backup /\ pc'[p] = "outCheck"
             /\ outcome'[p] = "failed"
          \/ out' = None /\ BackupOf(p)' = out /\ pc'[p] = "moveIn"
      BY <1>0, <1>4 DEF MoveOut, BackupOf
    <2>3. QED
      BY <1>0, <2>1, <2>2 DEF Truth
  <1>5. CASE MoveIn(p)
    <2>1. /\ pc[p] = "moveIn" /\ out = None /\ backup' = backup
          /\ TempOf(p) = Full(src[p])
      BY <1>0, <1>5 DEF MoveIn, Truth, Pooled
    <2>2. out' = Full(src[p]) /\ pc'[p] = "drop"
      BY <1>0, <1>5, <2>1 DEF MoveIn, Replaceable
    <2>3. QED
      BY <1>0, <2>1, <2>2 DEF Truth
  <1>6. CASE DropBackup(p)
    <2>1. pc[p] = "drop" /\ out' = out /\ pc'[p] \in {"drop", "cleanup"}
          /\ (pc'[p] = "cleanup" => outcome'[p] = "ok")
      BY <1>0, <1>6 DEF DropBackup
    <2>2. QED
      BY <1>0, <2>1 DEF Truth
  <1>7. CASE Restore(p)
    <2>1. CASE pc[p] = "inCheck"
      <3>1. /\ UNCHANGED <<out, backup>> /\ outcome' = outcome
            /\ pc'[p] \in {"inMove", "outCheck"}
        BY <1>0, <1>7, <2>1 DEF Restore, RestoreCheck, RestoreMove, dirs
      <3>2. QED
        BY <1>0, <2>1, <3>1 DEF Truth, Verdict
    <2>2. CASE pc[p] = "outCheck"
      <3>1. /\ UNCHANGED <<out, backup>> /\ outcome' = outcome
            /\ pc'[p] = IF BackupOf(p) # None /\ out = None THEN "outMove" ELSE "cleanup"
        BY <1>0, <1>7, <2>2 DEF Restore, RestoreCheck, RestoreMove, dirs
      <3>2. outcome[p] \in {"failed", "late"}
        BY <1>0, <2>2 DEF Verdict
      <3>3. QED
        BY <1>0, <2>2, <3>1, <3>2 DEF Truth
    <2>3. CASE pc[p] \in {"inMove", "outMove"}
      <3>1. out = None /\ BackupOf(p) = origin[p] /\ outcome[p] = "failed"
        BY <1>0, <2>3 DEF Truth, Verdict
      <3>2. /\ out' = origin[p] /\ BackupOf(p)' = None /\ outcome' = outcome
            /\ pc'[p] \in {"outCheck", "cleanup"}
        BY <1>0, <1>7, <2>3, <3>1
           DEF Restore, RestoreCheck, RestoreMove, Replaceable, BackupOf
      <3>3. QED
        BY <1>0, <3>1, <3>2 DEF Truth
    <2>4. QED
      BY <1>7, <2>1, <2>2, <2>3 DEF Restore, RestoreCheck, RestoreMove
  <1>8. CASE Cleanup(p) \/ IgnoreCleanup(p)
    <2>1. /\ pc[p] = "cleanup" /\ pc'[p] \in {"cleanup", "idle"}
          /\ UNCHANGED <<out, outcome>>
      BY <1>0, <1>8 DEF Cleanup, IgnoreCleanup, dirs
    <2>2. QED
      BY <1>0, <2>1 DEF Truth
  <1>9. CASE Raise(p)
    <2>1. /\ pc[p] \in {"list", "moveOut", "moveIn", "inMove", "outMove"}
          /\ UNCHANGED <<out, backup>>
          /\ pc'[p] = CASE pc[p] = "moveIn"  -> "inCheck"
                        [] pc[p] = "outMove" -> "cleanup"
                        [] OTHER             -> "outCheck"
          /\ outcome'[p] = IF pc[p] = "outMove" THEN "unrestored" ELSE "failed"
      BY <1>0, <1>9 DEF Raise, dirs
    <2>2. QED
      BY <1>0, <2>1 DEF Truth
  <1>10. CASE RaiseDrop(p)
    <2>1. /\ pc[p] = "drop" /\ pc'[p] = "outCheck" /\ outcome'[p] = "late"
          /\ out' = out
      BY <1>0, <1>10 DEF RaiseDrop, dirs
    <2>2. QED
      BY <1>0, <2>1 DEF Truth
  <1>11. CASE Interrupt(p) \/ Crash(p)
    <2>1. /\ pc[p] # "idle" /\ UNCHANGED <<out, backup>>
          /\ pc'[p] \in {"join", "cleanup", "idle"}
          /\ pc'[p] = "join" => pc[p] = "pool"
          /\ outcome'[p] \in {"late", "interrupted", "crashed"}
          /\ outcome'[p] = "late" => outcome[p] \in {"ok", "late"}
      BY <1>0, <1>11 DEF Interrupt, Crash, Ended, dirs
    <2>2. CASE pc'[p] = "join"
      BY <1>0, <2>1, <2>2 DEF Truth
    <2>3. CASE outcome'[p] = "late"
      <3>1. pc[p] \in {"outCheck", "cleanup"}
        BY <1>0, <2>1, <2>3
           DEF Verdict, Truth, Exporting, Swapping, Step, Restoring
      <3>2. out = Full(src[p])
        <4>1. outcome[p] = "ok" => pc[p] = "cleanup"
          BY <1>0, <3>1 DEF Verdict
        <4>2. QED
          BY <1>0, <2>1, <2>3, <3>1, <4>1 DEF Truth
      <3>3. QED
        BY <1>0, <2>1, <2>2, <2>3, <3>2 DEF Truth
    <2>4. QED
      BY <2>1, <2>2, <2>3 DEF Truth
  <1>12. QED
    BY <1>1, <1>2, <1>3, <1>4, <1>5, <1>6, <1>7, <1>8, <1>9, <1>10, <1>11
       DEF Own, Advance

\* What a run tells its caller is true, whatever fails, when it is the only one.
THEOREM ReturnsAreTruthful ==
  ASSUME Alone
  PROVE  Spec => []ReturnIsTruthful
  <1>1. Init => TruthInv
    BY InitVerdictInv DEF Init, TruthInv, Truth
  <1>2. TruthInv /\ [Next]_vars => TruthInv'
    <2>1. ASSUME TruthInv, NEW p \in Exporter, Begin(p) \/ Own(p)
          PROVE  \A q \in Exporter : Truth(q)'
      <3>1. Truth(p)'
        <4>1. CASE Begin(p)
          <5>1. pc'[p] = "list" /\ out' = out /\ origin'[p] = out /\ BackupOf(p)' = None
            BY <2>1, <4>1, BeginNames
               DEF Begin, Goto, TruthInv, VerdictInv, PoolInv, TypeInv, TypeOK
          <5>2. QED
            BY <5>1 DEF Truth
        <4>2. QED
          BY <2>1, <4>1, OwnTruth
      <3>2. \A q \in Exporter : q = p
        BY DEF Alone
      <3>3. QED
        BY <3>1, <3>2
    <2>2. TruthInv /\ UNCHANGED vars => \A q \in Exporter : Truth(q)'
      BY DEF TruthInv, Truth, vars, BackupOf, Full
    <2>3. TruthInv /\ [Next]_vars => VerdictInv'
      BY NextVerdictInv DEF TruthInv
    <2>4. QED
      BY <2>1, <2>2, <2>3, StepsAre DEF TruthInv
  <1>3. TruthInv => ReturnIsTruthful
    BY DEF TruthInv, Truth, ReturnIsTruthful
  <1>4. QED
    BY <1>1, <1>2, <1>3, PTL DEF Spec
=============================================================================
