------------------------- MODULE SqliteUpdateProofs -------------------------
(***************************************************************************)
(* Proofs about SqliteUpdate, for any number of updaters, sources, files,  *)
(* seconds and faults.                                                     *)
(***************************************************************************)
EXTENDS SqliteUpdate, WellFoundedInduction, TLAPS

\* A process that is running knows what it was asked to do.
RunKnown == \A p \in Updater : pc[p] # "idle" => run[p] # None
TypeInv == TypeOK /\ RunKnown

LEMMA RunFields ==
  ASSUME TypeInv, NEW p \in Updater, pc[p] # "idle"
  PROVE  /\ run[p] \in Run
         /\ run[p].stamp \in Second
         /\ run[p].src \in Source
         /\ run[p].opt \in Setting
         /\ TempOf(p) \in Inode \union {None}
         /\ BackupOf(p) \in Inode \union {None}
  <1>1. run[p] \in Run
    BY DEF TypeInv, TypeOK, RunKnown
  <1>2. /\ run[p].stamp \in Second
        /\ run[p].src \in Source
        /\ run[p].opt \in Setting
    BY <1>1 DEF Run
  <1>3. QED
    BY <1>1, <1>2 DEF TypeInv, TypeOK, TempOf, BackupOf

LEMMA BatchIn ==
  ASSUME NEW s \in Source, NEW c \in Content
  PROVE  c \union {Csv(s)} \in Content /\ c \union {Ecb(s)} \in Content
  BY DEF Content, Batch, Csv, Ecb

LEMMA InitTypeInv == Init => TypeInv
  <1> SUFFICES ASSUME Init PROVE TypeInv
    OBVIOUS
  <1>1. PICK old \in Whole :
          data = [i \in Inode |-> IF i = target THEN old ELSE {}]
    BY DEF Init
  <1>2. old \in Content /\ {} \in Content
    BY SourceAssumption DEF Whole, Content, Batch, Csv, Ecb
  <1>3. data \in [Inode -> Content]
    BY <1>1, <1>2
  <1>4. 0 \in 0..MaxClock /\ 0 \in 0..MaxFaults
    BY BoundAssumption
  <1>5. TypeOK
    BY <1>3, <1>4 DEF Init, TypeOK, Step, Building, Swapping, Restoring, Outcome
  <1>6. RunKnown
    BY DEF Init, RunKnown
  <1>7. QED
    BY <1>5, <1>6 DEF TypeInv

LEMMA StepTypeInv == TypeInv /\ [Next]_vars => TypeInv'
  <1> SUFFICES ASSUME TypeInv, [Next]_vars PROVE TypeInv'
    OBVIOUS
  <1> USE NoneAssumption DEF TypeInv, RunKnown
  <1>1. ASSUME NEW p \in Updater, Begin(p) PROVE TypeInv'
    <2>1. PICK t \in Second, s \in Source, o \in Option :
            /\ clock' = t
            /\ run' = [run EXCEPT ![p] = [stamp |-> t, src |-> s, opt |-> o]]
      BY <1>1 DEF Begin
    <2>2. [stamp |-> t, src |-> s, opt |-> o] \in Run
      BY OptionAssumption DEF Run
    <2>3. run' \in [Updater -> Run \union {None}] /\ run'[p] # None
      BY <2>1, <2>2 DEF TypeOK
    <2>4. clock' \in 0..MaxClock
      BY <2>1, BoundAssumption DEF Second
    <2>5. ContentOf(target) \in Content \union {None}
      BY DEF TypeOK, ContentOf
    <2>6. QED
      BY <1>1, <2>1, <2>3, <2>4, <2>5
         DEF Begin, TypeOK, files, Goto, Step, Building, Outcome
  <1>2. ASSUME NEW p \in Updater, Load(p) PROVE TypeInv'
    <2>1. PICK f \in IF TempOf(p) = None THEN Inode \ InUse ELSE {TempOf(p)} :
            /\ temp' = [temp EXCEPT ![run[p].stamp] = f]
            /\ data' = [data EXCEPT ![f] = {}]
            /\ handle' = [handle EXCEPT ![p] = f]
      BY <1>2 DEF Load
    <2>2. f \in Inode
      BY <1>2, RunFields, <2>1 DEF Load
    <2>3. {} \in Content
      BY DEF Content
    <2>4. QED
      BY <1>2, <2>1, <2>2, <2>3 DEF Load, TypeOK, Goto, Step, Building
  <1>3. ASSUME NEW p \in Updater, Fill(p) PROVE TypeInv'
    <2>1. run[p].src \in Source
      BY <1>3, RunFields DEF Fill
    <2>2. \A i \in Inode : data[i] \union {Csv(run[p].src)} \in Content
      BY <2>1, BatchIn DEF TypeOK
    <2>3. data' \in [Inode -> Content]
      BY <1>3, <2>2 DEF Fill, TypeOK
    <2>4. QED
      BY <1>3, <2>3 DEF Fill, TypeOK, Goto, Step, Building, Outcome
  <1>4. ASSUME NEW p \in Updater, Check1(p) PROVE TypeInv'
    BY <1>4 DEF Check1, TypeOK, files, Goto, GotoIf, Step, Building, Restoring,
                Outcome
  <1>5. ASSUME NEW p \in Updater, ImportEcb(p) PROVE TypeInv'
    <2>1. run[p].src \in Source
      BY <1>5, RunFields DEF ImportEcb
    <2>2. \A i \in Inode : data[i] \union {Ecb(run[p].src)} \in Content
      BY <2>1, BatchIn DEF TypeOK
    <2>3. data' \in [Inode -> Content]
      BY <1>5, <2>2 DEF ImportEcb, TypeOK
    <2>4. QED
      BY <1>5, <2>3 DEF ImportEcb, TypeOK, Goto, Step, Building
  <1>6. ASSUME NEW p \in Updater, Check2(p) PROVE TypeInv'
    <2>1. /\ \E s \in Step : pc' = [pc EXCEPT ![p] = s]
          /\ \E o \in Outcome : outcome' = [outcome EXCEPT ![p] = o]
      BY <1>6 DEF Check2, TypeOK, Goto, Step, Swapping, Restoring, Outcome
    <2>2. QED
      BY <1>6, <2>1 DEF Check2, TypeOK, files
  <1>7. ASSUME NEW p \in Updater, BackUp(p) PROVE TypeInv'
    BY <1>7 DEF BackUp, TypeOK, Goto, Step, Swapping
  <1>8. ASSUME NEW p \in Updater, Install(p) PROVE TypeInv'
    <2>1. TempOf(p) \in Inode \union {None}
      BY <1>8, RunFields DEF Install
    <2>2. QED
      BY <1>8, <2>1
         DEF Install, TypeOK, Goto, Step, Swapping, Restoring, Outcome
  <1>9. ASSUME NEW p \in Updater, Verify(p) PROVE TypeInv'
    <2>1. PICK f \in IF target = None THEN Inode \ InUse ELSE {target} :
            /\ target' = f
            /\ data' = [data EXCEPT ![f] = IF target = None THEN {} ELSE @]
      BY <1>9 DEF Verify
    <2>2. f \in Inode
      BY <2>1 DEF TypeOK
    <2>3. data' \in [Inode -> Content]
      BY <2>1, <2>2 DEF TypeOK, Content
    <2>4. QED
      BY <1>9, <2>1, <2>2, <2>3
         DEF Verify, TypeOK, Goto, GotoIf, Step, Swapping, Restoring, Outcome
  <1>10. ASSUME NEW p \in Updater, DropBackup(p) PROVE TypeInv'
    BY <1>10 DEF DropBackup, TypeOK, Goto, Step, Outcome
  <1>11. ASSUME NEW p \in Updater, Restore(p) PROVE TypeInv'
    <2>1. BackupOf(p) \in Inode \union {None}
      BY <1>11, RunFields DEF Restore, RestoreUnlink, RestoreMove
    <2>2. CASE RestoreUnlink(p, "inUnlink", "inMove", "outUnlink")
      BY <2>2 DEF RestoreUnlink, TypeOK, Goto, Step, Restoring
    <2>3. CASE RestoreMove(p, "inMove", "outUnlink")
      BY <2>1, <2>3 DEF RestoreMove, TypeOK, Goto, Step, Restoring
    <2>4. CASE RestoreUnlink(p, "outUnlink", "outMove", "cleanup")
      BY <2>4 DEF RestoreUnlink, TypeOK, Goto, Step, Restoring
    <2>5. CASE RestoreMove(p, "outMove", "cleanup")
      BY <2>1, <2>5 DEF RestoreMove, TypeOK, Goto, Step, Restoring
    <2>6. QED
      BY <1>11, <2>2, <2>3, <2>4, <2>5 DEF Restore
  <1>12. ASSUME NEW p \in Updater, Cleanup(p) PROVE TypeInv'
    BY <1>12 DEF Cleanup, TypeOK, Goto, Step
  <1>13. ASSUME NEW p \in Updater, Raise(p) PROVE TypeInv'
    <2>1. PICK step \in Handlers(pc[p]) : Goto(p, step)
      BY <1>13 DEF Raise
    <2>2. step \in Step /\ pc[p] # "idle"
      BY <1>13, <2>1 DEF Handlers, Step, Restoring, Raise, CanRaise
    <2>3. \E o \in Outcome : outcome' = [outcome EXCEPT ![p] = o]
      BY <1>13 DEF Raise, Ended, TypeOK, Outcome
    <2>4. faults' \in 0..MaxFaults
      BY <1>13, BoundAssumption DEF Raise, Fault, TypeOK
    <2>5. QED
      BY <1>13, <2>1, <2>2, <2>3, <2>4 DEF Raise, TypeOK, files, Goto
  <1>14. ASSUME NEW p \in Updater, Interrupt(p) PROVE TypeInv'
    <2>1. \E o \in Outcome : outcome' = [outcome EXCEPT ![p] = o]
      BY <1>14 DEF Interrupt, Ended, TypeOK, Outcome
    <2>2. faults' \in 0..MaxFaults
      BY <1>14, BoundAssumption DEF Interrupt, Fault, TypeOK
    <2>3. QED
      BY <1>14, <2>1, <2>2 DEF Interrupt, TypeOK, files, Goto, Step
  <1>15. ASSUME NEW p \in Updater, Crash(p) PROVE TypeInv'
    <2>1. \E o \in Outcome : outcome' = [outcome EXCEPT ![p] = o]
      BY <1>15 DEF Crash, Ended, TypeOK, Outcome
    <2>2. faults' \in 0..MaxFaults
      BY <1>15, BoundAssumption DEF Crash, Fault, TypeOK
    <2>3. QED
      BY <1>15, <2>1, <2>2 DEF Crash, TypeOK, files, Goto, Step
  <1>16. CASE UNCHANGED vars
    BY <1>16 DEF vars, TypeOK
  <1>17. QED
    BY <1>1, <1>2, <1>3, <1>4, <1>5, <1>6, <1>7, <1>8, <1>9, <1>10, <1>11,
       <1>12, <1>13, <1>14, <1>15, <1>16 DEF Next, Advance, Rest

\* Whatever the updaters do, and whatever fails, every variable keeps its type.
THEOREM TypeCorrect == Spec => []TypeOK
  <1>1. TypeInv => TypeOK
    BY DEF TypeInv
  <1>2. QED
    BY <1>1, InitTypeInv, StepTypeInv, PTL DEF Spec

-----------------------------------------------------------------------------
(***************************************************************************)
(* Who can write to which file, when no two runs start in the same second. *)
(* A process only ever writes to the file under its own temporary name     *)
(* (HandleIsTemp) or to one that had no name; no other run has that name   *)
(* (StampsDiffer), and no file has two names (NamesDiffer).                *)
(***************************************************************************)

\* Names of seconds that have not begun are free.
FutureIsFree ==
  \A t \in Second : t > clock => temp[t] = None /\ backup[t] = None

\* Runs started in the past, and each process's latest in a second of its own.
StampsDiffer ==
  /\ \A p \in Updater : run[p] # None => run[p].stamp <= clock
  /\ \A p, q \in Updater :
       (p # q /\ run[p] # None /\ run[q] # None) =>
          run[p].stamp # run[q].stamp

\* No file has two names.
NamesDiffer ==
  /\ target # None => \A t \in Second : temp[t] # target /\ backup[t] # target
  /\ \A t, u \in Second : temp[t] # None => temp[t] # backup[u]
  /\ \A t, u \in Second :
       t # u => /\ temp[t] # None => temp[t] # temp[u]
                /\ backup[t] # None => backup[t] # backup[u]

Loading == {"fill", "check1", "ecb", "check2"}

\* A process has a file open only while it builds it under its temporary name.
HandleIsTemp ==
  \A p \in Updater :
    handle[p] # None => pc[p] \in Loading /\ handle[p] = TempOf(p)

FileInv ==
  TypeInv /\ FutureIsFree /\ StampsDiffer /\ NamesDiffer /\ HandleIsTemp

LEMMA InitFileInv == Init => FileInv
  <1> SUFFICES ASSUME Init PROVE FileInv
    OBVIOUS
  <1>1. TypeInv
    BY InitTypeInv
  <1>2. FutureIsFree /\ StampsDiffer /\ HandleIsTemp
    BY DEF Init, FutureIsFree, StampsDiffer, HandleIsTemp
  <1>3. NamesDiffer
    BY NoneAssumption DEF Init, NamesDiffer
  <1>4. QED
    BY <1>1, <1>2, <1>3 DEF FileInv

\* A step of a process that neither starts a run, nor opens a file, nor renames
\* one leaves the file invariant alone if it closes what it leaves open.
LEMMA QuietFileInv ==
  ASSUME FileInv, TypeInv', NEW p \in Updater,
         UNCHANGED <<target, temp, backup, clock, run>>,
         \/ UNCHANGED handle
         \/ handle' = [handle EXCEPT ![p] = None],
         \/ UNCHANGED pc
         \/ \E s \in Step : /\ pc' = [pc EXCEPT ![p] = s]
                            /\ handle'[p] # None => s \in Loading
  PROVE  FileInv'
  <1>1. FutureIsFree' /\ StampsDiffer' /\ NamesDiffer'
    BY DEF FileInv, FutureIsFree, StampsDiffer, NamesDiffer
  <1>2. HandleIsTemp'
    BY DEF FileInv, HandleIsTemp, TempOf, TypeInv, TypeOK
  <1>3. QED
    BY <1>1, <1>2 DEF FileInv

LEMMA StepFileInv ==
  ASSUME ~SameSecond, FileInv, [Next]_vars
  PROVE  FileInv'
  <1> USE NoneAssumption DEF FileInv
  <1>0. TypeInv'
    BY StepTypeInv
  <1>1. ASSUME NEW p \in Updater, Begin(p) PROVE FileInv'
    <2>1. PICK t \in Second, s \in Source, o \in Option :
            /\ t = clock + 1
            /\ clock' = t
            /\ run' = [run EXCEPT ![p] = [stamp |-> t, src |-> s, opt |-> o]]
      BY <1>1 DEF Begin
    <2>2. clock \in Nat /\ \A u \in Second : u \in Nat
      BY BoundAssumption DEF TypeInv, TypeOK, Second
    <2>3. UNCHANGED <<target, temp, backup, handle>>
      BY <1>1 DEF Begin, files
    <2>4. FutureIsFree'
      BY <2>1, <2>2, <2>3 DEF FutureIsFree, Second
    <2>5. NamesDiffer'
      BY <2>3 DEF NamesDiffer
    <2>6. \A q \in Updater : run[q] # None => run[q].stamp \in Nat
      BY <2>2 DEF TypeInv, TypeOK, Run
    <2>7. run'[p].stamp = clock + 1 /\ \A q \in Updater \ {p} : run'[q] = run[q]
      BY <2>1 DEF TypeInv, TypeOK
    <2>8. \A q \in Updater \ {p} : run[q] # None => run'[q].stamp <= clock
      BY <2>7 DEF StampsDiffer
    <2>9. StampsDiffer'
      BY <2>1, <2>2, <2>6, <2>7, <2>8 DEF StampsDiffer
    <2>10. HandleIsTemp'
      <3>1. handle[p] = None
        BY <1>1 DEF Begin, HandleIsTemp, Loading
      <3>2. QED
        BY <1>1, <2>3, <2>7, <3>1
           DEF Begin, Goto, HandleIsTemp, TempOf, TypeInv, TypeOK
    <2>11. QED
      BY <1>0, <2>4, <2>5, <2>9, <2>10
  <1>2. ASSUME NEW p \in Updater, Load(p) PROVE FileInv'
    <2>1. PICK f \in IF TempOf(p) = None THEN Inode \ InUse ELSE {TempOf(p)} :
            /\ temp' = [temp EXCEPT ![run[p].stamp] = f]
            /\ handle' = [handle EXCEPT ![p] = f]
      BY <1>2 DEF Load
    <2>2. UNCHANGED <<target, backup, clock, run>> /\ pc' = [pc EXCEPT ![p] = "fill"]
      BY <1>2 DEF Load, Goto
    <2>3. run[p] # None /\ run[p].stamp \in Second /\ run[p].stamp <= clock
      BY <1>2, RunFields DEF Load, TypeInv, RunKnown, StampsDiffer
    <2>4. clock \in Nat /\ \A u \in Second : u \in Nat
      BY BoundAssumption DEF TypeInv, TypeOK, Second
    <2>5. FutureIsFree'
      BY <2>1, <2>2, <2>3, <2>4 DEF FutureIsFree, TypeInv, TypeOK
    <2>6. /\ f # None
          /\ f # target
          /\ \A t \in Second : f # backup[t]
          /\ \A t \in Second : t # run[p].stamp => f # temp[t]
      BY <2>1, <2>3 DEF InUse, NamesDiffer, TempOf
    <2>7. NamesDiffer'
      BY <2>1, <2>2, <2>3, <2>6 DEF NamesDiffer, TypeInv, TypeOK
    <2>8. HandleIsTemp'
      BY <2>1, <2>2, <2>3
         DEF HandleIsTemp, StampsDiffer, TempOf, Loading, TypeInv, TypeOK
    <2>9. StampsDiffer'
      BY <2>2 DEF StampsDiffer
    <2>10. QED
      BY <1>0, <2>5, <2>7, <2>8, <2>9
  <1>3. ASSUME NEW p \in Updater, Fill(p) PROVE FileInv'
    BY <1>0, <1>3, QuietFileInv
       DEF Fill, Goto, Step, Building, Loading, TypeInv, TypeOK
  <1>4. ASSUME NEW p \in Updater, Check1(p) PROVE FileInv'
    BY <1>0, <1>4, QuietFileInv
       DEF Check1, files, Goto, GotoIf, Step, Building, Restoring, Loading,
           TypeInv, TypeOK
  <1>5. ASSUME NEW p \in Updater, ImportEcb(p) PROVE FileInv'
    BY <1>0, <1>5, QuietFileInv
       DEF ImportEcb, Goto, Step, Building, Loading, TypeInv, TypeOK
  <1>6. ASSUME NEW p \in Updater, Check2(p) PROVE FileInv'
    <2>1. \E s \in Step : pc' = [pc EXCEPT ![p] = s]
      BY <1>6 DEF Check2, Goto, Step, Swapping, Restoring
    <2>2. handle'[p] = None
      BY <1>6 DEF Check2, TypeInv, TypeOK
    <2>3. QED
      BY <1>0, <1>6, <2>1, <2>2, QuietFileInv DEF Check2, files
  <1>7. ASSUME NEW p \in Updater, BackUp(p) PROVE FileInv'
    <2>1. run[p].stamp \in Second /\ run[p].stamp <= clock
      BY <1>7, RunFields DEF BackUp, TypeInv, RunKnown, StampsDiffer
    <2>2. clock \in Nat /\ \A u \in Second : u \in Nat
      BY BoundAssumption DEF TypeInv, TypeOK, Second
    <2>3. FutureIsFree' /\ StampsDiffer'
      BY <1>7, <2>1, <2>2 DEF BackUp, FutureIsFree, StampsDiffer, TypeInv, TypeOK
    <2>4. NamesDiffer'
      BY <1>7, <2>1 DEF BackUp, NamesDiffer, TypeInv, TypeOK
    <2>5. HandleIsTemp'
      BY <1>7 DEF BackUp, Goto, HandleIsTemp, Loading, TempOf, TypeInv, TypeOK
    <2>6. QED
      BY <1>0, <2>3, <2>4, <2>5
  <1>8. ASSUME NEW p \in Updater, Install(p) PROVE FileInv'
    <2>1. run[p] # None /\ run[p].stamp \in Second
      BY <1>8, RunFields DEF Install, TypeInv, RunKnown
    <2>2. FutureIsFree' /\ StampsDiffer'
      BY <1>8, <2>1 DEF Install, FutureIsFree, StampsDiffer, TypeInv, TypeOK
    <2>3. NamesDiffer'
      BY <1>8, <2>1 DEF Install, NamesDiffer, TempOf, TypeInv, TypeOK
    <2>4. \A q \in Updater : handle[q] # None => q # p
      BY <1>8 DEF Install, HandleIsTemp, Loading
    <2>5. HandleIsTemp'
      BY <1>8, <2>1, <2>4
         DEF Install, Goto, HandleIsTemp, StampsDiffer, TempOf, TypeInv, TypeOK, RunKnown, Loading
    <2>6. QED
      BY <1>0, <2>2, <2>3, <2>5
  <1>9. ASSUME NEW p \in Updater, Verify(p) PROVE FileInv'
    <2>1. target' \in IF target = None THEN Inode \ InUse ELSE {target}
      BY <1>9 DEF Verify
    <2>2. NamesDiffer'
      BY <1>9, <2>1 DEF Verify, InUse, NamesDiffer
    <2>3. FutureIsFree' /\ StampsDiffer'
      BY <1>9 DEF Verify, FutureIsFree, StampsDiffer
    <2>4. HandleIsTemp'
      BY <1>9 DEF Verify, Goto, GotoIf, HandleIsTemp, Loading, TempOf, TypeInv, TypeOK
    <2>5. QED
      BY <1>0, <2>2, <2>3, <2>4
  <1>10. ASSUME NEW p \in Updater, DropBackup(p) PROVE FileInv'
    <2>1. FutureIsFree' /\ StampsDiffer' /\ NamesDiffer'
      BY <1>10 DEF DropBackup, FutureIsFree, StampsDiffer, NamesDiffer, TypeInv, TypeOK
    <2>2. HandleIsTemp'
      BY <1>10 DEF DropBackup, Goto, HandleIsTemp, Loading, TempOf, TypeInv, TypeOK
    <2>3. QED
      BY <1>0, <2>1, <2>2
  <1>11. ASSUME NEW p \in Updater, Restore(p) PROVE FileInv'
    <2>1. run[p].stamp \in Second
      BY <1>11, RunFields DEF Restore, RestoreUnlink, RestoreMove
    <2>2. handle[p] = None
      BY <1>11 DEF Restore, RestoreUnlink, RestoreMove, HandleIsTemp, Loading
    <2>3. /\ UNCHANGED <<temp, clock, run, handle>>
          /\ \E s \in Step : pc' = [pc EXCEPT ![p] = s]
      BY <1>11 DEF Restore, RestoreUnlink, RestoreMove, Goto, Step, Restoring
    <2>4. \/ target' \in {target, None} /\ UNCHANGED backup
          \/ /\ target' = IF BackupOf(p) = None THEN target ELSE BackupOf(p)
             /\ backup' = [backup EXCEPT ![run[p].stamp] = None]
      BY <1>11 DEF Restore, RestoreUnlink, RestoreMove
    <2>5. NamesDiffer'
      BY <2>1, <2>3, <2>4 DEF NamesDiffer, BackupOf, TypeInv, TypeOK
    <2>6. FutureIsFree' /\ StampsDiffer'
      BY <2>3, <2>4 DEF FutureIsFree, StampsDiffer, TypeInv, TypeOK
    <2>7. HandleIsTemp'
      BY <2>2, <2>3 DEF HandleIsTemp, TempOf, TypeInv, TypeOK
    <2>8. QED
      BY <1>0, <2>5, <2>6, <2>7
  <1>12. ASSUME NEW p \in Updater, Cleanup(p) PROVE FileInv'
    <2>1. run[p] # None /\ run[p].stamp \in Second
      BY <1>12, RunFields DEF Cleanup, TypeInv, RunKnown
    <2>2. temp' = [temp EXCEPT ![run[p].stamp] = temp[run[p].stamp]]
          \/ temp' = [temp EXCEPT ![run[p].stamp] = None]
      BY <1>12 DEF Cleanup
    <2>3. FutureIsFree' /\ StampsDiffer'
      BY <1>12, <2>1, <2>2 DEF Cleanup, FutureIsFree, StampsDiffer, TypeInv, TypeOK
    <2>4. NamesDiffer'
      BY <1>12, <2>1, <2>2 DEF Cleanup, NamesDiffer, TypeInv, TypeOK
    <2>5. handle[p] = None
      BY <1>12 DEF Cleanup, HandleIsTemp, Loading
    <2>6. HandleIsTemp'
      BY <1>12, <2>1, <2>2, <2>5
         DEF Cleanup, Goto, HandleIsTemp, StampsDiffer, TempOf, TypeInv,
             TypeOK, RunKnown, Loading
    <2>7. QED
      BY <1>0, <2>3, <2>4, <2>6
  <1>13. ASSUME NEW p \in Updater, Raise(p) PROVE FileInv'
    <2>1. \E s \in Step : pc' = [pc EXCEPT ![p] = s]
      BY <1>13 DEF Raise, Handlers, Goto, Step, Restoring
    <2>2. handle'[p] = None
      BY <1>13 DEF Raise, TypeInv, TypeOK
    <2>3. QED
      BY <1>0, <1>13, <2>1, <2>2, QuietFileInv DEF Raise, files
  <1>14. ASSUME NEW p \in Updater, Interrupt(p) \/ Crash(p) PROVE FileInv'
    <2>1. \E s \in Step : pc' = [pc EXCEPT ![p] = s]
      BY <1>14 DEF Interrupt, Crash, Goto, Step
    <2>2. handle'[p] = None
      BY <1>14 DEF Interrupt, Crash, TypeInv, TypeOK
    <2>3. QED
      BY <1>0, <1>14, <2>1, <2>2, QuietFileInv DEF Interrupt, Crash, files
  <1>15. CASE UNCHANGED vars
    BY <1>0, <1>15 DEF vars, FutureIsFree, StampsDiffer, NamesDiffer,
                       HandleIsTemp, TempOf
  <1>16. QED
    BY <1>1, <1>2, <1>3, <1>4, <1>5, <1>6, <1>7, <1>8, <1>9, <1>10, <1>11,
       <1>12, <1>13, <1>14, <1>15 DEF Next, Advance, Rest

\* When no two updaters start in the same second, no process has a file open
\* for loading that has the target's name or a backup name, so that neither a
\* reader nor a restore ever meets a database that is still being written.
THEOREM LiveIsNotWritten ==
  ASSUME ~SameSecond
  PROVE  Spec => []LiveNotBeingWritten
  <1>1. FileInv /\ [Next]_vars => FileInv'
    BY StepFileInv
  <1>2. FileInv => LiveNotBeingWritten
    <2> SUFFICES ASSUME FileInv, NEW p \in Updater, handle[p] # None
                 PROVE  /\ handle[p] # target
                        /\ \A t \in Second : handle[p] # backup[t]
      BY DEF LiveNotBeingWritten
    <2>1. handle[p] = TempOf(p) /\ run[p].stamp \in Second
      BY RunFields DEF FileInv, HandleIsTemp, Loading
    <2>2. QED
      BY <2>1 DEF FileInv, NamesDiffer, TempOf
  <1>3. QED
    BY <1>1, <1>2, InitFileInv, PTL DEF Spec

-----------------------------------------------------------------------------
(***************************************************************************)
(* What a run does to its own files.  No other run touches them, so this   *)
(* holds however many runs overlap, as long as no two start in the same    *)
(* second.                                                                 *)
(***************************************************************************)

\* A step of p's run, or a fault in it.
Move(p) == Advance(p) \/ Raise(p) \/ Interrupt(p) \/ Crash(p)

\* The content of a file changes only if it has no name but the running
\* process's temporary name.
LEMMA NamedIsStable ==
  ASSUME FileInv, NEW p \in Updater, Move(p)
  PROVE  /\ target # None => data'[target] = data[target]
         /\ \A t \in Second : backup[t] # None => data'[backup[t]] = data[backup[t]]
  <1> USE NoneAssumption DEF FileInv
  <1>1. CASE Load(p)
    <2>1. PICK f \in IF TempOf(p) = None THEN Inode \ InUse ELSE {TempOf(p)} :
            data' = [data EXCEPT ![f] = {}]
      BY <1>1 DEF Load
    <2>2. run[p].stamp \in Second
      BY <1>1, RunFields DEF Load
    <2>3. f # target /\ \A t \in Second : f # backup[t]
      BY <2>1, <2>2 DEF InUse, NamesDiffer, TempOf
    <2>4. QED
      BY <2>1, <2>3 DEF TypeInv, TypeOK
  <1>2. CASE Fill(p) \/ ImportEcb(p)
    <2>1. run[p].stamp \in Second
      BY <1>2, RunFields DEF Fill, ImportEcb
    <2>2. handle[p] = None \/ handle[p] = temp[run[p].stamp]
      BY DEF HandleIsTemp, TempOf
    <2>3. \A f \in Inode : f # handle[p] => data'[f] = data[f]
      BY <1>2 DEF Fill, ImportEcb, TypeInv, TypeOK
    <2>4. QED
      BY <2>1, <2>2, <2>3 DEF NamesDiffer, TypeInv, TypeOK
  <1>3. CASE Verify(p)
    <2>1. PICK f \in IF target = None THEN Inode \ InUse ELSE {target} :
            data' = [data EXCEPT ![f] = IF target = None THEN {} ELSE @]
      BY <1>3 DEF Verify
    <2>2. QED
      BY <2>1 DEF InUse, TypeInv, TypeOK
  <1>4. CASE UNCHANGED data
    BY <1>4
  <1>5. QED
    BY <1>1, <1>2, <1>3, <1>4
       DEF Move, Advance, Check1, Check2, BackUp, Install, DropBackup, Restore,
           RestoreUnlink, RestoreMove, Cleanup, Raise, Interrupt, Crash, files

\* A step of a run is taken while it runs, and keeps its arguments.
LEMMA MoveRuns ==
  ASSUME NEW p \in Updater, Move(p)
  PROVE  pc[p] # "idle" /\ UNCHANGED <<run, origin, clock>>
  <1>1. pc[p] # "idle"
    BY DEF Move, Advance, Load, Fill, Check1, ImportEcb, Check2, BackUp,
           Install, Verify, DropBackup, Restore, RestoreUnlink, RestoreMove,
           Cleanup, Raise, CanRaise, Interrupt, Crash
  <1>2. UNCHANGED <<run, origin, clock>>
    BY DEF Move, Advance, Load, Fill, Check1, ImportEcb, Check2, BackUp, Install,
           Verify, DropBackup, Restore, RestoreUnlink, RestoreMove, Cleanup,
           Raise, Interrupt, Crash
  <1>3. QED
    BY <1>1, <1>2

\* What a step of p leaves as it is for another process, q.
LEMMA Elsewhere ==
  ASSUME ~SameSecond, FileInv, NEW p \in Updater, NEW q \in Updater, p # q,
         Begin(p) \/ Move(p)
  PROVE  /\ pc'[q] = pc[q]
         /\ handle'[q] = handle[q]
         /\ run'[q] = run[q]
         /\ outcome'[q] = outcome[q]
         /\ origin'[q] = origin[q]
         /\ run[q] # None =>
              /\ TempOf(q)' = TempOf(q)
              /\ BackupOf(q)' = BackupOf(q)
              /\ TempOf(q) # None => data'[TempOf(q)] = data[TempOf(q)]
  <1> USE NoneAssumption DEF FileInv, TypeInv, TypeOK
  <1>1. CASE Begin(p)
    BY <1>1 DEF Begin, Goto, files, TempOf, BackupOf
  <1>2. CASE Move(p)
    <2>1. pc[p] # "idle"
      BY <1>2, MoveRuns
    <2>2. run[p] # None /\ run[p].stamp \in Second /\ run' = run /\ origin' = origin
      BY <1>2, <2>1, RunFields, MoveRuns DEF RunKnown
    <2>3. /\ pc'[q] = pc[q]
          /\ handle'[q] = handle[q]
          /\ outcome'[q] = outcome[q]
      <3>1. CASE Load(p) \/ Fill(p) \/ Check1(p) \/ ImportEcb(p) \/ Check2(p)
        BY <3>1 DEF Load, Fill, Check1, ImportEcb, Check2, Goto, GotoIf
      <3>2. CASE BackUp(p) \/ Install(p) \/ Verify(p) \/ DropBackup(p) \/ Cleanup(p)
        BY <3>2 DEF BackUp, Install, Verify, DropBackup, Cleanup, Goto, GotoIf
      <3>3. CASE Restore(p) \/ Raise(p) \/ Interrupt(p) \/ Crash(p)
        BY <3>3 DEF Restore, RestoreUnlink, RestoreMove, Raise, Interrupt, Crash,
                    Goto, Ended
      <3>4. QED
        BY <1>2, <3>1, <3>2, <3>3 DEF Move, Advance
    <2>4. ASSUME run[q] # None
          PROVE  /\ TempOf(q)' = TempOf(q)
                 /\ BackupOf(q)' = BackupOf(q)
                 /\ TempOf(q) # None => data'[TempOf(q)] = data[TempOf(q)]
      <3>1. run[q].stamp \in Second /\ run[q].stamp # run[p].stamp
        BY <2>2, <2>4 DEF Run, StampsDiffer
      <3>2. \A t \in Second : t # run[p].stamp =>
              temp'[t] = temp[t] /\ backup'[t] = backup[t]
        BY <1>2, <2>2
           DEF Move, Advance, Load, Fill, Check1, ImportEcb, Check2, BackUp,
               Install, Verify, DropBackup, Restore, RestoreUnlink, RestoreMove,
               Cleanup, Raise, Interrupt, Crash, files
      <3>3. ASSUME TempOf(q) # None
            PROVE  data'[TempOf(q)] = data[TempOf(q)]
        <4> DEFINE g == TempOf(q)
        <4>0. /\ g \in Inode
              /\ g \in InUse
              /\ g # target
              /\ TempOf(p) # None => g # TempOf(p)
          BY <2>2, <3>1, <3>3 DEF TempOf, InUse, NamesDiffer
        <4> HIDE DEF g
        <4>1. CASE Load(p)
          <5>1. PICK f \in IF TempOf(p) = None THEN Inode \ InUse ELSE {TempOf(p)} :
                  data' = [data EXCEPT ![f] = {}]
            BY <4>1 DEF Load
          <5>2. QED
            BY <4>0, <5>1 DEF g
        <4>2. CASE Fill(p) \/ ImportEcb(p)
          <5>1. handle[p] = None \/ (handle[p] = TempOf(p) /\ TempOf(p) # None)
            BY DEF HandleIsTemp
          <5>2. \A f \in Inode : f # handle[p] => data'[f] = data[f]
            BY <4>2 DEF Fill, ImportEcb
          <5>3. QED
            BY <4>0, <5>1, <5>2 DEF g
        <4>3. CASE Verify(p)
          <5>1. PICK f \in IF target = None THEN Inode \ InUse ELSE {target} :
                  data' = [data EXCEPT ![f] = IF target = None THEN {} ELSE @]
            BY <4>3 DEF Verify
          <5>2. QED
            BY <4>0, <5>1 DEF g
        <4>4. CASE UNCHANGED data
          BY <4>4
        <4>5. QED
          BY <1>2, <4>1, <4>2, <4>3, <4>4
             DEF Move, Advance, Check1, Check2, BackUp, Install, DropBackup,
                 Restore, RestoreUnlink, RestoreMove, Cleanup, Raise, Interrupt,
                 Crash, files
      <3>4. QED
        BY <2>2, <3>1, <3>2, <3>3 DEF TempOf, BackupOf
    <2>5. QED
      BY <2>2, <2>3, <2>4
  <1>3. QED
    BY <1>1, <1>2

\* A run that is going on has no verdict of an earlier run, and is declared
\* good only on its way out.
VerdictInv ==
  \A p \in Updater :
    /\ run[p] = None => outcome[p] = "none" /\ origin[p] = None
    /\ pc[p] # "idle" => /\ outcome[p] \notin {"none", "late"}
                         /\ outcome[p] = "ok" => pc[p] = "cleanup"

\* What a run makes of its source.
Made(p) == {Csv(run[p].src)} \union
           (IF run[p].opt.ecb THEN {Ecb(run[p].src)} ELSE {})

LEMMA MadeIsWhole ==
  ASSUME NEW p \in Updater, run[p].src \in Valid
  PROVE  Made(p) \in Whole
  BY DEF Made, Whole

\* What a run has under its temporary name at each step, and what it has found
\* out about its source and its settings.
Built(p) ==
  /\ pc[p] = "load" => TempOf(p) = None
  /\ pc[p] \in Loading \union {"backup", "install"} => TempOf(p) # None
  /\ pc[p] \in Loading => handle[p] = TempOf(p)
  /\ pc[p] = "fill" => data[TempOf(p)] = {}
  /\ pc[p] \in {"check1", "ecb"} => data[TempOf(p)] = {Csv(run[p].src)}
  /\ pc[p] \in {"check2", "backup", "install"} => data[TempOf(p)] = Made(p)
  /\ pc[p] \in {"ecb", "check2"} \union Swapping => run[p].src \in Valid
  /\ pc[p] \in Swapping => ~run[p].opt.dry

\* When a run has nothing under its backup name and its temporary name.
Tidy(p) ==
  /\ pc[p] \in Building \union {"backup"} => BackupOf(p) = None
  /\ (pc[p] \in {"cleanup", "idle"} /\ outcome[p] \in {"ok", "failed"}) =>
       BackupOf(p) = None
  /\ (pc[p] = "idle" /\ outcome[p] = "ok") =>
       (TempOf(p) = None \/ run[p].opt.keep)

OwnInv ==
  /\ FileInv
  /\ VerdictInv
  /\ \A p \in Updater : Built(p) /\ Tidy(p)

LEMMA InitOwnInv == Init => OwnInv
  BY InitFileInv
     DEF Init, OwnInv, VerdictInv, Built, Tidy, Loading, Building, Swapping

\* The verdict on a run changes at its beginning and at its end only.
LEMMA StepVerdict ==
  ASSUME TypeInv, VerdictInv, NEW p \in Updater, Move(p)
  PROVE  /\ pc'[p] # "idle" => /\ outcome'[p] \notin {"none", "late"}
                               /\ outcome'[p] = "ok" => pc'[p] = "cleanup"
         /\ ~Settled(p)' => ~Settled(p)
         /\ run[p] # None
         /\ UNCHANGED <<run, origin>>
  <1> USE DEF VerdictInv, TypeInv, TypeOK, Settled
  <1>1. CASE Load(p) \/ ImportEcb(p) \/ BackUp(p) \/ Restore(p) \/ Cleanup(p)
    BY <1>1 DEF Load, ImportEcb, BackUp, Restore, RestoreUnlink, RestoreMove,
                Cleanup, Goto
  <1>2. CASE Fill(p) \/ Check1(p) \/ Check2(p)
    BY <1>2 DEF Fill, Check1, Check2, Goto, GotoIf
  <1>3. CASE Install(p) \/ Verify(p) \/ DropBackup(p)
    BY <1>3 DEF Install, Verify, DropBackup, Goto, GotoIf
  <1>4. CASE Raise(p)
    <2>1. pc[p] # "idle"
      BY <1>4 DEF Raise, CanRaise
    <2>2. pc[p] = "cleanup" => pc'[p] = "idle"
      BY <1>4 DEF Raise, Handlers, Goto
    <2>3. outcome'[p] = IF outcome[p] = "ok" THEN "late"
                        ELSE IF pc[p] \in {"outUnlink", "outMove"} THEN "unrestored"
                        ELSE IF pc[p] = "cleanup" THEN outcome[p] ELSE "failed"
      BY <1>4 DEF Raise, Ended
    <2>4. QED
      BY <1>4, <2>1, <2>2, <2>3 DEF Raise
  <1>5. CASE Interrupt(p) \/ Crash(p)
    BY <1>5 DEF Interrupt, Crash, Ended, Goto
  <1>6. run[p] # None /\ UNCHANGED <<run, origin>>
    BY MoveRuns DEF RunKnown
  <1>7. QED
    BY <1>1, <1>2, <1>3, <1>4, <1>5, <1>6 DEF Move, Advance

LEMMA MoveOwn ==
  ASSUME FileInv, VerdictInv, NEW p \in Updater, Built(p), Tidy(p), Move(p)
  PROVE  Built(p)' /\ Tidy(p)'
  <1> USE NoneAssumption DEF FileInv, TypeInv, TypeOK
  <1>1. pc[p] # "idle"
    BY MoveRuns
  <1>2. /\ run[p] # None /\ run[p].stamp \in Second
        /\ run' = run
    BY <1>1, RunFields, MoveRuns DEF RunKnown
  <1>3. CASE Load(p)
    <2>1. PICK f \in IF TempOf(p) = None THEN Inode \ InUse ELSE {TempOf(p)} :
            /\ temp' = [temp EXCEPT ![run[p].stamp] = f]
            /\ data' = [data EXCEPT ![f] = {}]
            /\ handle' = [handle EXCEPT ![p] = f]
      BY <1>3 DEF Load
    <2>2. f \in Inode /\ TempOf(p)' = f /\ handle'[p] = f /\ data'[f] = {}
      BY <1>2, <2>1 DEF TempOf
    <2>3. pc'[p] = "fill" /\ BackupOf(p)' = BackupOf(p)
      BY <1>2, <1>3 DEF Load, Goto, BackupOf
    <2>4. Built(p)'
      BY <2>2, <2>3 DEF Built, Loading, Swapping
    <2>5. QED
      BY <1>3, <2>3, <2>4 DEF Load, Tidy, Building
  <1>4. CASE Fill(p)
    <2>1. /\ handle[p] = TempOf(p) /\ TempOf(p) \in Inode
          /\ data[TempOf(p)] = {} /\ BackupOf(p) = None
      BY <1>2, <1>4 DEF Fill, Built, Tidy, Loading, Building, TempOf
    <2>2. /\ data'[TempOf(p)] = {Csv(run[p].src)}
          /\ pc'[p] = "check1"
          /\ handle'[p] = handle[p]
          /\ UNCHANGED <<temp, backup>>
      BY <1>4, <2>1 DEF Fill, Goto
    <2>3. TempOf(p)' = TempOf(p) /\ BackupOf(p)' = None
      BY <1>2, <2>1, <2>2 DEF TempOf, BackupOf
    <2>4. Built(p)'
      BY <1>2, <2>1, <2>2, <2>3 DEF Built, Loading, Swapping
    <2>5. QED
      BY <2>2, <2>3, <2>4 DEF Tidy, Building
  <1>5. CASE Check1(p)
    <2>1. /\ handle[p] = TempOf(p) /\ TempOf(p) # None
          /\ data[TempOf(p)] = {Csv(run[p].src)} /\ BackupOf(p) = None
      BY <1>2, <1>5 DEF Check1, Built, Tidy, Loading, Building
    <2>2. /\ UNCHANGED <<temp, backup, data>>
          /\ \/ pc'[p] = "outUnlink"
             \/ /\ pc'[p] = "ecb"
                /\ handle'[p] = handle[p]
                /\ run[p].src \in Valid
      BY <1>5 DEF Check1, files, GotoIf, Goto, Accepts
    <2>3. TempOf(p)' = TempOf(p) /\ BackupOf(p)' = None
      BY <1>2, <2>1, <2>2 DEF TempOf, BackupOf
    <2>4. Built(p)'
      BY <1>2, <2>1, <2>2, <2>3 DEF Built, Loading, Swapping
    <2>5. QED
      BY <2>2, <2>3, <2>4 DEF Tidy, Building
  <1>6. CASE ImportEcb(p)
    <2>1. /\ handle[p] = TempOf(p) /\ TempOf(p) \in Inode
          /\ data[TempOf(p)] = {Csv(run[p].src)} /\ BackupOf(p) = None
          /\ run[p].src \in Valid
      BY <1>2, <1>6 DEF ImportEcb, Built, Tidy, Loading, Building, TempOf
    <2>2. /\ UNCHANGED <<temp, backup, handle>>
          /\ pc'[p] = "check2"
          /\ data'[TempOf(p)] = Made(p)
      BY <1>6, <2>1 DEF ImportEcb, Goto, Made
    <2>3. TempOf(p)' = TempOf(p) /\ BackupOf(p)' = None /\ Made(p)' = Made(p)
      BY <1>2, <2>1, <2>2 DEF TempOf, BackupOf, Made
    <2>4. Built(p)'
      BY <1>2, <2>1, <2>2, <2>3 DEF Built, Loading, Swapping
    <2>5. QED
      BY <2>2, <2>3, <2>4 DEF Tidy, Building
  <1>7. CASE Check2(p)
    <2>1. /\ TempOf(p) # None /\ data[TempOf(p)] = Made(p) /\ BackupOf(p) = None
          /\ run[p].src \in Valid
      BY <1>2, <1>7 DEF Check2, Built, Tidy, Loading, Building, Swapping
    <2>2. /\ UNCHANGED <<temp, backup, data>>
          /\ pc'[p] \in {"outUnlink", "cleanup", "backup"}
          /\ pc'[p] = "backup" => ~run[p].opt.dry
      BY <1>7 DEF Check2, files, Goto
    <2>3. TempOf(p)' = TempOf(p) /\ BackupOf(p)' = None /\ Made(p)' = Made(p)
      BY <1>2, <2>1, <2>2 DEF TempOf, BackupOf, Made
    <2>4. Built(p)'
      BY <1>2, <2>1, <2>2, <2>3 DEF Built, Loading, Swapping
    <2>5. QED
      BY <2>2, <2>3, <2>4 DEF Tidy, Building
  <1>8. CASE BackUp(p)
    <2>1. /\ TempOf(p) # None /\ data[TempOf(p)] = Made(p)
          /\ run[p].src \in Valid /\ ~run[p].opt.dry
      BY <1>8 DEF BackUp, Built, Swapping
    <2>2. UNCHANGED <<temp, data>> /\ pc'[p] = "install"
      BY <1>8 DEF BackUp, Goto
    <2>3. TempOf(p)' = TempOf(p) /\ Made(p)' = Made(p)
      BY <1>2, <2>2 DEF TempOf, Made
    <2>4. Built(p)'
      BY <1>2, <2>1, <2>2, <2>3 DEF Built, Loading
    <2>5. QED
      BY <2>2, <2>4 DEF Tidy, Building
  <1>9. CASE Install(p) \/ Verify(p)
    <2>1. /\ run[p].src \in Valid /\ ~run[p].opt.dry
          /\ pc'[p] \in {"verify", "inUnlink", "drop", "outUnlink"}
      BY <1>9 DEF Install, Verify, Built, Swapping, Goto, GotoIf
    <2>2. QED
      BY <1>2, <2>1 DEF Built, Tidy, Building, Loading
  <1>10. CASE DropBackup(p)
    <2>1. pc'[p] = "cleanup" /\ BackupOf(p)' = None
      BY <1>2, <1>10 DEF DropBackup, Goto, BackupOf
    <2>2. QED
      BY <2>1 DEF Built, Tidy, Building, Loading, Swapping
  <1>11. CASE Restore(p)
    <2>1. /\ pc'[p] \in {"inMove", "outMove", "outUnlink", "cleanup"}
          /\ pc'[p] = "cleanup" => BackupOf(p)' = None
      BY <1>2, <1>11 DEF Restore, RestoreUnlink, RestoreMove, Goto, BackupOf
    <2>2. QED
      BY <2>1 DEF Built, Tidy, Building, Loading, Swapping
  <1>12. CASE Cleanup(p)
    <2>1. /\ pc'[p] = "idle" /\ UNCHANGED <<backup, outcome>>
          /\ TempOf(p)' = None \/ run[p].opt.keep
      BY <1>2, <1>12 DEF Cleanup, Goto, TempOf
    <2>2. outcome[p] \in {"ok", "failed"} => BackupOf(p)' = None
      BY <1>2, <1>12, <2>1 DEF Cleanup, Tidy, BackupOf
    <2>3. QED
      BY <1>2, <2>1, <2>2 DEF Built, Tidy, Building, Loading, Swapping
  <1>13. CASE Raise(p) \/ Interrupt(p) \/ Crash(p)
    <2>1. /\ UNCHANGED <<temp, backup>>
          /\ pc'[p] \in {"outUnlink", "inUnlink", "cleanup", "idle"}
      BY <1>13 DEF Raise, Interrupt, Crash, files, Goto, Handlers
    <2>2. ASSUME pc'[p] \in {"cleanup", "idle"}, outcome'[p] \in {"ok", "failed"}
          PROVE  BackupOf(p) = None /\ outcome'[p] # "ok"
      <3>1. Raise(p)
        BY <1>13, <2>2 DEF Interrupt, Crash, Ended
      <3>2. pc[p] \in {"load", "fill", "cleanup"}
        BY <2>2, <3>1 DEF Raise, Goto, Handlers, Ended
      <3>3. outcome'[p] # "ok"
        BY <3>1, <3>2 DEF Raise, Ended
      <3>4. pc[p] = "cleanup" => outcome[p] = "failed"
        BY <2>2, <3>1, <3>3 DEF Raise, Ended
      <3>5. QED
        BY <3>2, <3>3, <3>4 DEF Tidy, Building
    <2>3. BackupOf(p)' = BackupOf(p)
      BY <1>2, <2>1 DEF BackupOf
    <2>4. QED
      BY <2>1, <2>2, <2>3 DEF Built, Tidy, Building, Loading, Swapping
  <1>14. QED
    BY <1>3, <1>4, <1>5, <1>6, <1>7, <1>8, <1>9, <1>10, <1>11, <1>12, <1>13
       DEF Move, Advance

LEMMA BeginOwn ==
  ASSUME ~SameSecond, FileInv, NEW p \in Updater, Begin(p)
  PROVE  /\ pc'[p] = "load"
         /\ outcome'[p] = "pending"
         /\ origin'[p] = ContentOf(target)
         /\ run'[p] # None
         /\ run'[p].stamp = clock + 1
         /\ clock' = clock + 1
         /\ UNCHANGED files
         /\ TempOf(p)' = None
         /\ BackupOf(p)' = None
         /\ Built(p)' /\ Tidy(p)'
  <1> USE DEF FileInv, TypeInv, TypeOK
  <1>1. PICK t \in Second, s \in Source, o \in Option :
          /\ t = clock + 1
          /\ clock' = t
          /\ run' = [run EXCEPT ![p] = [stamp |-> t, src |-> s, opt |-> o]]
    BY DEF Begin
  <1>2. run'[p] = [stamp |-> t, src |-> s, opt |-> o] /\ run'[p].stamp = t
    BY <1>1
  <1>3. run'[p] # None
    BY <1>2, OptionAssumption, NoneAssumption DEF Run
  <1>4. t > clock
    BY <1>1, BoundAssumption
  <1>5. temp[t] = None /\ backup[t] = None
    BY <1>4 DEF FutureIsFree
  <1>6. /\ pc'[p] = "load"
        /\ outcome'[p] = "pending"
        /\ origin'[p] = ContentOf(target)
        /\ UNCHANGED files
    BY DEF Begin, Goto
  <1>7. TempOf(p)' = None /\ BackupOf(p)' = None
    BY <1>2, <1>5, <1>6 DEF TempOf, BackupOf, files
  <1>8. Built(p)' /\ Tidy(p)'
    BY <1>6, <1>7 DEF Built, Tidy, Loading, Building, Swapping
  <1>9. QED
    BY <1>1, <1>2, <1>3, <1>6, <1>7, <1>8

LEMMA StepOwnInv ==
  ASSUME ~SameSecond, OwnInv, [Next]_vars
  PROVE  OwnInv'
  <1>1. FileInv'
    BY StepFileInv DEF OwnInv
  <1>2. ASSUME NEW p \in Updater, Begin(p) \/ Move(p)
        PROVE  OwnInv'
    <2>1. VerdictInv' /\ Built(p)' /\ Tidy(p)'
      <3>1. CASE Move(p)
        <4>1. Built(p)' /\ Tidy(p)'
          BY <3>1, MoveOwn DEF OwnInv
        <4>2. /\ run' = run /\ origin' = origin
              /\ pc'[p] # "idle" => /\ outcome'[p] \notin {"none", "late"}
                                    /\ outcome'[p] = "ok" => pc'[p] = "cleanup"
              /\ run[p] # None
          BY <3>1, StepVerdict DEF OwnInv, FileInv
        <4>3. QED
          BY <1>2, <4>1, <4>2, Elsewhere DEF OwnInv, VerdictInv
      <3>2. CASE Begin(p)
        <4>1. /\ pc'[p] = "load" /\ outcome'[p] = "pending" /\ run'[p] # None
              /\ Built(p)' /\ Tidy(p)'
          BY <3>2, BeginOwn DEF OwnInv
        <4>2. QED
          BY <1>2, <4>1, Elsewhere DEF OwnInv, VerdictInv
      <3>3. QED
        BY <1>2, <3>1, <3>2
    <2>2. ASSUME NEW q \in Updater, q # p
          PROVE  Built(q)' /\ Tidy(q)'
      <3>1. /\ pc'[q] = pc[q]
            /\ handle'[q] = handle[q]
            /\ run'[q] = run[q]
            /\ outcome'[q] = outcome[q]
            /\ run[q] # None =>
                 /\ TempOf(q)' = TempOf(q)
                 /\ BackupOf(q)' = BackupOf(q)
                 /\ TempOf(q) # None => data'[TempOf(q)] = data[TempOf(q)]
        BY <1>2, <2>2, Elsewhere DEF OwnInv
      <3>2. Built(q) /\ Tidy(q)
        BY DEF OwnInv
      <3>3. CASE run[q] = None
        <4>1. pc[q] = "idle" /\ outcome[q] = "none"
          BY <3>3 DEF OwnInv, FileInv, TypeInv, RunKnown, VerdictInv
        <4>2. QED
          BY <3>1, <4>1 DEF Built, Tidy, Loading, Building, Swapping
      <3>4. CASE run[q] # None
        <4>1. Made(q)' = Made(q)
          BY <3>1 DEF Made
        <4>2. TempOf(q)' = TempOf(q) /\ BackupOf(q)' = BackupOf(q)
          BY <3>1, <3>4
        <4>3. Tidy(q)'
          BY <3>1, <3>2, <4>2 DEF Tidy
        <4>4. TempOf(q) # None => data'[TempOf(q)'] = data[TempOf(q)]
          BY <3>1, <3>4, <4>2
        <4>5. QED
          BY <3>1, <3>2, <4>1, <4>2, <4>3, <4>4 DEF Built, Loading
      <3>5. QED
        BY <3>3, <3>4
    <2>3. QED
      BY <1>1, <2>1, <2>2 DEF OwnInv
  <1>3. CASE UNCHANGED vars
    BY <1>1, <1>3 DEF vars, OwnInv, VerdictInv, Built, Tidy, Made, TempOf,
                      BackupOf
  <1>4. QED
    BY <1>2, <1>3 DEF Next, Rest, Move

\* However many updaters run at once, each started in a second of its own, a run
\* that returns to its caller leaves no backup behind, and one that succeeds no
\* temporary file unless it was asked to keep it.
THEOREM RunsLeaveNoLitter ==
  ASSUME ~SameSecond
  PROVE  Spec => []NoLitter
  <1>1. OwnInv /\ [Next]_vars => OwnInv'
    BY StepOwnInv
  <1>2. OwnInv => NoLitter
    BY DEF OwnInv, NoLitter, Tidy
  <1>3. QED
    BY <1>1, <1>2, InitOwnInv, PTL DEF Spec

-----------------------------------------------------------------------------
(***************************************************************************)
(* Where the database that was active when a run started is at each step   *)
(* of that run, when one updater runs at a time.                           *)
(***************************************************************************)
Alone == \A p, q \in Updater : p = q

\* The file f holds the database that p's run started from.
Kept(f, p) == f # None /\ data[f] = origin[p]

\* At the target until it is moved to the backup, there until it is moved back.
WhereKept(p) ==
  /\ pc[p] \in Building \union {"backup"} =>
       Kept(target, p) /\ BackupOf(p) = None
  /\ pc[p] \in {"install", "verify", "drop", "inUnlink", "inMove", "outMove"} =>
       Kept(BackupOf(p), p)
  /\ pc[p] = "outUnlink" =>
       Kept(IF BackupOf(p) = None THEN target ELSE BackupOf(p), p)
  /\ pc[p] \in {"cleanup", "idle"} =>
       Kept(target, p) \/ Kept(BackupOf(p), p)

KeptInv ==
  /\ FileInv
  /\ VerdictInv
  /\ \A p \in Updater : (~Settled(p) /\ origin[p] # None) =>
       run[p] # None /\ WhereKept(p)

LEMMA InitKeptInv == Init => KeptInv
  BY InitFileInv DEF Init, KeptInv, VerdictInv, Settled

\* A step of a run leaves the database where the next step expects it.
LEMMA StepWhereKept ==
  ASSUME KeptInv, NEW p \in Updater,
         Move(p), ~Settled(p), ~Settled(p)', origin[p] # None
  PROVE  WhereKept(p)'
  <1>1. run[p] # None /\ WhereKept(p) /\ pc[p] \in Step
    BY DEF KeptInv, FileInv, TypeInv, TypeOK
  <1>2. run' = run /\ origin' = origin
    BY DEF Move, Advance, Load, Fill, Check1, ImportEcb, Check2, BackUp, Install,
           Verify, DropBackup, Restore, RestoreUnlink, RestoreMove, Cleanup,
           Raise, Interrupt, Crash
  <1>3. run[p].stamp \in Second
    BY <1>1 DEF KeptInv, FileInv, TypeInv, TypeOK, Run
  <1> DEFINE t == run[p].stamp
             b == backup[t]
             KeptThen(f) == f # None /\ data'[f] = origin[p]
  <1>4. /\ Kept(target, p) => KeptThen(target)
        /\ Kept(b, p) => KeptThen(b)
    BY <1>3, NamedIsStable DEF Kept, KeptInv
  <1>5. ASSUME /\ pc'[p] \in Building \union {"backup"} =>
                    KeptThen(target') /\ backup'[t] = None
               /\ pc'[p] \in {"install", "verify", "drop", "inUnlink",
                              "inMove", "outMove"} => KeptThen(backup'[t])
               /\ pc'[p] = "outUnlink" =>
                    KeptThen(IF backup'[t] = None THEN target' ELSE backup'[t])
               /\ pc'[p] \in {"cleanup", "idle"} =>
                    KeptThen(target') \/ KeptThen(backup'[t])
        PROVE  WhereKept(p)'
    BY <1>2, <1>5 DEF WhereKept, Kept, BackupOf
  <1> HIDE DEF KeptThen
  <1>6. CASE Load(p) \/ Fill(p) \/ Check1(p) \/ ImportEcb(p) \/ Check2(p)
    <2>1. Kept(target, p) /\ b = None
      BY <1>1, <1>6
         DEF Load, Fill, Check1, ImportEcb, Check2, WhereKept, Building, BackupOf
    <2>2. UNCHANGED <<target, backup>>
      BY <1>6 DEF Load, Fill, Check1, ImportEcb, Check2, files
    <2>3. pc'[p] \in Building \union {"backup", "outUnlink", "cleanup"}
      BY <1>6 DEF Load, Fill, Check1, ImportEcb, Check2, Goto, GotoIf,
                  Building, KeptInv, FileInv, TypeInv, TypeOK
    <2>4. QED
      BY <1>4, <1>5, <2>1, <2>2, <2>3 DEF Building
  <1>7. CASE BackUp(p)
    <2>1. Kept(target, p)
      BY <1>1, <1>7 DEF BackUp, WhereKept
    <2>2. pc'[p] = "install" /\ backup'[t] = target
      BY <1>3, <1>7, <2>1
         DEF BackUp, Goto, Kept, KeptInv, FileInv, TypeInv, TypeOK
    <2>3. QED
      BY <1>4, <1>5, <2>1, <2>2 DEF Building
  <1>8. CASE Install(p) \/ Verify(p)
    <2>1. Kept(b, p) /\ b # None
      BY <1>1, <1>8 DEF Install, Verify, WhereKept, BackupOf, Kept
    <2>2. /\ UNCHANGED backup
          /\ pc'[p] \in {"verify", "inUnlink", "drop", "outUnlink"}
      BY <1>8 DEF Install, Verify, Goto, GotoIf, KeptInv, FileInv, TypeInv, TypeOK
    <2>3. QED
      BY <1>4, <1>5, <2>1, <2>2 DEF Building
  <1>9. CASE Restore(p)
    <2>1. CASE RestoreUnlink(p, "inUnlink", "inMove", "outUnlink")
      <3>1. Kept(b, p) /\ b # None
        BY <1>1, <2>1 DEF RestoreUnlink, WhereKept, BackupOf, Kept
      <3>2. pc'[p] = "inMove" /\ backup' = backup
        BY <2>1, <3>1 DEF RestoreUnlink, Goto, BackupOf, KeptInv, FileInv, TypeInv, TypeOK
      <3>3. QED
        BY <1>4, <1>5, <3>1, <3>2 DEF Building
    <2>2. CASE RestoreUnlink(p, "outUnlink", "outMove", "cleanup")
      <3>1. Kept(IF b = None THEN target ELSE b, p)
        BY <1>1, <2>2 DEF RestoreUnlink, WhereKept, BackupOf
      <3>2. /\ pc'[p] = IF b = None THEN "cleanup" ELSE "outMove"
            /\ target' = IF b = None THEN target ELSE None
            /\ backup' = backup
        BY <2>2 DEF RestoreUnlink, Goto, BackupOf, KeptInv, FileInv, TypeInv, TypeOK
      <3>3. QED
        BY <1>4, <1>5, <3>1, <3>2 DEF Building
    <2>3. CASE RestoreMove(p, "inMove", "outUnlink") \/ RestoreMove(p, "outMove", "cleanup")
      <3>1. Kept(b, p) /\ b # None
        BY <1>1, <2>3 DEF RestoreMove, WhereKept, BackupOf, Kept
      <3>2. /\ pc'[p] \in {"outUnlink", "cleanup"}
            /\ target' = b
            /\ backup'[t] = None
        BY <1>3, <2>3, <3>1
           DEF RestoreMove, Goto, BackupOf, KeptInv, FileInv, TypeInv, TypeOK
      <3>3. QED
        BY <1>4, <1>5, <3>1, <3>2 DEF Building
    <2>4. QED
      BY <1>9, <2>1, <2>2, <2>3 DEF Restore
  <1>10. CASE Cleanup(p)
    <2>1. Kept(target, p) \/ Kept(b, p)
      BY <1>1, <1>10 DEF Cleanup, WhereKept, BackupOf
    <2>2. pc'[p] = "idle" /\ UNCHANGED <<target, backup>>
      BY <1>10 DEF Cleanup, Goto, KeptInv, FileInv, TypeInv, TypeOK
    <2>3. QED
      BY <1>4, <1>5, <2>1, <2>2 DEF Building
  <1>11. CASE Raise(p)
    <2>1. UNCHANGED <<target, backup>>
      BY <1>11 DEF Raise, files
    <2>2. pc'[p] \in Handlers(pc[p]) /\ pc[p] # "idle"
      BY <1>11 DEF Raise, CanRaise, Goto, KeptInv, FileInv, TypeInv, TypeOK
    <2>3. CASE pc[p] \in Building \union {"backup"}
      <3>1. Kept(target, p) /\ b = None
        BY <1>1, <2>3 DEF WhereKept, BackupOf
      <3>2. pc'[p] \in {"cleanup", "outUnlink"}
        BY <2>2, <2>3 DEF Handlers, Building
      <3>3. QED
        BY <1>4, <1>5, <2>1, <3>1, <3>2 DEF Building
    <2>4. CASE pc[p] \in {"install", "verify", "drop", "inUnlink", "inMove",
                          "outMove"}
      <3>1. Kept(b, p) /\ b # None
        BY <1>1, <2>4 DEF WhereKept, BackupOf, Kept
      <3>2. pc'[p] \in {"inUnlink", "outUnlink", "cleanup"}
        BY <2>2, <2>4 DEF Handlers
      <3>3. QED
        BY <1>4, <1>5, <2>1, <3>1, <3>2 DEF Building
    <2>5. CASE pc[p] \in {"outUnlink", "cleanup"}
      <3>1. Kept(target, p) \/ Kept(b, p)
        BY <1>1, <2>5 DEF WhereKept, BackupOf
      <3>2. pc'[p] \in {"cleanup", "idle"}
        BY <2>2, <2>5 DEF Handlers
      <3>3. QED
        BY <1>4, <1>5, <2>1, <3>1, <3>2 DEF Building
    <2>6. QED
      BY <1>1, <2>2, <2>3, <2>4, <2>5 DEF Step, Swapping, Restoring
  <1>12. CASE Interrupt(p) \/ Crash(p)
    <2>1. UNCHANGED <<target, backup>> /\ pc'[p] \in {"cleanup", "idle"}
      BY <1>12 DEF Interrupt, Crash, Goto, files, KeptInv, FileInv, TypeInv, TypeOK
    <2>2. Kept(target, p) \/ Kept(b, p)
      BY <1>1 DEF WhereKept, BackupOf, Step, Swapping, Restoring
    <2>3. QED
      BY <1>4, <1>5, <2>1, <2>2 DEF Building
  <1>13. CASE DropBackup(p)
    BY <1>13 DEF DropBackup, Settled, KeptInv, FileInv, TypeInv, TypeOK
  <1>14. QED
    BY <1>6, <1>7, <1>8, <1>9, <1>10, <1>11, <1>12, <1>13 DEF Move, Advance

LEMMA StepKeptInv ==
  ASSUME Alone, ~SameSecond, KeptInv, [Next]_vars
  PROVE  KeptInv'
  <1>1. FileInv'
    BY StepFileInv DEF KeptInv
  <1>2. ASSUME NEW p \in Updater, Move(p)
        PROVE  KeptInv'
    <2>1. \A q \in Updater : q = p
      BY DEF Alone
    <2>2. VerdictInv'
      BY <1>2, <2>1, StepVerdict DEF VerdictInv, KeptInv, FileInv
    <2>3. ASSUME ~Settled(p)', origin'[p] # None
          PROVE  run'[p] # None /\ WhereKept(p)'
      <3>1. ~Settled(p) /\ origin[p] # None /\ run' = run
        BY <1>2, <2>3, StepVerdict DEF KeptInv, FileInv
      <3>2. QED
        BY <1>2, <2>3, <3>1, StepWhereKept DEF KeptInv
    <2>4. QED
      BY <1>1, <2>1, <2>2, <2>3 DEF KeptInv
  <1>3. ASSUME NEW p \in Updater, Begin(p) PROVE KeptInv'
    <2>1. \A q \in Updater : q = p
      BY DEF Alone
    <2>2. PICK t \in Second, s \in Source, o \in Option :
            /\ t = clock + 1
            /\ run' = [run EXCEPT ![p] = [stamp |-> t, src |-> s, opt |-> o]]
      BY <1>3 DEF Begin
    <2>3. /\ UNCHANGED <<target, backup, data>>
          /\ pc'[p] = "load"
          /\ outcome'[p] = "pending"
          /\ origin'[p] = ContentOf(target)
      BY <1>3 DEF Begin, files, Goto, KeptInv, FileInv, TypeInv, TypeOK
    <2>4. run'[p] # None /\ run'[p].stamp = t
      BY <1>1, <2>2, <2>3 DEF FileInv, TypeInv, TypeOK, RunKnown, KeptInv
    <2>5. backup[t] = None
      <3>1. clock \in Nat
        BY BoundAssumption DEF KeptInv, FileInv, TypeInv, TypeOK
      <3>2. QED
        BY <2>2, <3>1 DEF KeptInv, FileInv, FutureIsFree
    <2>6. origin'[p] # None => WhereKept(p)'
      BY <2>3, <2>4, <2>5
         DEF WhereKept, Kept, BackupOf, ContentOf, Building
    <2>7. VerdictInv'
      BY <2>1, <2>3, <2>4 DEF VerdictInv
    <2>8. QED
      BY <1>1, <2>1, <2>4, <2>6, <2>7 DEF KeptInv
  <1>4. CASE UNCHANGED vars
    BY <1>1, <1>4
       DEF vars, KeptInv, VerdictInv, WhereKept, Kept, BackupOf, Settled
  <1>5. QED
    BY <1>2, <1>3, <1>4 DEF Next, Rest, Move

\* With one updater at a time and a second per run, a database that was active
\* when a run started is at the target or in that run's backup until the run has
\* succeeded, for every number of faults of every kind.
THEOREM OriginalIsRecoverable ==
  ASSUME Alone, ~SameSecond
  PROVE  Spec => []OriginalRecoverable
  <1>1. KeptInv /\ [Next]_vars => KeptInv'
    BY StepKeptInv
  <1>2. KeptInv => OriginalRecoverable
    <2> SUFFICES ASSUME KeptInv, NEW p \in Updater, ~Settled(p), origin[p] # None
                 PROVE  origin[p] \in {ContentOf(target), ContentOf(BackupOf(p))}
      BY DEF OriginalRecoverable
    <2>1. WhereKept(p) /\ pc[p] \in Step
      BY DEF KeptInv, FileInv, TypeInv, TypeOK
    <2>2. Kept(target, p) \/ Kept(BackupOf(p), p)
      BY <2>1 DEF WhereKept, Step, Swapping, Restoring
    <2>3. QED
      BY <2>2 DEF Kept, ContentOf
  <1>3. QED
    BY <1>1, <1>2, InitKeptInv, PTL DEF Spec
-----------------------------------------------------------------------------
(***************************************************************************)
(* What is under the target's name and the backup names, when one updater  *)
(* runs at a time: what readers see and what the caller is told.           *)
(***************************************************************************)
BackupsWhole == \A t \in Second : backup[t] # None => data[backup[t]] \in Whole

\* The content of the target at each step of p's run.
Seen(p) ==
  /\ pc[p] \in Building \union {"backup"} => ContentOf(target) = origin[p]
  /\ pc[p] \in {"install", "inUnlink", "inMove", "outMove"} => target = None
  /\ pc[p] \in {"verify", "drop"} => target # None /\ data[target] = Made(p)
  /\ (pc[p] \in {"cleanup", "idle"} /\ outcome[p] = "ok") =>
       ContentOf(target) = Promised(p)
  /\ (pc[p] \in {"cleanup", "idle"} /\ outcome[p] = "failed"
      /\ origin[p] # None) => ContentOf(target) = origin[p]

SoloInv ==
  /\ OwnInv
  /\ KeptInv
  /\ ActiveIsWhole
  /\ BackupsWhole
  /\ \A p \in Updater : Seen(p)

LEMMA InitSoloInv == Init => SoloInv
  <1> SUFFICES ASSUME Init PROVE SoloInv
    OBVIOUS
  <1>1. OwnInv /\ KeptInv
    BY InitOwnInv, InitKeptInv
  <1>2. ActiveIsWhole /\ BackupsWhole
    BY DEF Init, ActiveIsWhole, BackupsWhole
  <1>3. \A p \in Updater : Seen(p)
    BY DEF Init, Seen, Building
  <1>4. QED
    BY <1>1, <1>2, <1>3 DEF SoloInv

\* The files under the target's name and the backup names are exchanged among
\* themselves, except for the file a run has built.
LEMMA MoveWhole ==
  ASSUME SoloInv, NEW p \in Updater, Move(p)
  PROVE  ActiveIsWhole' /\ BackupsWhole'
  <1> USE NoneAssumption
          DEF SoloInv, OwnInv, FileInv, TypeInv, TypeOK, ActiveIsWhole, BackupsWhole
  <1>0. pc[p] # "idle" /\ run[p] # None /\ run[p].stamp \in Second
    BY MoveRuns, RunFields DEF RunKnown
  <1>1. /\ target # None => data'[target] = data[target] /\ data[target] \in Whole
        /\ \A t \in Second : backup[t] # None =>
             data'[backup[t]] = data[backup[t]] /\ data[backup[t]] \in Whole
    BY NamedIsStable
  <1>2. CASE BackUp(p)
    BY <1>0, <1>1, <1>2 DEF BackUp
  <1>3. CASE Install(p)
    <2>1. TempOf(p) # None /\ data[TempOf(p)] \in Whole
      BY <1>3, MadeIsWhole DEF Install, Built, Swapping
    <2>2. target' = TempOf(p) /\ UNCHANGED <<backup, data>>
      BY <1>3, <2>1 DEF Install
    <2>3. QED
      BY <1>1, <2>1, <2>2
  <1>4. CASE Verify(p)
    <2>1. target # None
      BY <1>4 DEF Verify, Seen
    <2>2. target' = target /\ backup' = backup
      BY <1>4, <2>1 DEF Verify
    <2>3. QED
      BY <1>1, <2>2
  <1>5. CASE DropBackup(p)
    BY <1>0, <1>1, <1>5 DEF DropBackup
  <1>6. CASE Restore(p)
    <2>1. data' = data
      BY <1>6 DEF Restore, RestoreUnlink, RestoreMove
    <2>2. \/ target' \in {target, None} /\ backup' = backup
          \/ /\ target' = IF BackupOf(p) = None THEN target ELSE BackupOf(p)
             /\ backup' = [backup EXCEPT ![run[p].stamp] = None]
      BY <1>6 DEF Restore, RestoreUnlink, RestoreMove
    <2>3. QED
      BY <1>0, <1>1, <2>1, <2>2 DEF BackupOf
  <1>7. CASE UNCHANGED <<target, backup>>
    BY <1>1, <1>7
  <1>8. QED
    BY <1>2, <1>3, <1>4, <1>5, <1>6, <1>7
       DEF Move, Advance, Load, Fill, Check1, ImportEcb, Check2, Cleanup, Raise,
           Interrupt, Crash, files

LEMMA MoveSeen ==
  ASSUME SoloInv, NEW p \in Updater, Move(p)
  PROVE  Seen(p)'
  <1> USE NoneAssumption DEF SoloInv, OwnInv, FileInv, TypeInv, TypeOK
  <1>0. /\ pc[p] # "idle" /\ run[p] # None /\ run[p].stamp \in Second
        /\ run' = run /\ origin' = origin
        /\ outcome[p] \notin {"none", "late"}
        /\ outcome[p] = "ok" => pc[p] = "cleanup"
    BY MoveRuns, RunFields DEF RunKnown, VerdictInv
  <1>1. Made(p)' = Made(p) /\ Promised(p)' = Promised(p)
    BY <1>0 DEF Made, Promised
  <1>2. target' = target => ContentOf(target)' = ContentOf(target)
    BY NamedIsStable DEF ContentOf
  <1>3. CASE Load(p) \/ Fill(p) \/ Check1(p) \/ ImportEcb(p) \/ Check2(p)
    <2>1. ContentOf(target) = origin[p] /\ target' = target
      BY <1>3 DEF Load, Fill, Check1, ImportEcb, Check2, Seen, Building, files
    <2>2. pc'[p] \in Building \union {"backup", "outUnlink", "cleanup"}
      BY <1>3 DEF Load, Fill, Check1, ImportEcb, Check2, Goto, GotoIf, Building
    <2>3. outcome'[p] = "ok" => run[p].opt.dry
      BY <1>0, <1>3 DEF Load, Fill, Check1, ImportEcb, Check2, GotoIf
    <2>4. (ContentOf(target))' = origin'[p]
      BY <1>0, <1>2, <2>1
    <2>5. outcome'[p] = "ok" => (ContentOf(target))' = Promised(p)'
      BY <1>0, <1>1, <2>3, <2>4 DEF Promised
    <2>6. QED
      BY <2>2, <2>4, <2>5 DEF Seen, Building
  <1>4. CASE BackUp(p)
    BY <1>4 DEF BackUp, Goto, Seen, Building
  <1>5. CASE Install(p)
    <2>1. TempOf(p) # None /\ data[TempOf(p)] = Made(p)
      BY <1>5 DEF Install, Built
    <2>2. target' = TempOf(p) /\ data' = data /\ pc'[p] = "verify"
      BY <1>5, <2>1 DEF Install, Goto
    <2>3. target' # None /\ data'[target'] = Made(p)'
      BY <1>1, <2>1, <2>2
    <2>4. QED
      BY <2>2, <2>3 DEF Seen, Building
  <1>6. CASE Verify(p)
    <2>1. target # None /\ data[target] = Made(p)
      BY <1>6 DEF Verify, Seen
    <2>2. target' = target /\ pc'[p] \in {"drop", "outUnlink"}
      BY <1>6, <2>1 DEF Verify, Goto, GotoIf
    <2>3. target' # None /\ data'[target'] = Made(p)'
      BY <1>1, <2>1, <2>2, NamedIsStable
    <2>4. QED
      BY <2>2, <2>3 DEF Seen, Building
  <1>7. CASE DropBackup(p)
    <2>1. target # None /\ data[target] = Promised(p)
      BY <1>7 DEF DropBackup, Seen, Built, Swapping, Made, Promised
    <2>2. target' = target /\ data' = data /\ pc'[p] = "cleanup" /\ outcome'[p] = "ok"
      BY <1>7 DEF DropBackup, Goto
    <2>3. (ContentOf(target))' = Promised(p)'
      BY <1>1, <2>1, <2>2 DEF ContentOf
    <2>4. QED
      BY <2>2, <2>3 DEF Seen, Building
  <1>8. CASE Restore(p)
    <2>1. outcome'[p] = outcome[p] /\ outcome[p] # "ok" /\ data' = data
      BY <1>0, <1>8 DEF Restore, RestoreUnlink, RestoreMove
    <2>2. ~Settled(p)
      BY <1>0, <1>8, <2>1 DEF Settled
    <2>3. CASE RestoreUnlink(p, "inUnlink", "inMove", "outUnlink")
      <3>1. pc'[p] \in {"inMove", "outUnlink"} /\ target' = None
        BY <2>3 DEF RestoreUnlink, Goto, Seen
      <3>2. QED
        BY <3>1 DEF Seen, Building
    <2>4. CASE RestoreUnlink(p, "outUnlink", "outMove", "cleanup")
      <3>1. CASE BackupOf(p) = None
        <4>1. pc'[p] = "cleanup" /\ target' = target
          BY <2>4, <3>1 DEF RestoreUnlink, Goto
        <4>2. origin[p] # None => ContentOf(target) = origin[p]
          BY <2>2, <2>4, <3>1
             DEF RestoreUnlink, KeptInv, WhereKept, Kept, ContentOf
        <4>3. QED
          BY <1>0, <1>2, <2>1, <4>1, <4>2 DEF Seen, Building
      <3>2. CASE BackupOf(p) # None
        BY <2>4, <3>2 DEF RestoreUnlink, Goto, Seen, Building
      <3>3. QED
        BY <3>1, <3>2
    <2>5. CASE RestoreMove(p, "inMove", "outUnlink")
      BY <2>5 DEF RestoreMove, Goto, Seen, Building
    <2>6. CASE RestoreMove(p, "outMove", "cleanup")
      <3>1. origin[p] # None => Kept(BackupOf(p), p)
        BY <2>2, <2>6 DEF RestoreMove, KeptInv, WhereKept
      <3>2. /\ pc'[p] = "cleanup"
            /\ target' = IF BackupOf(p) = None THEN target ELSE BackupOf(p)
        BY <2>6 DEF RestoreMove, Goto
      <3>3. origin[p] # None => ContentOf(target)' = origin'[p]
        BY <1>0, <2>1, <3>1, <3>2 DEF Kept, ContentOf
      <3>4. QED
        BY <1>0, <2>1, <3>2, <3>3 DEF Seen, Building
    <2>7. QED
      BY <1>8, <2>3, <2>4, <2>5, <2>6 DEF Restore
  <1>9. CASE Cleanup(p)
    <2>1. pc[p] = "cleanup" /\ pc'[p] = "idle" /\ target' = target /\ outcome' = outcome
      BY <1>9 DEF Cleanup, Goto
    <2>2. QED
      BY <1>0, <1>1, <1>2, <2>1 DEF Seen, Building
  <1>10. CASE Raise(p)
    <2>1. /\ target' = target
          /\ outcome'[p] # "ok"
          /\ pc'[p] \in {"inUnlink", "outUnlink", "cleanup", "idle"}
          /\ pc'[p] = "inUnlink" => pc[p] = "install"
      BY <1>10 DEF Raise, files, Ended, Goto, Handlers
    <2>2. ASSUME pc'[p] \in {"cleanup", "idle"}, outcome'[p] = "failed",
                 origin[p] # None
          PROVE  ContentOf(target) = origin[p]
      <3>1. pc[p] \in {"load", "fill", "cleanup"}
        BY <1>10, <2>2 DEF Raise, Goto, Handlers, Ended
      <3>2. pc[p] = "cleanup" => outcome[p] = "failed"
        BY <1>10, <2>2 DEF Raise, Ended
      <3>3. QED
        BY <2>2, <3>1, <3>2 DEF Seen, Building
    <2>3. pc'[p] = "inUnlink" => target' = None
      BY <2>1 DEF Seen
    <2>4. QED
      BY <1>0, <1>2, <2>1, <2>2, <2>3 DEF Seen, Building
  <1>11. CASE Interrupt(p) \/ Crash(p)
    <2>1. outcome'[p] \notin {"ok", "failed"} /\ pc'[p] \in {"cleanup", "idle"}
      BY <1>11 DEF Interrupt, Crash, Ended, Goto
    <2>2. QED
      BY <2>1 DEF Seen, Building
  <1>12. QED
    BY <1>3, <1>4, <1>5, <1>6, <1>7, <1>8, <1>9, <1>10, <1>11 DEF Move, Advance

LEMMA StepSoloInv ==
  ASSUME Alone, ~SameSecond, SoloInv, [Next]_vars
  PROVE  SoloInv'
  <1>1. OwnInv' /\ KeptInv'
    BY StepOwnInv, StepKeptInv DEF SoloInv
  <1>2. ASSUME NEW p \in Updater, Move(p) PROVE SoloInv'
    <2>1. \A q \in Updater : q = p
      BY DEF Alone
    <2>2. ActiveIsWhole' /\ BackupsWhole' /\ Seen(p)'
      BY <1>2, MoveWhole, MoveSeen
    <2>3. QED
      BY <1>1, <2>1, <2>2 DEF SoloInv
  <1>3. ASSUME NEW p \in Updater, Begin(p) PROVE SoloInv'
    <2>1. \A q \in Updater : q = p
      BY DEF Alone
    <2>2. pc'[p] = "load" /\ origin'[p] = ContentOf(target) /\ UNCHANGED files
      BY <1>3, BeginOwn DEF SoloInv, OwnInv
    <2>3. ActiveIsWhole' /\ BackupsWhole'
      BY <2>2 DEF SoloInv, files, ActiveIsWhole, BackupsWhole
    <2>4. (ContentOf(target))' = ContentOf(target)
      BY <2>2 DEF files, ContentOf
    <2>5. Seen(p)'
      BY <2>2, <2>4 DEF Seen, Building
    <2>6. QED
      BY <1>1, <2>1, <2>3, <2>5 DEF SoloInv
  <1>4. CASE UNCHANGED vars
    BY <1>1, <1>4 DEF vars, SoloInv, ActiveIsWhole, BackupsWhole, Seen, Made,
                      Promised, ContentOf
  <1>5. QED
    BY <1>2, <1>3, <1>4 DEF Next, Rest, Move

\* With one updater at a time, the file under the target's name is at every
\* moment a complete database built from a valid source, for every number of
\* runs and of faults of every kind.
THEOREM TargetIsWhole ==
  ASSUME Alone, ~SameSecond
  PROVE  Spec => []ActiveIsWhole
  <1>1. SoloInv /\ [Next]_vars => SoloInv'
    BY StepSoloInv
  <1>2. SoloInv => ActiveIsWhole
    BY DEF SoloInv
  <1>3. QED
    BY <1>1, <1>2, InitSoloInv, PTL DEF Spec

\* With one updater at a time, what a run of an existing target tells its caller
\* is true: after success the target is what was asked for, after failure what
\* was there before.
THEOREM ReturnsAreTruthful ==
  ASSUME Alone, ~SameSecond
  PROVE  Spec => []ReturnIsTruthful
  <1>1. SoloInv /\ [Next]_vars => SoloInv'
    BY StepSoloInv
  <1>2. SoloInv => ReturnIsTruthful
    BY DEF SoloInv, Seen, ReturnIsTruthful
  <1>3. QED
    BY <1>1, <1>2, InitSoloInv, PTL DEF Spec

-----------------------------------------------------------------------------
(***************************************************************************)
(* Two runs that overlap.  They can take each other's database away, but   *)
(* one complete database is left, and once both have returned it is the    *)
(* target.                                                                 *)
(***************************************************************************)
Early == Building \union {"backup"}

TargetWhole == target # None /\ data[target] \in Whole

\* Nobody has seen a target, or can have created one by looking at it.
Untouched ==
  target = None /\ \A p \in Updater : origin[p] = None /\ pc[p] # "verify"

\* k has a backup that it is going to put back, or will never put back because
\* it was cut short.
Fixing(k) ==
  /\ run[k] # None
  /\ BackupOf(k) # None
  /\ \/ pc[k] \in {"install", "inUnlink", "inMove", "outUnlink", "outMove"}
     \/ /\ pc[k] \in {"cleanup", "idle"}
        /\ outcome[k] \in {"late", "unrestored", "interrupted", "crashed"}

\* A target that is not complete is the empty file of a validation that found
\* none, and comes when it is too late for anybody to take it for a database.
LateJunk ==
  /\ (target # None /\ ~TargetWhole) =>
       /\ data[target] = {}
       /\ clock = 2
       /\ \A p \in Updater : pc[p] \notin Early
  /\ \A p \in Updater : (pc[p] = "verify" /\ target = None) =>
       clock = 2 /\ \A q \in Updater : pc[q] \notin Early

\* A run that is about to delete its backup leaves another complete database.
DropIsSafe ==
  /\ \A p \in Updater : (pc[p] = "drop" /\ ~TargetWhole) =>
       \E t \in Second : t # run[p].stamp /\ backup[t] # None
  /\ \A p, q \in Updater :
       (p # q /\ pc[p] = "drop" /\ pc[q] = "drop") => TargetWhole

\* There is a complete database if there ever was one.
OneLeft ==
  (\E p \in Updater : origin[p] # None) =>
     TargetWhole \/ \E t \in Second : backup[t] # None

\* While the target is not complete, somebody still has to put one back.
SomeoneFixes == TargetWhole \/ Untouched \/ \E k \in Updater : Fixing(k)

PairInv == BackupsWhole /\ LateJunk /\ DropIsSafe /\ OneLeft /\ SomeoneFixes
RaceInv == OwnInv /\ (TwoRuns => PairInv)

LEMMA InitRaceInv == Init => RaceInv
  <1> SUFFICES ASSUME Init PROVE RaceInv
    OBVIOUS
  <1>1. OwnInv
    BY InitOwnInv
  <1>2. target # None => TargetWhole
    BY DEF Init, TargetWhole
  <1>3. LateJunk
    BY <1>2 DEF Init, LateJunk
  <1>4. SomeoneFixes
    BY <1>2 DEF Init, SomeoneFixes, Untouched
  <1>5. BackupsWhole /\ DropIsSafe /\ OneLeft
    BY DEF Init, BackupsWhole, DropIsSafe, OneLeft
  <1>6. QED
    BY <1>1, <1>3, <1>4, <1>5 DEF RaceInv, PairInv

\* With two runs, two processes that run are all that do.
LEMMA NoThird ==
  ASSUME FileInv, TwoRuns, NEW p \in Updater, NEW q \in Updater, p # q,
         pc[p] # "idle", pc[q] # "idle"
  PROVE  clock = 2 /\ \A r \in Updater : r = p \/ r = q \/ pc[r] = "idle"
  <1> DEFINE st(r) == run[r].stamp
  <1>1. clock \in Nat /\ clock <= 2 /\ \A t \in Second : t \in Nat /\ t >= 1
    BY BoundAssumption DEF FileInv, TypeInv, TypeOK, Second, TwoRuns
  <1>2. \A r \in Updater : pc[r] # "idle" =>
          run[r] # None /\ st(r) \in Second /\ st(r) <= clock
    BY RunFields DEF FileInv, TypeInv, RunKnown, StampsDiffer
  <1>3. \A r, s \in Updater : r # s /\ pc[r] # "idle" /\ pc[s] # "idle" =>
          st(r) # st(s)
    BY <1>2 DEF FileInv, StampsDiffer
  <1>4. \A r \in Updater : pc[r] # "idle" => st(r) \in {1, 2}
    BY <1>1, <1>2
  <1>5. clock = 2
    BY <1>1, <1>2, <1>3, <1>4
  <1>6. ASSUME NEW r \in Updater, r # p, r # q, pc[r] # "idle" PROVE FALSE
    <2>1. st(p) \in {1, 2} /\ st(q) \in {1, 2} /\ st(r) \in {1, 2}
      BY <1>4, <1>6
    <2>2. st(p) # st(q) /\ st(p) # st(r) /\ st(q) # st(r)
      BY <1>3, <1>6
    <2>3. QED
      BY <2>1, <2>2
  <1>7. QED
    BY <1>5, <1>6

\* The ways in which a step of p may change what the target and the backups are.
Leaves(p) ==
  /\ UNCHANGED <<target, backup>>
  /\ target # None => data'[target] = data[target]
  /\ Fixing(p) => Fixing(p)'
Takes(p) ==
  /\ pc[p] = "backup" /\ pc'[p] = "install"
  /\ TargetWhole
  /\ target' = None
  /\ backup' = [backup EXCEPT ![run[p].stamp] = target]
Puts(p) ==
  /\ TargetWhole'
  /\ pc'[p] # "drop"
Invents(p) ==
  /\ pc[p] = "verify" /\ pc'[p] = "outUnlink"
  /\ target = None
  /\ target' # None /\ data'[target'] = {}
  /\ backup' = backup
Forgets(p) ==
  /\ pc[p] = "drop" /\ pc'[p] = "cleanup"
  /\ target' = target /\ data' = data
  /\ backup' = [backup EXCEPT ![run[p].stamp] = None]
Unlinks(p) ==
  /\ pc[p] \in {"inUnlink", "outUnlink"} /\ pc'[p] \in {"inMove", "outMove"}
  /\ BackupOf(p) # None
  /\ target' = None
  /\ backup' = backup

LEMMA Effect ==
  ASSUME ~SameSecond, OwnInv, BackupsWhole, LateJunk, NEW p \in Updater, Move(p)
  PROVE  /\ pc'[p] \in Early => pc[p] \in Early
         /\ pc'[p] \in {"verify", "drop"} => TargetWhole'
         /\ BackupsWhole'
         /\ \/ Leaves(p) \/ Takes(p) \/ Puts(p)
            \/ Invents(p) \/ Forgets(p) \/ Unlinks(p)
  <1> USE NoneAssumption DEF OwnInv, FileInv, TypeInv, TypeOK
  <1>0. /\ pc[p] # "idle" /\ run[p] # None /\ run[p].stamp \in Second
        /\ run' = run /\ origin' = origin
    BY MoveRuns, RunFields DEF RunKnown
  <1>1. /\ target # None => data'[target] = data[target]
        /\ \A t \in Second : backup[t] # None =>
             data'[backup[t]] = data[backup[t]] /\ data[backup[t]] \in Whole
    BY NamedIsStable DEF BackupsWhole
  <1>2. backup' = backup \/ backup' = [backup EXCEPT ![run[p].stamp] = None]
          => BackupsWhole'
    BY <1>0, <1>1 DEF BackupsWhole
  <1>3. CASE Load(p) \/ Fill(p) \/ Check1(p) \/ ImportEcb(p) \/ Check2(p)
    <2>1. /\ UNCHANGED <<target, backup>>
          /\ pc[p] \in Early
          /\ pc'[p] \notin {"verify", "drop"}
      BY <1>3 DEF Load, Fill, Check1, ImportEcb, Check2, Goto, GotoIf, files,
                  Early, Building
    <2>2. ~Fixing(p)
      BY <2>1 DEF Fixing, Early, Building
    <2>3. QED
      BY <1>1, <1>2, <2>1, <2>2 DEF Leaves
  <1>4. CASE BackUp(p)
    <2>1. pc[p] = "backup" /\ pc'[p] = "install" /\ data' = data /\ target' = None
      BY <1>4 DEF BackUp, Goto
    <2>2. CASE target = None
      <3>1. UNCHANGED <<target, backup>>
        BY <1>4, <2>1, <2>2 DEF BackUp
      <3>2. ~Fixing(p)
        BY <2>1 DEF Fixing
      <3>3. QED
        BY <1>1, <1>2, <2>1, <3>1, <3>2 DEF Leaves, Early, Building
    <2>3. CASE target # None
      <3>1. TargetWhole
        BY <2>1, <2>3 DEF LateJunk, Early
      <3>2. backup' = [backup EXCEPT ![run[p].stamp] = target]
        BY <1>4, <2>3 DEF BackUp
      <3>3. BackupsWhole'
        BY <1>0, <1>1, <2>1, <3>1, <3>2 DEF BackupsWhole, TargetWhole
      <3>4. QED
        BY <2>1, <3>1, <3>2, <3>3 DEF Takes, Early, Building
    <2>4. QED
      BY <2>2, <2>3
  <1>5. CASE Install(p)
    <2>1. TempOf(p) # None /\ data[TempOf(p)] \in Whole
      BY <1>5, MadeIsWhole DEF Install, Built, Swapping
    <2>2. /\ target' = TempOf(p) /\ UNCHANGED <<backup, data>>
          /\ pc'[p] = "verify"
      BY <1>5, <2>1 DEF Install, Goto
    <2>3. QED
      BY <1>2, <2>1, <2>2 DEF TargetWhole, Puts, Early, Building
  <1>6. CASE Verify(p)
    <2>1. /\ pc[p] = "verify" /\ backup' = backup
          /\ pc'[p] \in {"drop", "outUnlink"}
          /\ pc'[p] = "drop" => /\ target # None
                               /\ Accepts(p, data[target], ~run[p].opt.ecb)
      BY <1>6 DEF Verify, GotoIf, Goto
    <2>2. PICK f \in IF target = None THEN Inode \ InUse ELSE {target} :
            /\ target' = f
            /\ data' = [data EXCEPT ![f] = IF target = None THEN {} ELSE @]
      BY <1>6 DEF Verify
    <2>3. CASE target = None
      BY <1>2, <2>1, <2>2, <2>3 DEF Invents, Early, Building
    <2>4. CASE target # None
      <3>1. target' = target
        BY <2>2, <2>4
      <3>2. ASSUME pc'[p] = "drop" PROVE TargetWhole
        <4>1. Csv(run[p].src) \in data[target]
          BY <2>1, <3>2 DEF Accepts
        <4>2. data[target] # {}
          BY <4>1
        <4>3. QED
          BY <2>4, <4>2 DEF LateJunk
      <3>3. TargetWhole => TargetWhole'
        BY <1>1, <3>1 DEF TargetWhole
      <3>4. ~Fixing(p)
        BY <2>1 DEF Fixing
      <3>5. QED
        BY <1>1, <1>2, <2>1, <3>1, <3>2, <3>3, <3>4 DEF Leaves, Early, Building
    <2>5. QED
      BY <2>3, <2>4
  <1>7. CASE DropBackup(p)
    BY <1>2, <1>7 DEF DropBackup, Goto, Forgets, Early, Building
  <1>8. CASE Restore(p)
    <2>1. /\ data' = data /\ outcome' = outcome
          /\ pc[p] \in Restoring
          /\ pc'[p] \in Restoring \union {"cleanup"}
      BY <1>8 DEF Restore, RestoreUnlink, RestoreMove, Goto, Restoring
    <2>2. backup' = backup \/ backup' = [backup EXCEPT ![run[p].stamp] = None]
      BY <1>8 DEF Restore, RestoreUnlink, RestoreMove
    <2>3. CASE BackupOf(p) = None
      <3>1. UNCHANGED <<target, backup>>
        BY <1>0, <1>8, <2>3
           DEF Restore, RestoreUnlink, RestoreMove, BackupOf
      <3>2. ~Fixing(p)
        BY <2>3 DEF Fixing
      <3>3. QED
        BY <1>1, <1>2, <2>1, <2>2, <3>1, <3>2
           DEF Leaves, Restoring, Early, Building
    <2>4. CASE BackupOf(p) # None
      <3>1. CASE \/ RestoreUnlink(p, "inUnlink", "inMove", "outUnlink")
                 \/ RestoreUnlink(p, "outUnlink", "outMove", "cleanup")
        <4>1. Unlinks(p)
          BY <2>4, <3>1 DEF RestoreUnlink, Goto, Unlinks
        <4>2. QED
          BY <1>2, <2>1, <2>2, <4>1 DEF Restoring, Early, Building
      <3>2. CASE \/ RestoreMove(p, "inMove", "outUnlink")
                 \/ RestoreMove(p, "outMove", "cleanup")
        <4>1. target' = BackupOf(p)
          BY <2>4, <3>2 DEF RestoreMove
        <4>2. TargetWhole'
          BY <1>0, <1>1, <2>1, <2>4, <4>1 DEF TargetWhole, BackupOf
        <4>3. QED
          BY <1>2, <2>1, <2>2, <4>2 DEF Puts, Restoring, Early, Building
      <3>3. QED
        BY <1>8, <3>1, <3>2 DEF Restore
    <2>5. QED
      BY <2>3, <2>4
  <1>9. CASE Cleanup(p)
    <2>1. /\ UNCHANGED <<target, backup, outcome>>
          /\ pc[p] = "cleanup" /\ pc'[p] = "idle"
      BY <1>9 DEF Cleanup, Goto
    <2>2. Fixing(p) => Fixing(p)'
      BY <1>0, <2>1 DEF Fixing, BackupOf
    <2>3. QED
      BY <1>1, <1>2, <2>1, <2>2 DEF Leaves, Early, Building
  <1>10. CASE Raise(p)
    <2>1. /\ UNCHANGED <<target, backup>>
          /\ pc'[p] \in Handlers(pc[p])
      BY <1>10 DEF Raise, files, Goto
    <2>2. pc'[p] \in {"cleanup", "outUnlink", "inUnlink", "idle"}
      BY <2>1 DEF Handlers
    <2>3. ASSUME Fixing(p) PROVE Fixing(p)'
      <3>1. BackupOf(p)' = BackupOf(p)
        BY <1>0, <2>1 DEF BackupOf
      <3>2. CASE pc[p] \in {"install", "inUnlink", "inMove"}
        <4>1. pc'[p] \in {"inUnlink", "outUnlink"}
          BY <2>1, <3>2 DEF Handlers
        <4>2. QED
          BY <1>0, <2>3, <3>1, <4>1 DEF Fixing
      <3>3. CASE pc[p] \in {"outUnlink", "outMove", "cleanup"}
        <4>1. pc'[p] \in {"cleanup", "idle"}
          BY <2>1, <3>3 DEF Handlers
        <4>2. \/ outcome'[p] \in {"late", "unrestored"}
              \/ outcome'[p] = outcome[p] /\ pc[p] = "cleanup"
          BY <1>10, <3>3 DEF Raise, Ended
        <4>3. QED
          BY <1>0, <2>3, <3>1, <4>1, <4>2 DEF Fixing
      <3>4. QED
        BY <1>0, <2>3, <3>2, <3>3 DEF Fixing
    <2>4. QED
      BY <1>1, <1>2, <2>1, <2>2, <2>3 DEF Leaves, Early, Building
  <1>11. CASE Interrupt(p) \/ Crash(p)
    <2>1. /\ UNCHANGED <<target, backup>>
          /\ pc'[p] \in {"cleanup", "idle"}
          /\ outcome'[p] \in {"late", "interrupted", "crashed"}
      BY <1>11 DEF Interrupt, Crash, files, Goto, Ended
    <2>2. Fixing(p) => Fixing(p)'
      BY <1>0, <2>1 DEF Fixing, BackupOf
    <2>3. QED
      BY <1>1, <1>2, <2>1, <2>2 DEF Leaves, Early, Building
  <1>12. QED
    BY <1>3, <1>4, <1>5, <1>6, <1>7, <1>8, <1>9, <1>10, <1>11 DEF Move, Advance

\* A step of p when all is well before it.
LEMMA MovePair ==
  ASSUME ~SameSecond, OwnInv, TwoRuns, PairInv, NEW p \in Updater, Move(p)
  PROVE  PairInv'
  <1> USE NoneAssumption DEF OwnInv, FileInv, TypeInv, TypeOK
  <1>0. /\ pc[p] # "idle" /\ run[p] # None /\ run[p].stamp \in Second
        /\ run' = run /\ origin' = origin /\ clock' = clock
    BY MoveRuns, RunFields DEF RunKnown
  <1>1. /\ pc'[p] \in Early => pc[p] \in Early
        /\ pc'[p] \in {"verify", "drop"} => TargetWhole'
        /\ BackupsWhole'
        /\ \/ Leaves(p) \/ Takes(p) \/ Puts(p)
           \/ Invents(p) \/ Forgets(p) \/ Unlinks(p)
    BY Effect DEF PairInv
  <1>2. \A q \in Updater : q # p => pc'[q] = pc[q]
    BY Elsewhere
  <1>3. \A q \in Updater : q # p /\ Fixing(q) => Fixing(q)'
    BY <1>0, Elsewhere DEF Fixing
  <1>4. \A q \in Updater : pc'[q] \in Early => pc[q] \in Early
    BY <1>1, <1>2
  <1>5. \A q \in Updater : q # p /\ pc[q] # "idle" =>
          clock = 2 /\ \A r \in Updater : r = p \/ r = q \/ pc[r] = "idle"
    BY <1>0, NoThird
  <1>6. target # None /\ target' = target /\ data'[target] = data[target] =>
          (TargetWhole' <=> TargetWhole)
    BY DEF TargetWhole
  <1>7. LateJunk'
    <2>1. ASSUME target' # None, ~TargetWhole'
          PROVE  /\ data'[target'] = {}
                 /\ clock' = 2
                 /\ \A q \in Updater : pc'[q] \notin Early
      <3>1. CASE Leaves(p) \/ Forgets(p)
        <4>1. target' = target /\ data'[target] = data[target]
          BY <2>1, <3>1 DEF Leaves, Forgets
        <4>2. QED
          BY <1>0, <1>4, <1>6, <2>1, <4>1 DEF PairInv, LateJunk
      <3>2. CASE Invents(p)
        BY <1>0, <1>4, <3>2 DEF Invents, PairInv, LateJunk
      <3>3. CASE Takes(p) \/ Puts(p) \/ Unlinks(p)
        BY <2>1, <3>3 DEF Takes, Puts, Unlinks
      <3>4. QED
        BY <1>1, <3>1, <3>2, <3>3
    <2>2. ASSUME NEW q \in Updater, pc'[q] = "verify", target' = None
          PROVE  clock' = 2 /\ \A r \in Updater : pc'[r] \notin Early
      <3>1. q # p /\ pc[q] = "verify"
        BY <1>1, <1>2, <2>2 DEF TargetWhole
      <3>2. CASE Takes(p) \/ Unlinks(p)
        <4>1. pc'[p] \notin Early
          BY <3>2 DEF Takes, Unlinks, Early, Building
        <4>2. \A r \in Updater : r # p /\ r # q => pc[r] \notin Early
          BY <1>5, <3>1 DEF Early, Building
        <4>3. QED
          BY <1>0, <1>2, <1>5, <2>2, <3>1, <4>1, <4>2 DEF Early, Building
      <3>3. CASE Leaves(p) \/ Forgets(p)
        BY <1>0, <1>4, <2>2, <3>1, <3>3 DEF Leaves, Forgets, PairInv, LateJunk
      <3>4. CASE Puts(p) \/ Invents(p)
        BY <2>2, <3>4 DEF Puts, Invents, TargetWhole
      <3>5. QED
        BY <1>1, <3>2, <3>3, <3>4
    <2>3. QED
      BY <2>1, <2>2 DEF LateJunk
  <1>8. DropIsSafe'
    <2>1. ASSUME NEW q \in Updater, pc'[q] = "drop", ~TargetWhole'
          PROVE  \E t \in Second : t # run[q].stamp /\ backup'[t] # None
      <3>1. q # p /\ pc[q] = "drop"
        BY <1>1, <1>2, <2>1
      <3>2. run[q].stamp # run[p].stamp
        BY <1>0, <3>1 DEF RunKnown, StampsDiffer
      <3>3. ~TargetWhole => \E t \in Second : t # run[q].stamp /\ backup[t] # None
        BY <3>1 DEF PairInv, DropIsSafe
      <3>4. CASE Takes(p)
        <4>1. backup'[run[p].stamp] # None
          BY <1>0, <3>4 DEF Takes, TargetWhole
        <4>2. QED
          BY <1>0, <3>2, <4>1
      <3>5. CASE Unlinks(p)
        BY <1>0, <3>2, <3>5 DEF Unlinks, BackupOf
      <3>6. CASE Leaves(p)
        BY <1>6, <2>1, <3>3, <3>6 DEF Leaves, TargetWhole
      <3>7. CASE Invents(p)
        BY <3>3, <3>7 DEF Invents, TargetWhole
      <3>8. CASE Forgets(p)
        <4>1. TargetWhole
          BY <3>1, <3>8 DEF Forgets, PairInv, DropIsSafe
        <4>2. QED
          BY <2>1, <3>8, <4>1 DEF Forgets, TargetWhole
      <3>9. CASE Puts(p)
        BY <2>1, <3>9 DEF Puts
      <3>10. QED
        BY <1>1, <3>4, <3>5, <3>6, <3>7, <3>8, <3>9
    <2>2. ASSUME NEW q \in Updater, NEW r \in Updater, q # r,
                 pc'[q] = "drop", pc'[r] = "drop"
          PROVE  TargetWhole'
      <3>1. CASE q = p \/ r = p
        BY <1>1, <2>2, <3>1
      <3>2. CASE q # p /\ r # p
        <4>1. pc[q] = "drop" /\ pc[r] = "drop"
          BY <1>2, <2>2, <3>2
        <4>2. FALSE
          BY <1>5, <2>2, <3>2, <4>1
        <4>3. QED
          BY <4>2
      <3>3. QED
        BY <3>1, <3>2
    <2>3. QED
      BY <1>0, <2>1, <2>2 DEF DropIsSafe
  <1>9. OneLeft'
    <2> SUFFICES ASSUME \E q \in Updater : origin[q] # None, ~TargetWhole'
                 PROVE  \E t \in Second : backup'[t] # None
      BY <1>0 DEF OneLeft
    <2>1. TargetWhole \/ \E t \in Second : backup[t] # None
      BY DEF PairInv, OneLeft
    <2>2. CASE Leaves(p)
      BY <1>6, <2>1, <2>2 DEF Leaves, TargetWhole
    <2>3. CASE Takes(p)
      <3>1. backup'[run[p].stamp] # None
        BY <1>0, <2>3 DEF Takes, TargetWhole
      <3>2. QED
        BY <1>0, <3>1
    <2>4. CASE Invents(p)
      BY <2>1, <2>4 DEF Invents, TargetWhole
    <2>5. CASE Forgets(p)
      <3>1. ~TargetWhole
        BY <2>5 DEF Forgets, TargetWhole
      <3>2. PICK t \in Second : t # run[p].stamp /\ backup[t] # None
        BY <2>5, <3>1 DEF Forgets, PairInv, DropIsSafe
      <3>3. QED
        BY <2>5, <3>2 DEF Forgets
    <2>6. CASE Unlinks(p)
      BY <1>0, <2>6 DEF Unlinks, BackupOf
    <2>7. CASE Puts(p)
      BY <2>7 DEF Puts
    <2>8. QED
      BY <1>1, <2>2, <2>3, <2>4, <2>5, <2>6, <2>7
  <1>10. SomeoneFixes'
    <2> SUFFICES ASSUME ~TargetWhole' PROVE Untouched' \/ \E k \in Updater : Fixing(k)'
      BY DEF SomeoneFixes
    <2>0. pc'[p] # "verify"
      BY <1>1
    <2>1. TargetWhole \/ Untouched \/ \E k \in Updater : Fixing(k)
      BY DEF PairInv, SomeoneFixes
    <2>2. ASSUME Untouched, target' = target PROVE Untouched'
      BY <1>0, <1>2, <2>0, <2>2 DEF Untouched
    <2>3. CASE Leaves(p)
      <3>1. ~TargetWhole
        BY <2>3 DEF Leaves, TargetWhole
      <3>2. \A k \in Updater : Fixing(k) => Fixing(k)'
        BY <1>3, <2>3 DEF Leaves
      <3>3. QED
        BY <2>1, <2>2, <2>3, <3>1, <3>2 DEF Leaves
    <2>4. CASE Takes(p)
      <3>1. backup'[run[p].stamp] # None
        BY <1>0, <2>4 DEF Takes, TargetWhole
      <3>2. Fixing(p)'
        BY <1>0, <2>4, <3>1 DEF Takes, Fixing, BackupOf
      <3>3. QED
        BY <3>2
    <2>5. CASE Invents(p) \/ Forgets(p)
      <3>1. ~TargetWhole /\ ~Fixing(p)
        BY <2>5 DEF Invents, Forgets, TargetWhole, Fixing
      <3>2. Untouched => Forgets(p)
        BY <2>5 DEF Untouched, Invents
      <3>3. QED
        BY <1>3, <2>1, <2>2, <3>1, <3>2 DEF Forgets
    <2>6. CASE Unlinks(p)
      <3>1. Fixing(p)'
        BY <1>0, <2>6 DEF Unlinks, Fixing, BackupOf
      <3>2. QED
        BY <3>1
    <2>7. CASE Puts(p)
      BY <2>7 DEF Puts
    <2>8. QED
      BY <1>1, <2>3, <2>4, <2>5, <2>6, <2>7
  <1>11. QED
    BY <1>1, <1>7, <1>8, <1>9, <1>10 DEF PairInv

\* The beginning of the second run at the latest, so that what there is under
\* the target's name is still complete.
LEMMA BeginPair ==
  ASSUME ~SameSecond, OwnInv, TwoRuns', TwoRuns => PairInv,
         NEW p \in Updater, Begin(p)
  PROVE  PairInv'
  <1> USE NoneAssumption DEF OwnInv, FileInv, TypeInv, TypeOK
  <1>1. /\ pc[p] = "idle"
        /\ pc'[p] = "load"
        /\ origin'[p] = ContentOf(target)
        /\ clock' = clock + 1
        /\ UNCHANGED files
        /\ run'[p].stamp = clock + 1
    BY BeginOwn DEF Begin
  <1>2. clock \in Nat /\ clock <= 1
    BY <1>1, BoundAssumption DEF TwoRuns
  <1>3. PairInv
    BY <1>2 DEF TwoRuns
  <1>4. target # None => TargetWhole
    BY <1>2, <1>3 DEF PairInv, LateJunk
  <1>5. \A q \in Updater : pc[q] = "verify" => target # None
    BY <1>2, <1>3 DEF PairInv, LateJunk
  <1>6. \A q \in Updater : q # p =>
          pc'[q] = pc[q] /\ run'[q] = run[q] /\ origin'[q] = origin[q]
    BY Elsewhere
  <1>7. TargetWhole' <=> TargetWhole
    BY <1>1 DEF TargetWhole, files
  <1>8. BackupsWhole'
    BY <1>1, <1>3 DEF PairInv, BackupsWhole, files
  <1>9. LateJunk'
    BY <1>1, <1>4, <1>5, <1>6, <1>7 DEF LateJunk, files
  <1>10. DropIsSafe'
    BY <1>1, <1>3, <1>6, <1>7 DEF PairInv, DropIsSafe, files
  <1>11. OneLeft'
    BY <1>1, <1>3, <1>4, <1>6, <1>7 DEF PairInv, OneLeft, files, ContentOf
  <1>12. SomeoneFixes'
    <2> SUFFICES ASSUME target = None PROVE Untouched' \/ \E k \in Updater : Fixing(k)'
      BY <1>4, <1>7 DEF SomeoneFixes
    <2>1. origin'[p] = None /\ target' = None
      BY <1>1 DEF ContentOf, files
    <2>2. CASE Untouched
      BY <1>1, <1>6, <2>1, <2>2 DEF Untouched
    <2>3. ASSUME NEW k \in Updater, Fixing(k), k # p PROVE Fixing(k)'
      <3>1. outcome'[k] = outcome[k] /\ BackupOf(k)' = BackupOf(k)
        BY <2>3, Elsewhere DEF Fixing
      <3>2. QED
        BY <1>6, <2>3, <3>1 DEF Fixing
    <2>4. CASE Fixing(p)
      <3>1. \A q \in Updater : q # p => run[q] = None
        <4> SUFFICES ASSUME NEW q \in Updater, q # p, run[q] # None PROVE FALSE
          OBVIOUS
        <4>1. /\ run[p].stamp \in Second /\ run[q].stamp \in Second
              /\ run[p].stamp <= clock /\ run[q].stamp <= clock
              /\ run[p].stamp # run[q].stamp
          BY <2>4 DEF Fixing, Run, StampsDiffer
        <4>2. QED
          BY <1>2, <4>1, BoundAssumption DEF Second
      <3>2. \A q \in Updater : q # p => origin[q] = None /\ pc[q] = "idle"
        BY <3>1 DEF RunKnown, VerdictInv
      <3>3. QED
        BY <1>1, <1>6, <2>1, <3>2 DEF Untouched
    <2>5. QED
      BY <1>3, <2>2, <2>3, <2>4 DEF PairInv, SomeoneFixes, TargetWhole
  <1>13. QED
    BY <1>8, <1>9, <1>10, <1>11, <1>12 DEF PairInv

LEMMA StepRaceInv ==
  ASSUME ~SameSecond, RaceInv, [Next]_vars
  PROVE  RaceInv'
  <1>1. OwnInv'
    BY StepOwnInv DEF RaceInv
  <1>2. ASSUME NEW p \in Updater, Move(p), TwoRuns' PROVE PairInv'
    <2>1. TwoRuns
      BY <1>2, MoveRuns DEF TwoRuns
    <2>2. QED
      BY <1>2, <2>1, MovePair DEF RaceInv
  <1>3. ASSUME NEW p \in Updater, Begin(p), TwoRuns' PROVE PairInv'
    BY <1>3, BeginPair DEF RaceInv
  <1>4. CASE UNCHANGED vars
    BY <1>1, <1>4
       DEF vars, RaceInv, TwoRuns, PairInv, BackupsWhole, LateJunk, DropIsSafe,
           OneLeft, SomeoneFixes, TargetWhole, Untouched, Fixing, BackupOf
  <1>5. QED
    BY <1>1, <1>2, <1>3, <1>4 DEF Next, Rest, Move, RaceInv

\* However many updaters there are, wherever a step fails and whoever dies: of
\* two runs that overlap, started in different seconds, a complete database is
\* left, under the target's name or a backup name.
THEOREM TwoRunsLoseNothing ==
  ASSUME ~SameSecond
  PROVE  Spec => []TwoRunsLeaveOne
  <1>1. RaceInv /\ [Next]_vars => RaceInv'
    BY StepRaceInv
  <1>2. RaceInv => TwoRunsLeaveOne
    BY DEF RaceInv, PairInv, OneLeft, BackupsWhole, TargetWhole,
           TwoRunsLeaveOne, DatabaseSurvives
  <1>3. QED
    BY <1>1, <1>2, InitRaceInv, PTL DEF Spec

\* And once every updater has returned to its caller, after two runs that
\* overlapped, the target is there, if ever it was, and complete.
THEOREM TwoRunsEndWhole ==
  ASSUME ~SameSecond
  PROVE  Spec => []QuietIsWhole
  <1>1. RaceInv /\ [Next]_vars => RaceInv'
    BY StepRaceInv
  <1>2. RaceInv => QuietIsWhole
    <2> SUFFICES ASSUME RaceInv, TwoRuns,
                        \A p \in Updater : pc[p] = "idle" /\ outcome[p] \in {"ok", "failed"}
                 PROVE  /\ (\E p \in Updater : origin[p] # None) => target # None
                        /\ ActiveIsWhole
      BY DEF QuietIsWhole
    <2>1. \A k \in Updater : ~Fixing(k)
      BY DEF Fixing
    <2>2. TargetWhole \/ Untouched
      BY <2>1 DEF RaceInv, PairInv, SomeoneFixes
    <2>3. QED
      BY <2>2 DEF TargetWhole, Untouched, ActiveIsWhole
  <1>3. QED
    BY <1>1, <1>2, InitRaceInv, PTL DEF Spec

-----------------------------------------------------------------------------
(***************************************************************************)
(* The refinement: with one updater at a time, what a reader sees who      *)
(* falls back on the newest backup while the target is missing is what     *)
(* ActiveDatabase allows.                                                  *)
(***************************************************************************)

\* A set of natural numbers has a least element.
LEMMA LeastOfNat ==
  ASSUME NEW T \in SUBSET Nat, T # {}
  PROVE  \E n \in T : \A m \in T : n <= m
  <1> DEFINE R == {ss \in Nat \X Nat : ss[1] < ss[2]}
  <1>1. IsWellFoundedOn(R, Nat)
    BY NatLessThanWellFounded DEF OpToRel
  <1>2. \A m, n \in Nat : m < n => <<m, n>> \in R
    OBVIOUS
  <1> HIDE DEF R
  <1>3. PICK n \in T : \A m \in T : ~(<<m, n>> \in R)
    BY <1>1, WFMin
  <1>4. ASSUME NEW m \in T PROVE n <= m
    <2>1. ~(m < n)
      BY <1>2, <1>3
    <2>2. QED
      BY <2>1
  <1>5. QED
    BY <1>4

\* A set of seconds has a latest one.
LEMMA LatestSecond ==
  ASSUME NEW T \in SUBSET Second, T # {}
  PROVE  \E t \in T : \A u \in T : u <= t
  <1> USE BoundAssumption DEF Second
  <1> DEFINE L == {MaxClock - t : t \in T}
  <1>0. \A t \in T : MaxClock - t \in Nat
    OBVIOUS
  <1>1. L \in SUBSET Nat /\ L # {}
    BY <1>0
  <1>2. PICK n \in L : \A m \in L : n <= m
    <2> HIDE DEF L
    <2>1. QED
      BY <1>1, LeastOfNat
  <1>3. PICK t \in T : n = MaxClock - t
    BY <1>2
  <1>4. \A u \in T : u <= t
    BY <1>2, <1>3
  <1>5. QED
    BY <1>4

\* Saved, as a function of what the backup names stand for and of the files.
NewestIn(b) == CHOOSE t \in Second : /\ b[t] # None
                                     /\ \A u \in Second : b[u] # None => u <= t
SavedIn(b, d) == IF \E t \in Second : b[t] # None THEN d[b[NewestIn(b)]] ELSE None

\* It is None without a backup, the content of the newest backup with one, and
\* depends on what the backups contain only.
LEMMA SavedIs ==
  ASSUME NEW b, NEW d
  PROVE  /\ (\A t \in Second : b[t] = None) => SavedIn(b, d) = None
         /\ \A s \in Second :
              (b[s] # None /\ \A u \in Second : b[u] # None => u <= s) =>
                 SavedIn(b, d) = d[b[s]]
         /\ \A e : (\A t \in Second : b[t] # None => e[b[t]] = d[b[t]]) =>
              SavedIn(b, e) = SavedIn(b, d)
  <1> DEFINE Last(t) == b[t] # None /\ \A u \in Second : b[u] # None => u <= t
  <1>2. (\E t \in Second : b[t] # None) => \E t \in Second : Last(t)
    <2> DEFINE T == {t \in Second : b[t] # None}
    <2>1. T # {} => \E t \in T : \A u \in T : u <= t
      BY LatestSecond
    <2>2. QED
      BY <2>1
  <1>3. (\E t \in Second : Last(t)) =>
          NewestIn(b) \in Second /\ Last(NewestIn(b))
    BY DEF NewestIn
  <1>4. ASSUME NEW s \in Second, Last(s) PROVE NewestIn(b) = s
    <2>1. NewestIn(b) \in Second /\ NewestIn(b) <= s /\ s <= NewestIn(b)
      BY <1>3, <1>4
    <2>2. QED
      BY <2>1, BoundAssumption DEF Second
  <1>5. (\A t \in Second : b[t] = None) => SavedIn(b, d) = None
    BY DEF SavedIn
  <1>6. \A s \in Second : Last(s) => SavedIn(b, d) = d[b[s]]
    BY <1>4 DEF SavedIn
  <1>7. ASSUME NEW e, \A t \in Second : b[t] # None => e[b[t]] = d[b[t]]
        PROVE  SavedIn(b, e) = SavedIn(b, d)
    BY <1>2, <1>3, <1>7 DEF SavedIn
  <1>8. QED
    BY <1>5, <1>6, <1>7

\* The one process whose run can be on trial.
Trying(p) ==
  \/ pc[p] \in {"verify", "drop"}
  \/ pc[p] = "outUnlink" /\ BackupOf(p) # None /\ target # None

\* The latest run is the one that goes on.
Latest == \A p \in Updater : run[p] # None => run[p].stamp = clock

Active == IF target # None THEN data[target] ELSE SavedIn(backup, data)

PromiseInv == SoloInv /\ Latest

LEMMA StepPromiseInv ==
  ASSUME Alone, ~SameSecond, PromiseInv, [Next]_vars
  PROVE  PromiseInv'
  <1>1. SoloInv'
    BY StepSoloInv DEF PromiseInv
  <1>2. ASSUME NEW p \in Updater, Move(p) PROVE Latest'
    BY <1>2, MoveRuns DEF PromiseInv, Latest
  <1>3. ASSUME NEW p \in Updater, Begin(p) PROVE Latest'
    <2>1. run'[p].stamp = clock' /\ \A q \in Updater : q = p
      BY <1>3, BeginOwn DEF PromiseInv, SoloInv, OwnInv, Alone
    <2>2. QED
      BY <2>1 DEF Latest
  <1>4. CASE UNCHANGED vars
    BY <1>1, <1>4 DEF vars, PromiseInv, Latest
  <1>5. QED
    BY <1>1, <1>2, <1>3, <1>4 DEF Next, Rest, Move, PromiseInv

\* What has to be shown of a step of the only process p.
LEMMA PromiseStep ==
  ASSUME Alone, NEW p \in Updater,
         \/ /\ Active' = Active
            /\ Trying(p)' => Trying(p)
            /\ Trying(p)' => SavedIn(backup, data)' = SavedIn(backup, data)
         \/ /\ ~Trying(p) /\ Trying(p)'
            /\ Active' \in Whole
            /\ SavedIn(backup, data)' = Active
         \/ /\ Trying(p) /\ ~Trying(p)'
            /\ SavedIn(backup, data) # None
            /\ Active' = SavedIn(backup, data)
  PROVE  [Promise!Next]_(Promise!avars)
  <1>1. /\ OnTrial = Trying(p)
        /\ OnTrial' = Trying(p)'
    BY DEF Alone, OnTrial, Trying
  <1>2. Newest = NewestIn(backup) /\ Newest' = NewestIn(backup)'
    BY DEF Newest, NewestIn
  <1>3. /\ Saved = SavedIn(backup, data)
        /\ Saved' = SavedIn(backup, data)'
    BY <1>2 DEF Saved, SavedIn
  <1>4. /\ Trying(p) \in BOOLEAN
        /\ Trying(p)' \in BOOLEAN
    BY DEF Trying
  <1>5. CASE /\ Active' = Active
             /\ Trying(p)' => Trying(p)
             /\ Trying(p)' => SavedIn(backup, data)' = SavedIn(backup, data)
    <2>1. CASE Trying(p) /\ ~Trying(p)'
      BY <1>1, <1>3, <1>4, <1>5, <2>1
         DEF Active, Promise!Next, Promise!Accept
    <2>2. CASE Trying(p) <=> Trying(p)'
      BY <1>1, <1>3, <1>4, <1>5, <2>2 DEF Active, Promise!avars
    <2>3. QED
      BY <1>5, <2>1, <2>2
  <1>6. CASE /\ ~Trying(p) /\ Trying(p)'
             /\ Active' \in Whole
             /\ SavedIn(backup, data)' = Active
    BY <1>1, <1>3, <1>4, <1>6 DEF Active, Promise!Next, Promise!Install
  <1>7. CASE /\ Trying(p) /\ ~Trying(p)'
             /\ SavedIn(backup, data) # None
             /\ Active' = SavedIn(backup, data)
    BY <1>1, <1>3, <1>4, <1>7 DEF Active, Promise!Next, Promise!RollBack
  <1>8. QED
    BY <1>5, <1>6, <1>7

LEMMA MovePromise ==
  ASSUME Alone, ~SameSecond, PromiseInv, NEW p \in Updater, Move(p)
  PROVE  [Promise!Next]_(Promise!avars)
  <1> USE NoneAssumption
          DEF PromiseInv, SoloInv, OwnInv, FileInv, TypeInv, TypeOK
  <1> DEFINE saved == SavedIn(backup, data)
             savedThen == SavedIn(backup', data')
  <1>0. /\ pc[p] # "idle" /\ run[p] # None /\ run[p].stamp \in Second
        /\ run' = run /\ run[p].stamp = clock
    BY MoveRuns, RunFields DEF RunKnown, Latest
  <1>1. /\ target # None => data'[target] = data[target]
        /\ \A t \in Second : backup[t] # None => data'[backup[t]] = data[backup[t]]
    BY NamedIsStable
  <1>2. \A t \in Second : backup[t] # None => t <= clock
    BY BoundAssumption DEF FutureIsFree, Second
  <1>3. BackupOf(p) # None => saved = data[BackupOf(p)]
    BY <1>0, <1>2, SavedIs DEF BackupOf
  <1>4. backup' = backup => savedThen = saved
    BY <1>1, SavedIs
  <1>5. ASSUME UNCHANGED <<target, backup>>, Trying(p)' => Trying(p)
        PROVE  [Promise!Next]_(Promise!avars)
    <2>1. savedThen = saved
      BY <1>4, <1>5
    <2>2. Active' = Active
      BY <1>1, <1>5, <2>1 DEF Active
    <2>3. QED
      BY <1>5, <2>1, <2>2, PromiseStep
  <1>6. CASE Load(p) \/ Fill(p) \/ Check1(p) \/ ImportEcb(p) \/ Check2(p)
    <2>1. UNCHANGED <<target, backup>> /\ pc[p] \in Building
      BY <1>6 DEF Load, Fill, Check1, ImportEcb, Check2, files, Building
    <2>2. BackupOf(p)' = None
      BY <1>0, <2>1 DEF Tidy, BackupOf
    <2>3. pc'[p] \notin {"verify", "drop"}
      BY <1>6 DEF Load, Fill, Check1, ImportEcb, Check2, Goto, GotoIf
    <2>4. QED
      BY <1>5, <2>1, <2>2, <2>3 DEF Trying
  <1>7. CASE BackUp(p)
    <2>1. /\ pc'[p] = "install" /\ data' = data /\ target' = None
      BY <1>7 DEF BackUp, Goto
    <2>2. ~Trying(p)'
      BY <2>1 DEF Trying
    <2>3. CASE target = None
      <3>1. UNCHANGED <<target, backup>>
        BY <1>7, <2>1, <2>3 DEF BackUp
      <3>2. QED
        BY <1>5, <2>2, <3>1
    <2>4. CASE target # None
      <3>1. backup' = [backup EXCEPT ![clock] = target]
        BY <1>0, <1>7, <2>4 DEF BackUp
      <3>2. /\ backup'[clock] = target
            /\ \A u \in Second : backup'[u] # None => u <= clock
        BY <1>0, <1>2, <3>1, BoundAssumption
      <3>3. savedThen = data'[target]
        BY <1>0, <2>4, <3>2, SavedIs
      <3>4. Active' = Active
        BY <1>1, <2>1, <2>4, <3>3 DEF Active
      <3>5. QED
        BY <2>2, <3>4, PromiseStep
    <2>5. QED
      BY <2>3, <2>4
  <1>8. CASE Install(p)
    <2>1. TempOf(p) # None /\ data[TempOf(p)] \in Whole
      BY <1>8, MadeIsWhole DEF Install, Built, Swapping
    <2>2. /\ target' = TempOf(p) /\ UNCHANGED <<backup, data>>
          /\ pc[p] = "install" /\ pc'[p] = "verify" /\ target = None
      BY <1>8, <2>1 DEF Install, Goto, Seen
    <2>3. ~Trying(p) /\ Trying(p)' /\ Active' \in Whole
      BY <2>1, <2>2 DEF Trying, Active
    <2>4. savedThen = Active
      BY <1>4, <2>2 DEF Active
    <2>5. QED
      BY <2>3, <2>4, PromiseStep
  <1>9. CASE Verify(p)
    <2>1. target # None /\ pc[p] = "verify"
      BY <1>9 DEF Verify, Seen
    <2>2. UNCHANGED <<target, backup>>
      BY <1>9, <2>1 DEF Verify
    <2>3. QED
      BY <1>5, <2>1, <2>2 DEF Trying
  <1>10. CASE DropBackup(p)
    <2>1. /\ target # None /\ UNCHANGED <<target, data>>
          /\ pc'[p] = "cleanup"
      BY <1>10 DEF DropBackup, Goto, Seen
    <2>2. Active' = Active /\ ~Trying(p)'
      BY <2>1 DEF Active, Trying
    <2>3. QED
      BY <2>2, PromiseStep
  <1>11. CASE Restore(p)
    <2>0. data' = data /\ pc'[p] \notin {"verify", "drop"}
      BY <1>11 DEF Restore, RestoreUnlink, RestoreMove, Goto
    <2>1. CASE BackupOf(p) = None
      <3>1. UNCHANGED <<target, backup>>
        BY <1>0, <1>11, <2>1 DEF Restore, RestoreUnlink, RestoreMove, BackupOf
      <3>2. ~Trying(p)'
        BY <1>0, <2>0, <2>1, <3>1 DEF Trying, BackupOf
      <3>3. QED
        BY <1>5, <3>1, <3>2
    <2>2. CASE /\ BackupOf(p) # None
               /\ \/ RestoreUnlink(p, "inUnlink", "inMove", "outUnlink")
                  \/ RestoreUnlink(p, "outUnlink", "outMove", "cleanup")
      <3>1. /\ target' = None /\ backup' = backup
            /\ pc[p] \in {"inUnlink", "outUnlink"}
            /\ pc[p] = "inUnlink" => target = None
            /\ pc'[p] \in {"inMove", "outMove"}
        BY <2>2 DEF RestoreUnlink, Goto, Seen
      <3>2. ~Trying(p)'
        BY <3>1 DEF Trying
      <3>3. CASE target = None
        BY <1>5, <3>1, <3>2, <3>3
      <3>4. CASE target # None
        <4>1. Trying(p)
          BY <2>2, <3>1, <3>4 DEF Trying
        <4>2. saved \in Content
          BY <1>0, <1>3, <2>2 DEF BackupOf
        <4>3. Active' = saved
          BY <1>4, <3>1 DEF Active
        <4>4. QED
          BY <3>2, <4>1, <4>2, <4>3, PromiseStep, NoContentAssumption
      <3>5. QED
        BY <3>3, <3>4
    <2>3. CASE /\ BackupOf(p) # None
               /\ \/ RestoreMove(p, "inMove", "outUnlink")
                  \/ RestoreMove(p, "outMove", "cleanup")
      <3>1. /\ target = None
            /\ target' = BackupOf(p)
            /\ BackupOf(p)' = None
        BY <1>0, <2>3 DEF RestoreMove, Seen, BackupOf
      <3>2. Active' = Active
        BY <1>3, <2>0, <2>3, <3>1 DEF Active
      <3>3. ~Trying(p)'
        BY <2>0, <3>1 DEF Trying
      <3>4. QED
        BY <3>2, <3>3, PromiseStep
    <2>4. QED
      BY <1>11, <2>1, <2>2, <2>3 DEF Restore
  <1>12. CASE Cleanup(p)
    <2>1. UNCHANGED <<target, backup>> /\ pc'[p] = "idle"
      BY <1>12 DEF Cleanup, Goto
    <2>2. QED
      BY <1>5, <2>1 DEF Trying
  <1>13. CASE Raise(p)
    <2>1. UNCHANGED <<target, backup>> /\ pc'[p] \in Handlers(pc[p])
      BY <1>13 DEF Raise, files, Goto
    <2>2. pc'[p] \notin {"verify", "drop"}
      BY <2>1 DEF Handlers
    <2>3. ASSUME pc'[p] = "outUnlink", BackupOf(p) # None, target # None
          PROVE  Trying(p)
      <3>1. pc[p] \notin {"cleanup", "install", "outUnlink", "outMove"}
        BY <2>1, <2>3 DEF Handlers
      <3>2. pc[p] \notin Building \union {"backup", "inUnlink", "inMove"}
        BY <2>3 DEF Tidy, Seen
      <3>3. QED
        BY <1>0, <3>1, <3>2 DEF Trying, Step, Swapping, Restoring
    <2>4. BackupOf(p)' = BackupOf(p)
      BY <1>0, <2>1 DEF BackupOf
    <2>5. QED
      BY <1>5, <2>1, <2>2, <2>3, <2>4 DEF Trying
  <1>14. CASE Interrupt(p) \/ Crash(p)
    <2>1. UNCHANGED <<target, backup>> /\ pc'[p] \in {"cleanup", "idle"}
      BY <1>14 DEF Interrupt, Crash, files, Goto
    <2>2. QED
      BY <1>5, <2>1 DEF Trying
  <1>15. QED
    BY <1>6, <1>7, <1>8, <1>9, <1>10, <1>11, <1>12, <1>13, <1>14
       DEF Move, Advance

\* With one updater at a time, an update is, to its readers, an installation of
\* a complete database on trial that ends by being accepted or by going back to
\* exactly what was there before: SqliteUpdate implements ActiveDatabase.
THEOREM UpdateKeepsPromise ==
  ASSUME Alone, ~SameSecond
  PROVE  Spec => PromiseKept
  <1>1. Init => Promise!Init
    <2> SUFFICES ASSUME Init PROVE Promise!Init
      OBVIOUS
    <2>1. ~OnTrial /\ Saved = None
      BY DEF Init, OnTrial, Saved
    <2>2. target # None => data[target] \in Whole
      BY DEF Init
    <2>3. QED
      BY <2>1, <2>2 DEF Promise!Init
  <1>2. Init => PromiseInv
    BY InitSoloInv DEF Init, PromiseInv, Latest
  <1>3. PromiseInv /\ [Next]_vars => PromiseInv'
    BY StepPromiseInv
  <1>4. PromiseInv /\ [Next]_vars => [Promise!Next]_(Promise!avars)
    <2> SUFFICES ASSUME PromiseInv, [Next]_vars
                 PROVE  [Promise!Next]_(Promise!avars)
      OBVIOUS
    <2>1. ASSUME NEW p \in Updater, Begin(p)
          PROVE  [Promise!Next]_(Promise!avars)
      <3>1. UNCHANGED files /\ pc[p] = "idle" /\ pc'[p] = "load"
        BY <2>1, BeginOwn DEF PromiseInv, SoloInv, OwnInv, Begin
      <3>2. Active' = Active /\ ~Trying(p)'
        BY <3>1 DEF files, Active, Trying
      <3>3. QED
        BY <3>2, PromiseStep
    <2>2. CASE UNCHANGED vars
      <3>1. UNCHANGED <<OnTrial, Saved, target, data>>
        BY <2>2 DEF vars, OnTrial, Saved, Newest, BackupOf
      <3>2. QED
        BY <3>1 DEF Promise!avars
    <2>3. QED
      BY <2>1, <2>2, MovePromise DEF Next, Rest, Move
  <1>5. QED
    BY <1>1, <1>2, <1>3, <1>4, PTL DEF Spec, PromiseKept, Promise!Spec

=============================================================================
