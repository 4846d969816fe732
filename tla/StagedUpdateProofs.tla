-------------------------- MODULE StagedUpdateProofs --------------------------
(***************************************************************************)
(* Proofs about StagedUpdate, for any number of updaters, readers, tables, *)
(* sources, seconds and faults.                                            *)
(***************************************************************************)
EXTENDS StagedUpdate, SequenceTheorems, WellFoundedInduction, TLAPS

(***************************************************************************)
(* The lists of tables.                                                    *)
(***************************************************************************)

\* Every set of natural numbers that is not empty has a least element.
LEMMA LeastOfNat ==
  ASSUME NEW T \in SUBSET Nat, T # {}
  PROVE  \E n \in T : \A m \in T : n <= m
  <1> DEFINE R == {ss \in Nat \X Nat : ss[1] < ss[2]}
  <1>1. IsWellFoundedOn(R, Nat)
    BY NatLessThanWellFounded DEF OpToRel
  <1>2. \A m, n \in Nat : m < n => <<m, n>> \in R
    OBVIOUS
  <1> HIDE DEF R
  <1>3. PICK n \in T : \A m \in T : ~(<<m, n>> \in R)
    BY <1>1, WFMin
  <1>4. \A m \in T : n <= m
    <2>1. TAKE m \in T
    <2>2. m \in Nat /\ n \in Nat
      OBVIOUS
    <2>3. ~(m < n)
      BY <1>2, <1>3, <2>2
    <2>4. QED
      BY <2>2, <2>3
  <1>5. QED
    BY <1>4

\* Induction up to N, for a set.
LEMMA UpTo ==
  ASSUME NEW N \in Nat, NEW G, 0 \in G, \A i \in 1..N : i - 1 \in G => i \in G
  PROVE  \A i \in 0..N : i \in G
  <1> DEFINE Bad == {i \in 0..N : i \notin G}
  <1>1. SUFFICES ASSUME Bad # {} PROVE FALSE
    OBVIOUS
  <1>2. Bad \in SUBSET Nat
    OBVIOUS
  <1>3. PICK n \in Bad : \A m \in Bad : n <= m
    <2> HIDE DEF Bad
    <2>1. QED
      BY <1>1, <1>2, LeastOfNat
  <1>4. n \in 1..N /\ n - 1 \in 0..N /\ ~(n <= n - 1)
    OBVIOUS
  <1>5. n - 1 \in G
    BY <1>3, <1>4
  <1>6. QED
    BY <1>4, <1>5

\* Appending an element adds it to the set.
LEMMA ToSetAppend ==
  ASSUME NEW T, NEW q \in Seq(T), NEW e
  PROVE  ToSet(Append(q, e)) = ToSet(q) \union {e}
  <1>1. DOMAIN Append(q, e) = 1..(Len(q) + 1) /\ DOMAIN q = 1..Len(q)
    OBVIOUS
  <1>2. \A i \in 1..Len(q) : Append(q, e)[i] = q[i]
    OBVIOUS
  <1>3. Append(q, e)[Len(q) + 1] = e
    OBVIOUS
  <1>4. \A i \in 1..(Len(q) + 1) : i \in 1..Len(q) \/ i = Len(q) + 1
    OBVIOUS
  <1>5. Len(q) + 1 \in 1..(Len(q) + 1) /\ \A i \in 1..Len(q) : i \in 1..(Len(q) + 1)
    OBVIOUS
  <1>6. QED
    BY <1>1, <1>2, <1>3, <1>4, <1>5 DEF ToSet

\* Selected is what its name says: the elements of s that are in S.
LEMMA SelectedIs ==
  ASSUME NEW T, NEW s \in Seq(T), NEW S
  PROVE  /\ Selected(s, S) \in Seq(T)
         /\ ToSet(Selected(s, S)) = ToSet(s) \intersect S
  <1> DEFINE N == Len(s)
             Def(g, i) == IF i = 0 THEN <<>>
                          ELSE IF s[i] \in S THEN Append(g[i - 1], s[i]) ELSE g[i - 1]
             Right(g, n) == g = [i \in 0..n |-> Def(g, i)]
             Good == {n \in Nat : \E g : Right(g, n)}
  <1>0. N \in Nat
    OBVIOUS
  <1>1. 0 \in Good
    <2>1. Right([i \in 0..0 |-> <<>>], 0)
      OBVIOUS
    <2>2. QED
      BY <2>1
  <1>2. ASSUME NEW n \in 1..N, n - 1 \in Good PROVE n \in Good
    <2>1. PICK g : Right(g, n - 1)
      BY <1>2
    <2> DEFINE h == [i \in 0..n |-> IF i < n THEN g[i] ELSE Def(g, n)]
    <2>2. \A i \in 0..(n - 1) : g[i] = Def(g, i) /\ h[i] = g[i]
      <3>1. \A i \in 0..(n - 1) : i \in 0..n /\ i < n
        OBVIOUS
      <3>2. \A i \in 0..(n - 1) : h[i] = g[i]
        BY <3>1
      <3> HIDE DEF Def, h
      <3>3. \A i \in 0..(n - 1) : g[i] = Def(g, i)
        BY <2>1
      <3>4. QED
        BY <3>2, <3>3
    <2>3. h[n] = Def(g, n)
      OBVIOUS
    <2>4. h = [i \in 0..n |-> h[i]]
      OBVIOUS
    <2>5. h[n - 1] = g[n - 1]
      OBVIOUS
    <2>6. \A i \in 1..(n - 1) : h[i - 1] = g[i - 1]
      OBVIOUS
    <2> HIDE DEF h
    <2>7. ASSUME NEW i \in 0..n PROVE h[i] = Def(h, i)
      <3>1. CASE i = n
        BY <2>3, <2>5, <3>1
      <3>2. CASE i # n /\ i # 0
        <4>1. i \in 1..(n - 1) /\ i \in 0..(n - 1)
          BY <3>2
        <4>2. h[i - 1] = g[i - 1] /\ h[i] = Def(g, i)
          BY <2>2, <2>6, <4>1
        <4>3. QED
          BY <3>2, <4>2
      <3>3. CASE i = 0
        BY <2>2, <3>3
      <3>4. QED
        BY <3>1, <3>2, <3>3
    <2> HIDE DEF Def
    <2>8. Right(h, n)
      BY <2>4, <2>7
    <2>9. QED
      BY <2>8
  <1>3. N \in Good
    <2> HIDE DEF Good, N
    <2>1. \A n \in 1..N : n - 1 \in Good => n \in Good
      BY <1>2, Zenon
    <2>2. \A n \in 0..N : n \in Good
      BY <1>0, <1>1, <2>1, UpTo, Zenon
    <2>3. N \in 0..N
      BY <1>0
    <2>4. QED
      BY <2>2, <2>3, Zenon
  <1> DEFINE Pick == CHOOSE g : Right(g, N)
  <1>4. Right(Pick, N)
    <2> HIDE DEF Right
    <2>1. QED
      BY <1>3, Zenon
  <1>5. Selected(s, S) = Pick[N]
    BY DEF Selected
  <1> HIDE DEF Pick
  <1>6. ASSUME NEW n \in 0..N
        PROVE  Pick[n] = IF n = 0 THEN <<>>
                         ELSE IF s[n] \in S THEN Append(Pick[n - 1], s[n])
                         ELSE Pick[n - 1]
    <2> HIDE DEF Def
    <2>1. Pick[n] = Def(Pick, n)
      BY <1>4
    <2>2. QED
      BY <2>1 DEF Def
  <1> HIDE DEF Right
  <1> DEFINE Sound == {n \in 0..N : /\ Pick[n] \in Seq(T)
                                    /\ ToSet(Pick[n]) = {s[i] : i \in 1..n} \intersect S}
  <1>7. 0 \in Sound
    <2>1. ToSet(<<>>) = {} /\ <<>> \in Seq(T)
      BY DEF ToSet
    <2>2. Pick[0] = <<>> /\ 0 \in 0..N
      BY <1>0, <1>6
    <2>3. {s[i] : i \in 1..0} = {}
      OBVIOUS
    <2>4. QED
      BY <2>1, <2>2, <2>3
  <1>8. ASSUME NEW n \in 1..N, n - 1 \in Sound PROVE n \in Sound
    <2>1. /\ Pick[n - 1] \in Seq(T)
          /\ ToSet(Pick[n - 1]) = {s[i] : i \in 1..(n - 1)} \intersect S
          /\ s[n] \in T
      BY <1>8
    <2>2. Pick[n] = IF s[n] \in S THEN Append(Pick[n - 1], s[n]) ELSE Pick[n - 1]
      BY <1>6
    <2>3. {s[i] : i \in 1..n} = {s[i] : i \in 1..(n - 1)} \union {s[n]}
      OBVIOUS
    <2>4. CASE s[n] \in S
      <3>1. Pick[n] \in Seq(T)
        BY <2>1, <2>2, <2>4
      <3>2. ToSet(Pick[n]) = ToSet(Pick[n - 1]) \union {s[n]}
        BY <2>1, <2>2, <2>4, ToSetAppend
      <3>3. ToSet(Pick[n]) = {s[i] : i \in 1..n} \intersect S
        BY <2>1, <2>3, <2>4, <3>2
      <3>4. QED
        BY <3>1, <3>3
    <2>5. CASE s[n] \notin S
      BY <2>1, <2>2, <2>3, <2>5
    <2>6. QED
      BY <2>4, <2>5
  <1>9. N \in Sound
    <2> HIDE DEF Sound, N
    <2>1. \A n \in 0..N : n \in Sound
      BY <1>0, <1>7, <1>8, UpTo
    <2>2. QED
      BY <1>0, <2>1
  <1>10. ToSet(s) = {s[i] : i \in 1..N}
    BY DEF ToSet
  <1>11. QED
    BY <1>5, <1>9, <1>10

\* The tables that are listed are those of the schema.
LEMMA OrderedIs ==
  ASSUME NEW schema, NEW reversed \in BOOLEAN
  PROVE  /\ Ordered(schema, reversed) \in Seq(Table)
         /\ ToSet(Ordered(schema, reversed)) = TablesIn(schema)
  <1> DEFINE order == IF reversed THEN Reverse(OrmOrder) ELSE OrmOrder
             all == order \o ExtraOrder
  <1>1. OrmOrder \in Seq(Orm) /\ ExtraOrder \in Seq(Extra)
    BY TableAssumption
  <1>2. order \in Seq(Orm) /\ ToSet(order) = Orm
    <2>1. CASE reversed
      <3> DEFINE n == Len(OrmOrder)
      <3>1. n \in Nat /\ DOMAIN OrmOrder = 1..n
        BY <1>1
      <3>2. Reverse(OrmOrder) = [i \in 1..n |-> OrmOrder[(n - i) + 1]]
        BY DEF Reverse
      <3> HIDE DEF n
      <3>3. \A i \in 1..n : (n - i) + 1 \in 1..n /\ (n - ((n - i) + 1)) + 1 = i
        BY <3>1
      <3>4. Reverse(OrmOrder) \in Seq(Orm)
        <4>1. \A i \in 1..n : OrmOrder[i] \in Orm
          BY <3>1 DEF Orm, ToSet
        <4>2. QED
          BY <3>1, <3>2, <3>3, <4>1
      <3>5. ToSet(Reverse(OrmOrder)) = Orm
        <4>1. /\ ToSet(Reverse(OrmOrder)) = {OrmOrder[(n - i) + 1] : i \in 1..n}
              /\ Orm = {OrmOrder[i] : i \in 1..n}
          BY <3>1, <3>2 DEF Orm, ToSet
        <4>2. \A i \in 1..n : OrmOrder[i] \in ToSet(Reverse(OrmOrder))
          BY <3>3, <4>1
        <4>3. QED
          BY <3>3, <4>1, <4>2
      <3>6. QED
        BY <2>1, <3>4, <3>5
    <2>2. CASE ~reversed
      BY <1>1, <2>2 DEF Orm
    <2>3. QED
      BY <2>1, <2>2
  <1> HIDE DEF order
  <1>3. all \in Seq(Table) /\ ToSet(all) = Table
    <2>1. order \in Seq(Table) /\ ExtraOrder \in Seq(Table)
      BY <1>1, <1>2 DEF Table
    <2>2. /\ Len(all) = Len(order) + Len(ExtraOrder)
          /\ \A i \in 1..Len(all) :
               all[i] = IF i <= Len(order) THEN order[i]
                        ELSE ExtraOrder[i - Len(order)]
      BY <2>1
    <2>3. ToSet(all) \subseteq ToSet(order) \union ToSet(ExtraOrder)
      BY <2>1, <2>2 DEF ToSet
    <2>4. ToSet(order) \subseteq ToSet(all)
      BY <2>1, <2>2 DEF ToSet
    <2>5. ToSet(ExtraOrder) \subseteq ToSet(all)
      <3>1. SUFFICES ASSUME NEW i \in 1..Len(ExtraOrder)
                     PROVE  ExtraOrder[i] \in ToSet(all)
        BY <2>1 DEF ToSet
      <3>2. /\ i + Len(order) \in 1..Len(all)
            /\ all[i + Len(order)] = ExtraOrder[i]
        BY <2>1, <2>2
      <3>3. QED
        BY <2>1, <3>2 DEF ToSet
    <2>6. QED
      BY <1>2, <2>1, <2>3, <2>4, <2>5 DEF Table, Extra
  <1>4. Ordered(schema, reversed) = Selected(all, TablesIn(schema))
    BY DEF Ordered, order
  <1> HIDE DEF all
  <1>5. TablesIn(schema) \subseteq Table
    BY DEF TablesIn
  <1>6. all \in Seq(Table)
    BY <1>3
  <1>7. /\ Selected(all, TablesIn(schema)) \in Seq(Table)
        /\ ToSet(Selected(all, TablesIn(schema))) =
             ToSet(all) \intersect TablesIn(schema)
    BY <1>6, SelectedIs
  <1>8. QED
    BY <1>3, <1>4, <1>5, <1>7

-----------------------------------------------------------------------------
(***************************************************************************)
(* Types.                                                                  *)
(***************************************************************************)

\* A process that is running knows what it was asked to do.
RunKnown == \A p \in Updater : pc[p] # "idle" => run[p] # None

\* The lists are sequences of tables.
ListsTyped ==
  /\ out \in [Updater -> Seq(Table)]
  /\ into \in [Updater -> Seq(Table)]
  /\ moved \in [Updater -> Nat]

TypeInv == TypeOK /\ RunKnown /\ ListsTyped

\* A step of p's process, other than the start of a run.
Own(p) ==
  \/ Advance(p)
  \/ Raise(p) \/ DropFails(p) \/ ReplyLost(p) \/ Interrupt(p) \/ Crash(p)

LEMMA RunFields ==
  ASSUME TypeInv, NEW p \in Updater, pc[p] # "idle"
  PROVE  /\ run[p] \in Run
         /\ run[p].stamp \in Second
         /\ run[p].src \in Source
         /\ run[p].opt \in Setting
         /\ StagingOf(p) \in Tables \union {None}
         /\ BackupOf(p) \in Tables \union {None}
  <1>1. run[p] \in Run
    BY DEF TypeInv, TypeOK, RunKnown
  <1>2. /\ run[p].stamp \in Second
        /\ run[p].src \in Source
        /\ run[p].opt \in Setting
    BY <1>1 DEF Run
  <1>3. QED
    BY <1>1, <1>2 DEF TypeInv, TypeOK, StagingOf, BackupOf

LEMMA SchemasTyped ==
  /\ NoTables \in Tables
  /\ EmptyOrm \in Tables
  /\ \A s \in Source : Loaded(s) \in Tables
  <1>1. {} \in Rows /\ \A s \in Source : {s} \in Rows
    BY DEF Rows
  <1>2. NoTables \in Tables
    BY DEF NoTables, Tables
  <1>3. EmptyOrm \in Tables
    BY <1>1 DEF EmptyOrm, Tables
  <1>4. \A s \in Source : Loaded(s) \in Tables
    BY <1>1, <1>3 DEF Loaded, Tables
  <1>5. QED
    BY <1>2, <1>3, <1>4

LEMMA InitTypeInv == Init => TypeInv
  <1> SUFFICES ASSUME Init PROVE TypeInv
    OBVIOUS
  <1>1. active \in Tables
    BY SchemasTyped, TableAssumption DEF Init
  <1>2. 0 \in 0..MaxClock /\ 0 \in 0..MaxFaults
    BY BoundAssumption
  <1>3. <<>> \in Seq(Table) /\ ToSet(<<>>) \subseteq Table /\ 0 \in 0..Len(<<>>)
    BY DEF ToSet
  <1>4. seen \in [Reader -> Tables]
    BY SchemasTyped DEF Init
  <1>5. TypeOK
    BY <1>1, <1>2, <1>3, <1>4 DEF Init, TypeOK, Step, Outcome
  <1>6. RunKnown /\ ListsTyped
    BY <1>3 DEF Init, RunKnown, ListsTyped
  <1>7. QED
    BY <1>5, <1>6 DEF TypeInv

\* What a step of p's process leaves alone: the clock, the arguments of the
\* runs, what is noted of other processes, and the schemas of other runs.
LEMMA OwnFrame ==
  ASSUME TypeInv, NEW p \in Updater, Own(p)
  PROVE  /\ pc[p] # "idle"
         /\ UNCHANGED <<clock, run, seen>>
         /\ \E step \in Step : pc' = [pc EXCEPT ![p] = step]
         /\ \E how \in Outcome : outcome' = [outcome EXCEPT ![p] = how]
         /\ leaked \subseteq leaked' /\ leaked' \subseteq leaked \union {run[p].stamp}
         /\ \A t \in Second \ {run[p].stamp} :
              staging'[t] = staging[t] /\ backup'[t] = backup[t]
  <1> USE DEF TypeInv, TypeOK, Goto, GotoIf, Finally, schemas, lists, noted,
              Step, Outcome
  <1>1. CASE CreateStaging(p)
    BY <1>1 DEF CreateStaging
  <1>2. CASE CreateTables(p)
    BY <1>2 DEF CreateTables
  <1>3. CASE Fill(p)
    BY <1>3 DEF Fill
  <1>4. CASE Check(p)
    BY <1>4 DEF Check
  <1>5. CASE CheckLocks(p)
    BY <1>5 DEF CheckLocks
  <1>6. CASE CreateBackup(p)
    BY <1>6 DEF CreateBackup
  <1>7. CASE ListTables(p)
    BY <1>7 DEF ListTables
  <1>8. CASE MoveOut(p)
    BY <1>8 DEF MoveOut
  <1>9. CASE LockTimeout(p)
    BY <1>9 DEF LockTimeout
  <1>10. CASE Commit(p)
    BY <1>10 DEF Commit, SwapEffect
  <1>11. CASE RollBack(p)
    BY <1>11 DEF RollBack
  <1>12. CASE DropStaging(p)
    BY <1>12 DEF DropStaging
  <1>13. CASE DropBackup(p)
    BY <1>13 DEF DropBackup
  <1>14. CASE Raise(p)
    <2>1. \E how \in Outcome : outcome' = [outcome EXCEPT ![p] = how]
      BY <1>14 DEF Raise, Ended
    <2>2. QED
      BY <1>14, <2>1 DEF Raise
  <1>15. CASE DropFails(p)
    BY <1>15 DEF DropFails, Dropping
  <1>16. CASE ReplyLost(p)
    BY <1>16 DEF ReplyLost, SwapEffect
  <1>17. CASE Interrupt(p)
    <2>1. \E how \in Outcome : outcome' = [outcome EXCEPT ![p] = how]
      BY <1>17 DEF Interrupt, Ended
    <2>2. QED
      BY <1>17, <2>1 DEF Interrupt
  <1>18. CASE Crash(p)
    <2>1. \E how \in Outcome : outcome' = [outcome EXCEPT ![p] = how]
      BY <1>18 DEF Crash, Ended
    <2>2. QED
      BY <1>18, <2>1 DEF Crash
  <1>19. QED
    BY <1>1, <1>2, <1>3, <1>4, <1>5, <1>6, <1>7, <1>8, <1>9, <1>10, <1>11,
       <1>12, <1>13, <1>14, <1>15, <1>16, <1>17, <1>18 DEF Own, Advance

\* A step counts the fault it is, if it is one.
LEMMA OwnFaults ==
  ASSUME TypeInv, NEW p \in Updater, Own(p)
  PROVE  faults' \in 0..MaxFaults
  <1>1. UNCHANGED faults \/ \E kind \in FaultKind : Fault(kind)
    BY DEF Own, Advance, CreateStaging, CreateTables, Fill, Check, CheckLocks,
           CreateBackup, ListTables, MoveOut, LockTimeout, Commit, RollBack,
           DropStaging, DropBackup, Raise, DropFails, ReplyLost, Interrupt,
           Crash, noted, Fault
  <1>2. QED
    BY <1>1, BoundAssumption DEF Fault, TypeInv, TypeOK

\* What a step of p's process does to the lists.
LEMMA OwnLists ==
  ASSUME TypeInv, NEW p \in Updater, Own(p)
  PROVE  \/ UNCHANGED lists
         \/ ListTables(p)
         \/ /\ pc[p] = "move" /\ moved[p] < Len(out[p])
            /\ ~Blocked(p, out[p][moved[p] + 1])
            /\ UNCHANGED <<out, into>>
            /\ moved' = [moved EXCEPT ![p] = @ + 1]
         \/ EndSwap(p)
  BY DEF Own, Advance, CreateStaging, CreateTables, Fill, Check, CheckLocks,
         CreateBackup, MoveOut, LockTimeout, Commit, RollBack, DropStaging,
         DropBackup, Raise, DropFails, ReplyLost, Interrupt, Crash, lists

LEMMA OwnListsTyped ==
  ASSUME TypeInv, NEW p \in Updater, Own(p)
  PROVE  /\ ListsTyped'
         /\ \A q \in Updater : /\ ToSet(out'[q]) \subseteq Table
                               /\ ToSet(into'[q]) \subseteq Table
                               /\ moved'[q] \in 0..Len(out'[q])
  <1> USE DEF TypeInv, TypeOK, ListsTyped
  <1>1. CASE UNCHANGED lists
    BY <1>1 DEF lists
  <1>2. CASE ListTables(p)
    <2> DEFINE o == Ordered(active, TRUE)
               i == Ordered(StagingOf(p), FALSE)
    <2>1. /\ o \in Seq(Table) /\ ToSet(o) \subseteq Table
          /\ i \in Seq(Table) /\ ToSet(i) \subseteq Table
      BY OrderedIs DEF TablesIn
    <2>2. /\ out' = [out EXCEPT ![p] = o]
          /\ into' = [into EXCEPT ![p] = i]
          /\ moved' = [moved EXCEPT ![p] = 0]
      BY <1>2 DEF ListTables
    <2> HIDE DEF o, i
    <2>3. 0 \in 0..Len(o)
      BY <2>1
    <2>4. QED
      BY <2>1, <2>2, <2>3
  <1>3. CASE /\ moved[p] < Len(out[p])
             /\ UNCHANGED <<out, into>>
             /\ moved' = [moved EXCEPT ![p] = @ + 1]
    <2>1. moved[p] + 1 \in 0..Len(out[p])
      BY <1>3
    <2>2. QED
      BY <1>3, <2>1
  <1>4. CASE EndSwap(p)
    <2>1. <<>> \in Seq(Table) /\ ToSet(<<>>) \subseteq Table /\ 0 \in 0..Len(<<>>)
      BY DEF ToSet
    <2>2. QED
      BY <1>4, <2>1 DEF EndSwap
  <1>5. QED
    BY <1>1, <1>2, <1>3, <1>4, OwnLists

\* What a step of p's process does to the schemas has their type.
LEMMA OwnSchemasTyped ==
  ASSUME TypeInv, NEW p \in Updater, Own(p)
  PROVE  /\ active' \in Tables
         /\ staging' \in [Second -> Tables \union {None}]
         /\ backup' \in [Second -> Tables \union {None}]
  <1>1. /\ pc[p] # "idle"
        /\ StagingOf(p) \in Tables \union {None}
        /\ BackupOf(p) \in Tables \union {None}
        /\ run[p].src \in Source
    BY OwnFrame, RunFields
  <1>2. {} \in Rows /\ {run[p].src} \in Rows
    BY <1>1 DEF Rows
  <1>3. CASE CreateStaging(p) \/ CreateBackup(p)
    <2>1. /\ active \in Tables
          /\ staging \in [Second -> Tables \union {None}]
          /\ backup \in [Second -> Tables \union {None}]
      BY DEF TypeInv, TypeOK
    <2>2. CASE CreateStaging(p)
      BY <2>1, <2>2, SchemasTyped DEF CreateStaging
    <2>3. CASE CreateBackup(p)
      BY <2>1, <2>3, SchemasTyped DEF CreateBackup
    <2>4. QED
      BY <1>3, <2>2, <2>3
  <1>4. CASE CreateTables(p)
    <2> DEFINE new == [t \in Table |-> IF t \in Orm THEN {} ELSE StagingOf(p)[t]]
    <2>1. StagingOf(p) # None => new \in Tables
      BY <1>1, <1>2 DEF Tables
    <2>2. /\ UNCHANGED <<active, backup>>
          /\ \/ staging' = [staging EXCEPT ![run[p].stamp] = @]
             \/ /\ StagingOf(p) # None
                /\ staging' = [staging EXCEPT ![run[p].stamp] = new]
      BY <1>4 DEF CreateTables, StagingOf
    <2> HIDE DEF new
    <2>3. QED
      BY <1>1, <2>1, <2>2 DEF TypeInv, TypeOK
  <1>5. CASE Fill(p)
    <2> DEFINE s == run[p].src
               new == [t \in Table |-> IF t \notin CsvOf[s] THEN StagingOf(p)[t]
                                       ELSE IF StagingOf(p)[t] = None THEN {s}
                                       ELSE StagingOf(p)[t] \union {s}]
    <2>1. StagingOf(p) # None => new \in Tables
      BY <1>1, <1>2, SMTT(30) DEF Tables, Rows
    <2>2. /\ UNCHANGED <<active, backup>>
          /\ \/ staging' = [staging EXCEPT ![run[p].stamp] = @]
             \/ /\ StagingOf(p) # None
                /\ staging' = [staging EXCEPT ![run[p].stamp] = new]
      BY <1>5 DEF Fill, StagingOf
    <2> HIDE DEF new
    <2>3. QED
      BY <1>1, <2>1, <2>2 DEF TypeInv, TypeOK
  <1>6. CASE Commit(p) \/ ReplyLost(p)
    <2>1. StagingOf(p) \in Tables /\ BackupOf(p) \in Tables
      BY <1>1, <1>6 DEF Commit, ReplyLost, CanMoveIn, CanMoveOut
    <2>2. SwappedActive(p) \in Tables
      BY <2>1 DEF SwappedActive, Tables, TypeInv, TypeOK
    <2> DEFINE left == [t \in Table |-> IF t \in ToSet(into[p]) THEN None
                                        ELSE StagingOf(p)[t]]
               old  == [t \in Table |-> IF t \in ToSet(out[p]) THEN active[t]
                                        ELSE BackupOf(p)[t]]
    <2>3. left \in Tables /\ old \in Tables
      BY <2>1 DEF Tables, TypeInv, TypeOK
    <2>4. /\ active' = SwappedActive(p)
          /\ staging' = [staging EXCEPT ![run[p].stamp] = left]
          /\ backup' = [backup EXCEPT ![run[p].stamp] = old]
      BY <1>6 DEF Commit, ReplyLost, SwapEffect, StagingOf, BackupOf
    <2> HIDE DEF left, old
    <2>5. QED
      BY <2>2, <2>3, <2>4 DEF TypeInv, TypeOK
  <1>7. CASE DropStaging(p) \/ DropBackup(p)
    BY <1>7 DEF DropStaging, DropBackup, TypeInv, TypeOK
  <1>8. CASE UNCHANGED schemas
    BY <1>8 DEF schemas, TypeInv, TypeOK
  <1>9. QED
    BY <1>3, <1>4, <1>5, <1>6, <1>7, <1>8
       DEF Own, Advance, Check, CheckLocks, ListTables, MoveOut, LockTimeout,
           RollBack, Raise, DropFails, Interrupt, Crash

LEMMA OwnKeptTyped ==
  ASSUME TypeInv, NEW p \in Updater, Own(p)
  PROVE  kept' \in [Second -> Tables \union {None}]
  <1>1. \/ UNCHANGED kept
        \/ kept' = [kept EXCEPT ![run[p].stamp] =
                      IF run[p].opt.keep THEN Replaced ELSE @]
    BY DEF Own, Advance, CreateStaging, CreateTables, Fill, Check, CheckLocks,
           CreateBackup, ListTables, MoveOut, LockTimeout, Commit, RollBack,
           DropStaging, DropBackup, Raise, DropFails, ReplyLost, Interrupt,
           Crash, noted, SwapEffect, NoteReplaced
  <1>2. Replaced \in Tables
    BY DEF Replaced, Tables, TypeInv, TypeOK
  <1> HIDE DEF Replaced
  <1>3. QED
    BY <1>1, <1>2 DEF TypeInv, TypeOK

LEMMA StepTypeInv == TypeInv /\ [Next]_vars => TypeInv'
  <1> SUFFICES ASSUME TypeInv, [Next]_vars PROVE TypeInv'
    OBVIOUS
  <1>1. ASSUME NEW p \in Updater, Own(p) PROVE TypeInv'
    <2>1. /\ active' \in Tables
          /\ staging' \in [Second -> Tables \union {None}]
          /\ backup' \in [Second -> Tables \union {None}]
      BY <1>1, OwnSchemasTyped
    <2>2. /\ clock' \in 0..MaxClock
          /\ run' \in [Updater -> Run \union {None}]
          /\ seen' \in [Reader -> Tables]
          /\ pc' \in [Updater -> Step]
          /\ outcome' \in [Updater -> Outcome]
      BY <1>1, OwnFrame DEF TypeInv, TypeOK
    <2>3. leaked' \subseteq Second
      <3>1. run[p].stamp \in Second /\ leaked' \subseteq leaked \union {run[p].stamp}
        BY <1>1, OwnFrame, RunFields
      <3>2. QED
        BY <3>1 DEF TypeInv, TypeOK
    <2>4. RunKnown'
      <3>1. pc[p] # "idle" /\ run' = run /\ \A q \in Updater \ {p} : pc'[q] = pc[q]
        BY <1>1, OwnFrame DEF TypeInv, TypeOK
      <3>2. QED
        BY <3>1 DEF TypeInv, RunKnown
    <2>5. QED
      BY <1>1, <2>1, <2>2, <2>3, <2>4, OwnListsTyped, OwnKeptTyped, OwnFaults
         DEF TypeInv, TypeOK
  <1>2. ASSUME NEW p \in Updater, Begin(p) PROVE TypeInv'
    <2>1. PICK t \in Second, s \in Source, o \in Option :
            /\ clock' = t
            /\ run' = [run EXCEPT ![p] = [stamp |-> t, src |-> s, opt |-> o]]
      BY <1>2 DEF Begin
    <2>2. [stamp |-> t, src |-> s, opt |-> o] \in Run
      BY OptionAssumption DEF Run
    <2>3. run' \in [Updater -> Run \union {None}] /\ run'[p] # None
      BY <2>1, <2>2, NoneAssumption DEF TypeInv, TypeOK
    <2>4. clock' \in 0..MaxClock
      BY <2>1, BoundAssumption DEF Second
    <2>5. QED
      BY <1>2, <2>1, <2>3, <2>4
         DEF Begin, TypeInv, TypeOK, RunKnown, ListsTyped, Goto, Step, Outcome,
             schemas, lists, noted
  <1>3. ASSUME NEW r \in Reader, NEW t \in Table, Read(r, t) PROVE TypeInv'
    BY <1>3 DEF Read, TypeInv, TypeOK, RunKnown, ListsTyped, Tables, schemas, lists
  <1>4. ASSUME NEW r \in Reader, EndRead(r) PROVE TypeInv'
    BY <1>4, SchemasTyped
       DEF EndRead, TypeInv, TypeOK, RunKnown, ListsTyped, schemas, lists
  <1>5. CASE UNCHANGED vars
    BY <1>5 DEF vars, TypeInv, TypeOK, RunKnown, ListsTyped
  <1>6. QED
    BY <1>1, <1>2, <1>3, <1>4, <1>5 DEF Next, Own, Rest

\* Whatever the updaters and the readers do, and whatever fails, every variable
\* keeps its type: in particular a schema that has gone is never written to.
THEOREM StagedTypeCorrect == Spec => []TypeOK
  <1>1. TypeInv => TypeOK
    BY DEF TypeInv
  <1>2. QED
    BY <1>1, InitTypeInv, StepTypeInv, PTL DEF Spec

-----------------------------------------------------------------------------
(***************************************************************************)
(* What is in the staging schema of a run, when no two runs start in the   *)
(* same second.                                                            *)
(***************************************************************************)

\* Names of seconds that have not begun are free.
FutureIsFree ==
  \A t \in Second : t > clock => staging[t] = None /\ backup[t] = None

\* Runs started in the past, and each process's latest in a second of its own.
StampsDiffer ==
  /\ \A p \in Updater : run[p] # None => run[p].stamp <= clock
  /\ \A p, q \in Updater :
       (p # q /\ run[p] # None /\ run[q] # None) =>
          run[p].stamp # run[q].stamp

NameInv == TypeInv /\ FutureIsFree /\ StampsDiffer

LEMMA InitNameInv == Init => NameInv
  BY InitTypeInv DEF Init, NameInv, FutureIsFree, StampsDiffer

LEMMA StepNameInv ==
  ASSUME ~SameSecond, NameInv, [Next]_vars
  PROVE  NameInv'
  <1>0. TypeInv'
    BY StepTypeInv DEF NameInv
  <1>1. clock \in Nat /\ \A t \in Second : t \in Nat
    BY BoundAssumption DEF NameInv, TypeInv, TypeOK, Second
  <1>2. ASSUME NEW p \in Updater, Own(p) PROVE NameInv'
    <2>1. /\ UNCHANGED <<clock, run>> /\ run[p] # None
          /\ run[p].stamp \in Second
          /\ \A t \in Second \ {run[p].stamp} :
               staging'[t] = staging[t] /\ backup'[t] = backup[t]
      BY <1>2, OwnFrame, RunFields DEF NameInv, TypeInv, RunKnown
    <2>2. StampsDiffer'
      BY <2>1 DEF NameInv, StampsDiffer
    <2>3. run[p].stamp <= clock
      BY <2>1 DEF NameInv, StampsDiffer
    <2>4. FutureIsFree'
      BY <1>1, <2>1, <2>3 DEF NameInv, FutureIsFree
    <2>5. QED
      BY <1>0, <2>2, <2>4 DEF NameInv
  <1>3. ASSUME NEW p \in Updater, Begin(p) PROVE NameInv'
    <2>1. PICK t \in Second, s \in Source, o \in Option :
            /\ t = clock + 1
            /\ clock' = t
            /\ run' = [run EXCEPT ![p] = [stamp |-> t, src |-> s, opt |-> o]]
      BY <1>3 DEF Begin
    <2>2. FutureIsFree'
      <3>1. UNCHANGED <<staging, backup>>
        BY <1>3 DEF Begin, schemas
      <3>2. \A u \in Second : u > clock' => u > clock
        BY <1>1, <2>1
      <3>3. QED
        BY <3>1, <3>2 DEF NameInv, FutureIsFree
    <2>3. \A q \in Updater : run[q] # None => run[q].stamp \in Nat
      BY <1>1 DEF NameInv, TypeInv, TypeOK, Run
    <2>4. run'[p].stamp = clock + 1 /\ \A q \in Updater \ {p} : run'[q] = run[q]
      BY <2>1 DEF NameInv, TypeInv, TypeOK
    <2>5. \A q \in Updater \ {p} : run[q] # None => run'[q].stamp <= clock
      BY <2>4 DEF NameInv, StampsDiffer
    <2>6. StampsDiffer'
      BY <1>1, <2>1, <2>3, <2>4, <2>5 DEF NameInv, StampsDiffer
    <2>7. QED
      BY <1>0, <2>2, <2>6 DEF NameInv
  <1>4. CASE UNCHANGED <<schemas, clock, run>>
    BY <1>0, <1>4 DEF schemas, NameInv, FutureIsFree, StampsDiffer
  <1>5. QED
    BY <1>2, <1>3, <1>4 DEF Next, Own, Rest, Read, EndRead, vars, schemas

\* The staging schema of p's run, from its creation to the swap.
Staged(p) ==
  /\ pc[p] = "schema" => StagingOf(p) = None
  /\ pc[p] = "tables" => StagingOf(p) = NoTables
  /\ pc[p] = "fill" => StagingOf(p) = EmptyOrm
  /\ pc[p] \in {"check", "locks", "mkbackup", "list", "move"} =>
       StagingOf(p) = Loaded(run[p].src)
  /\ pc[p] = "move" => Orm \subseteq ToSet(into[p])

StagedInv == NameInv /\ \A p \in Updater : Staged(p)

\* A step of its own leaves p's staging schema as its next step expects it.
LEMMA OwnStaged ==
  ASSUME StagedInv, NEW p \in Updater, Own(p)
  PROVE  Staged(p)'
  <1> USE DEF Goto, GotoIf, Finally
  <1>1. /\ pc \in [Updater -> Step] /\ into \in [Updater -> Seq(Table)]
        /\ staging \in [Second -> Tables \union {None}]
        /\ run[p].stamp \in Second /\ run[p].src \in Source
        /\ Staged(p)
        /\ run' = run
    BY OwnFrame, RunFields DEF StagedInv, NameInv, TypeInv, TypeOK, ListsTyped
  <1>2. StagingOf(p)' = staging'[run[p].stamp]
    BY <1>1 DEF StagingOf
  <1>3. \A s \in Source : Loaded(s) # None /\ EmptyOrm # None /\ NoTables # None
    BY SchemasTyped, NoneAssumption
  <1>4. CASE CreateStaging(p)
    <2>1. staging'[run[p].stamp] = NoTables /\ pc'[p] = "tables"
      BY <1>1, <1>4 DEF CreateStaging, Staged, StagingOf
    <2>2. QED
      BY <1>2, <2>1 DEF Staged
  <1>5. CASE CreateTables(p)
    <2>1. StagingOf(p) = NoTables
      BY <1>1, <1>5 DEF CreateTables, Staged
    <2>2. [t \in Table |-> IF t \in Orm THEN {} ELSE NoTables[t]] = EmptyOrm
      BY DEF NoTables, EmptyOrm
    <2>3. \/ pc'[p] \in {"idle", "dropStaging"}
          \/ pc'[p] = "fill" /\ staging'[run[p].stamp] = EmptyOrm
      BY <1>1, <1>5, <2>1, <2>2 DEF CreateTables, StagingOf
    <2>4. QED
      BY <1>2, <2>3 DEF Staged
  <1>6. CASE Fill(p)
    <2> DEFINE s == run[p].src
    <2>1. StagingOf(p) = EmptyOrm
      BY <1>1, <1>6 DEF Fill, Staged
    <2>2. [t \in Table |-> IF t \notin CsvOf[s] THEN EmptyOrm[t]
                           ELSE IF EmptyOrm[t] = None THEN {s}
                           ELSE EmptyOrm[t] \union {s}] = Loaded(s)
      BY DEF Loaded, EmptyOrm
    <2>3. \/ pc'[p] \in {"idle", "dropStaging"}
          \/ pc'[p] = "check" /\ staging'[run[p].stamp] = Loaded(s)
      BY <1>1, <1>6, <2>1, <2>2 DEF Fill, StagingOf
    <2>4. QED
      BY <1>1, <1>2, <2>3 DEF Staged
  <1>7. CASE Check(p) \/ CheckLocks(p) \/ CreateBackup(p)
    <2>1. /\ pc[p] \in {"check", "locks", "mkbackup"}
          /\ staging' = staging
          /\ pc'[p] \in {"locks", "mkbackup", "list", "idle", "dropStaging"}
      BY <1>1, <1>7 DEF Check, CheckLocks, CreateBackup, schemas
    <2>2. QED
      BY <1>1, <1>2, <2>1 DEF Staged, StagingOf
  <1>8. CASE ListTables(p)
    <2>1. StagingOf(p) = Loaded(run[p].src)
      BY <1>1, <1>8 DEF ListTables, Staged
    <2>2. /\ staging' = staging /\ pc'[p] = "move"
          /\ into'[p] = Ordered(StagingOf(p), FALSE)
      BY <1>1, <1>8 DEF ListTables, schemas
    <2>3. ToSet(into'[p]) = TablesIn(Loaded(run[p].src))
      BY <2>1, <2>2, OrderedIs
    <2>4. Orm \subseteq TablesIn(Loaded(run[p].src))
      <3>1. \A r \in Rows : r # None
        BY NoneAssumption
      <3>2. \A t \in Orm : Loaded(run[p].src)[t] \in Rows /\ t \in Table
        BY <1>1 DEF Loaded, EmptyOrm, Rows, Table
      <3>3. QED
        BY <1>1, <1>3, <3>1, <3>2 DEF TablesIn
    <2>5. QED
      BY <1>1, <1>2, <2>1, <2>2, <2>3, <2>4 DEF Staged, StagingOf
  <1>9. CASE MoveOut(p)
    <2>1. /\ staging' = staging /\ pc[p] = "move"
          /\ \/ pc'[p] = "move" /\ into' = into
             \/ pc'[p] \in {"idle", "dropStaging"}
      BY <1>1, <1>9 DEF MoveOut, schemas
    <2>2. QED
      BY <1>1, <1>2, <2>1 DEF Staged, StagingOf
  <1>10. CASE LockTimeout(p) \/ Commit(p) \/ RollBack(p) \/ Raise(p) \/ ReplyLost(p)
    <2>1. pc'[p] \in {"idle", "dropStaging"}
      BY <1>1, <1>10 DEF LockTimeout, Commit, RollBack, Raise, ReplyLost
    <2>2. QED
      BY <2>1 DEF Staged
  <1>11. CASE \/ DropStaging(p) \/ DropBackup(p) \/ DropFails(p)
              \/ Interrupt(p) \/ Crash(p)
    <2>1. pc'[p] \in {"idle", "dropStaging", "dropBackup"}
      BY <1>1, <1>11 DEF DropStaging, DropBackup, DropFails, Interrupt, Crash
    <2>2. QED
      BY <2>1 DEF Staged
  <1>12. QED
    BY <1>4, <1>5, <1>6, <1>7, <1>8, <1>9, <1>10, <1>11 DEF Own, Advance

\* A step of p's process changes nothing that another process's run has.
LEMMA OthersUntouched ==
  ASSUME NameInv, NEW p \in Updater, Own(p), NEW q \in Updater, p # q
  PROVE  /\ pc'[q] = pc[q] /\ outcome'[q] = outcome[q] /\ run' = run
         /\ out'[q] = out[q] /\ into'[q] = into[q] /\ moved'[q] = moved[q]
         /\ run[q] # None => /\ StagingOf(q)' = StagingOf(q)
                             /\ BackupOf(q)' = BackupOf(q)
                             /\ run[q].stamp \in leaked' => run[q].stamp \in leaked
  <1>1. /\ pc'[q] = pc[q] /\ outcome'[q] = outcome[q] /\ run' = run
    BY OwnFrame DEF NameInv, TypeInv, TypeOK
  <1>2. /\ out'[q] = out[q] /\ into'[q] = into[q] /\ moved'[q] = moved[q]
    BY OwnLists, ZenonT(40) DEF NameInv, TypeInv, ListsTyped, lists, ListTables, EndSwap
  <1>3. ASSUME run[q] # None
        PROVE  /\ StagingOf(q)' = StagingOf(q)
               /\ BackupOf(q)' = BackupOf(q)
               /\ run[q].stamp \in leaked' => run[q].stamp \in leaked
    <2>1. run[p] # None /\ run[p].stamp # run[q].stamp /\ run[q].stamp \in Second
      BY <1>3, OwnFrame
         DEF NameInv, TypeInv, TypeOK, RunKnown, StampsDiffer, Run
    <2>2. QED
      BY <2>1, OwnFrame DEF NameInv, StagingOf, BackupOf
  <1>4. QED
    BY <1>1, <1>2, <1>3

LEMMA InitStagedInv == Init => StagedInv
  BY InitNameInv DEF Init, StagedInv, Staged

LEMMA StepStagedInv ==
  ASSUME ~SameSecond, StagedInv, [Next]_vars
  PROVE  StagedInv'
  <1>0. NameInv'
    BY StepNameInv DEF StagedInv
  <1>1. ASSUME NEW p \in Updater, Own(p), NEW q \in Updater PROVE Staged(q)'
    <2>1. CASE q = p
      BY <1>1, <2>1, OwnStaged
    <2>2. CASE q # p
      <3>1. pc[q] # "idle" => run[q] # None
        BY DEF StagedInv, NameInv, TypeInv, RunKnown
      <3>2. /\ pc'[q] = pc[q] /\ into'[q] = into[q] /\ run' = run
            /\ run[q] # None => StagingOf(q)' = StagingOf(q)
        BY <1>1, <2>2, OthersUntouched DEF StagedInv
      <3>3. QED
        BY <3>1, <3>2 DEF StagedInv, Staged
    <2>3. QED
      BY <2>1, <2>2
  <1>2. ASSUME NEW p \in Updater, Begin(p), NEW q \in Updater PROVE Staged(q)'
    <2>1. PICK t \in Second, s \in Source, o \in Option :
            /\ t = clock + 1
            /\ run' = [run EXCEPT ![p] = [stamp |-> t, src |-> s, opt |-> o]]
      BY <1>2 DEF Begin, StagedInv
    <2>2. staging' = staging /\ into' = into /\ pc' = [pc EXCEPT ![p] = "schema"]
      BY <1>2 DEF Begin, schemas, lists, Goto
    <2>3. CASE q = p
      <3>1. staging[t] = None
        BY <2>1, BoundAssumption
           DEF StagedInv, NameInv, FutureIsFree, TypeInv, TypeOK, Second
      <3>2. QED
        BY <2>1, <2>2, <2>3, <3>1
           DEF Staged, StagingOf, StagedInv, NameInv, TypeInv, TypeOK
    <2>4. CASE q # p
      BY <2>1, <2>2, <2>4
         DEF Staged, StagingOf, StagedInv, NameInv, TypeInv, TypeOK
    <2>5. QED
      BY <2>3, <2>4
  <1>3. ASSUME UNCHANGED <<staging, pc, run, into>>, NEW q \in Updater
        PROVE  Staged(q)'
    BY <1>3, SMTT(30) DEF StagedInv, Staged, StagingOf
  <1>4. QED
    BY <1>0, <1>1, <1>2, <1>3
       DEF StagedInv, Next, Own, Rest, Read, EndRead, vars, schemas, lists

-----------------------------------------------------------------------------
(***************************************************************************)
(* What is committed, and what readers see of it.                          *)
(***************************************************************************)

\* The active schema changes in a swap only.
LEMMA HowActiveChanges ==
  ASSUME TypeInv, NEW p \in Updater, Own(p)
  PROVE  \/ UNCHANGED active
         \/ /\ pc[p] = "move" /\ moved[p] = Len(out[p])
            /\ CanMoveIn(p) /\ CanMoveOut(p) /\ SwapEffect(p) /\ EndSwap(p)
  BY DEF Own, Advance, CreateStaging, CreateTables, Fill, Check, CheckLocks,
         CreateBackup, ListTables, MoveOut, LockTimeout, Commit, RollBack,
         DropStaging, DropBackup, Raise, DropFails, ReplyLost, Interrupt,
         Crash, schemas

\* What a swap puts in place is the load of the run's source: all tables of the
\* ORM are in its staging schema, were listed there, and hold its rows only.
LEMMA SwapIsLoad ==
  ASSUME StagedInv, NEW p \in Updater, pc[p] = "move", SwapEffect(p)
  PROVE  run[p].src \in Source /\ LoadedFrom(run[p].src, active', Orm)
  <1>1. run[p].src \in Source
    BY RunFields DEF StagedInv, NameInv
  <1>2. StagingOf(p) = Loaded(run[p].src) /\ Orm \subseteq ToSet(into[p])
    BY DEF StagedInv, Staged
  <1>3. \A t \in Orm : t \in Table /\ active'[t] = Loaded(run[p].src)[t]
    BY <1>2 DEF SwapEffect, SwappedActive, Table
  <1>4. QED
    BY <1>1, <1>3 DEF LoadedFrom

\* When no two updates start in the same second, whatever the updates that race
\* listed, and whatever fails, each change of the active schema makes it the
\* complete load of one source, as far as the tables of the ORM go.
THEOREM SwapIsWhole ==
  ASSUME ~SameSecond
  PROVE  Spec => ActiveChangesWhole
  <1> DEFINE Change ==
        active' # active => \E s \in Source : LoadedFrom(s, active', Orm)
  <1>1. StagedInv /\ [Next]_vars => [Change]_vars
    <2> SUFFICES ASSUME StagedInv, [Next]_vars, active' # active
                 PROVE  \E s \in Source : LoadedFrom(s, active', Orm)
      OBVIOUS
    <2>1. PICK p \in Updater : Own(p)
      BY DEF Next, Own, Rest, Begin, Read, EndRead, vars, schemas
    <2>2. pc[p] = "move" /\ SwapEffect(p)
      BY <2>1, HowActiveChanges DEF StagedInv, NameInv
    <2>3. QED
      BY <2>2, SwapIsLoad
  <1>2. StagedInv /\ [Next]_vars => StagedInv'
    BY StepStagedInv
  <1>3. QED
    BY <1>1, <1>2, InitStagedInv, PTL DEF Spec, ActiveChangesWhole

\* What a reader's transaction has read is still there, and locked against the
\* updaters.
ReadInv ==
  \A r \in Reader, t \in Table : seen[r][t] # None =>
     /\ seen[r][t] = active[t]
     /\ \A p \in Updater : t \notin Held(p)

\* The tables of the ORM are those of one load, or have not been there yet.
ActiveInv ==
  \E s \in Source : \/ LoadedFrom(s, active, Orm)
                    \/ \A t \in Orm : active[t] = None

ReaderInv == StagedInv /\ ReadInv /\ ActiveInv

\* The locks of other processes stay, and those of p grow by a table that no
\* reader has locked.
LEMMA OwnHeld ==
  ASSUME NameInv, NEW p \in Updater, Own(p), NEW q \in Updater,
         NEW t \in Held(q)'
  PROVE  t \in Held(q) \/ \A r \in Reader : seen[r][t] = None
  <1> USE DEF NameInv, TypeInv, TypeOK, ListsTyped
  <1>1. CASE q # p
    BY <1>1, OthersUntouched DEF Held
  <1>2. CASE q = p
    <2>1. CASE UNCHANGED lists
      BY <1>2, <2>1 DEF Held, lists
    <2>2. CASE ListTables(p) \/ EndSwap(p)
      <3>1. moved'[p] = 0
        BY <2>2 DEF ListTables, EndSwap
      <3>2. QED
        BY <1>2, <3>1 DEF Held
    <2>3. CASE /\ moved[p] < Len(out[p])
               /\ ~Blocked(p, out[p][moved[p] + 1])
               /\ UNCHANGED <<out, into>>
               /\ moved' = [moved EXCEPT ![p] = @ + 1]
      <3>1. moved'[p] = moved[p] + 1 /\ moved[p] \in Nat /\ out' = out
        BY <2>3
      <3>2. PICK i \in 1..(moved[p] + 1) : t = out[p][i]
        BY <1>2, <3>1 DEF Held
      <3>3. CASE i \in 1..moved[p]
        BY <1>2, <3>2, <3>3 DEF Held
      <3>4. CASE i = moved[p] + 1
        BY <2>3, <3>2, <3>4 DEF Blocked
      <3>5. QED
        BY <3>1, <3>3, <3>4
    <2>4. QED
      BY <2>1, <2>2, <2>3, OwnLists
  <1>3. QED
    BY <1>1, <1>2

\* When p commits, it holds every active table that it replaces.
LEMMA SwapHolds ==
  ASSUME StagedInv, NEW p \in Updater, pc[p] = "move", moved[p] = Len(out[p]),
         CanMoveIn(p), SwapEffect(p),
         NEW t \in Table, active[t] # None, t \notin Held(p)
  PROVE  active'[t] = active[t] /\ t \notin Orm
  <1>1. out[p] \in Seq(Table)
    BY DEF StagedInv, NameInv, TypeInv, ListsTyped
  <1>2. Held(p) = ToSet(out[p])
    BY <1>1 DEF Held, ToSet
  <1>3. t \notin ToSet(out[p]) /\ t \notin ToSet(into[p])
    BY <1>2 DEF CanMoveIn
  <1>4. active'[t] = active[t]
    BY <1>3 DEF SwapEffect, SwappedActive
  <1>5. t \notin Orm
    BY <1>3 DEF StagedInv, Staged
  <1>6. QED
    BY <1>4, <1>5

LEMMA InitReaderInv == Init => ReaderInv
  <1> SUFFICES ASSUME Init PROVE ReaderInv
    OBVIOUS
  <1>1. ReadInv
    BY DEF Init, ReadInv, NoTables
  <1>2. ActiveInv
    <2>1. \A t \in Orm : t \in Table
      BY DEF Table
    <2>2. QED
      BY <2>1, TableAssumption DEF Init, ActiveInv, NoTables, LoadedFrom
  <1>3. QED
    BY <1>1, <1>2, InitStagedInv DEF ReaderInv

LEMMA StepReaderInv ==
  ASSUME ~SameSecond, ReaderInv, [Next]_vars
  PROVE  ReaderInv'
  <1>0. StagedInv'
    BY StepStagedInv DEF ReaderInv
  <1> USE DEF ReaderInv
  <1>1. ASSUME NEW p \in Updater, Own(p) PROVE ReadInv' /\ ActiveInv'
    <2>1. UNCHANGED seen
      BY <1>1, OwnFrame DEF StagedInv, NameInv
    <2>2. \/ UNCHANGED active
          \/ /\ pc[p] = "move" /\ moved[p] = Len(out[p])
             /\ CanMoveIn(p) /\ SwapEffect(p)
      BY <1>1, HowActiveChanges DEF StagedInv, NameInv
    <2>3. ReadInv'
      <3> SUFFICES ASSUME NEW r \in Reader, NEW t \in Table, seen[r][t] # None
                   PROVE  /\ seen[r][t] = active'[t]
                          /\ \A q \in Updater : t \notin Held(q)'
        BY <2>1 DEF ReadInv
      <3>1. /\ seen[r][t] = active[t]
            /\ \A q \in Updater : t \notin Held(q)
        BY DEF ReadInv
      <3>2. active'[t] = active[t]
        BY <2>2, <3>1, SwapHolds
      <3>3. \A q \in Updater : t \notin Held(q)'
        BY <1>1, <3>1, OwnHeld DEF StagedInv
      <3>4. QED
        BY <3>1, <3>2, <3>3
    <2>4. ActiveInv'
      BY <2>2, SwapIsLoad DEF ActiveInv, LoadedFrom
    <2>5. QED
      BY <2>3, <2>4
  <1>2. ASSUME NEW r \in Reader, NEW t \in Table, Read(r, t)
        PROVE  ReadInv' /\ ActiveInv'
    <2>1. /\ UNCHANGED <<active, out, moved>>
          /\ active[t] # None /\ \A p \in Updater : t \notin Held(p)
          /\ seen' = [seen EXCEPT ![r][t] = active[t]]
      BY <1>2 DEF Read, schemas, lists
    <2>2. seen \in [Reader -> [Table -> Rows \union {None}]]
      BY DEF StagedInv, NameInv, TypeInv, TypeOK, Tables
    <2>3. ReadInv'
      BY <2>1, <2>2 DEF ReadInv, Held
    <2>4. ActiveInv'
      BY <2>1 DEF ActiveInv, LoadedFrom
    <2>5. QED
      BY <2>3, <2>4
  <1>3. ASSUME NEW r \in Reader, EndRead(r) PROVE ReadInv' /\ ActiveInv'
    <2>1. UNCHANGED <<active, out, moved>> /\ seen' = [seen EXCEPT ![r] = NoTables]
      BY <1>3 DEF EndRead, schemas, lists
    <2>2. seen \in [Reader -> Tables]
      BY DEF StagedInv, NameInv, TypeInv, TypeOK
    <2>3. QED
      BY <2>1, <2>2 DEF ReadInv, ActiveInv, LoadedFrom, Held, NoTables
  <1>4. CASE UNCHANGED <<active, seen, out, moved>>
    BY <1>0, <1>4 DEF ReadInv, ActiveInv, LoadedFrom, Held
  <1>5. QED
    BY <1>0, <1>1, <1>2, <1>3, <1>4
       DEF Next, Own, Rest, Begin, vars, schemas, lists, noted

\* When no two updates start in the same second, a transaction that reads
\* several tables of the ORM reads them all from one load: its locks keep an
\* update from replacing any, since an update replaces them all.
THEOREM ReadersAreConsistent ==
  ASSUME ~SameSecond
  PROVE  Spec => []ReadersSeeOneLoad
  <1>1. ReaderInv /\ [Next]_vars => ReaderInv'
    BY StepReaderInv
  <1>2. ReaderInv => ReadersSeeOneLoad
    <2> SUFFICES ASSUME ReaderInv, NEW r \in Reader
                 PROVE  \E s \in Source :
                          LoadedFrom(s, seen[r], {t \in Orm : seen[r][t] # None})
      BY DEF ReadersSeeOneLoad
    <2>1. PICK s \in Source : \/ LoadedFrom(s, active, Orm)
                              \/ \A t \in Orm : active[t] = None
      BY DEF ReaderInv, ActiveInv
    <2>2. \A t \in Orm : seen[r][t] # None => seen[r][t] = active[t]
      BY DEF ReaderInv, ReadInv, Table
    <2>3. QED
      BY <2>1, <2>2 DEF LoadedFrom
  <1>3. QED
    BY <1>1, <1>2, InitReaderInv, PTL DEF Spec

-----------------------------------------------------------------------------
(***************************************************************************)
(* What the `finally` clause leaves.                                       *)
(***************************************************************************)

\* p's run is to drop its schemas, and nothing has kept it from that.
Drops(p) == ~run[p].opt.keep /\ run[p].stamp \notin leaked

\* The staging schema is dropped first; a run that has returned has dropped both.
Dropped(p) ==
  /\ (pc[p] = "dropBackup" /\ Drops(p)) => StagingOf(p) = None
  /\ (pc[p] = "idle" /\ outcome[p] \in {"ok", "failed"} /\ Drops(p)) =>
        run[p] # None /\ StagingOf(p) = None /\ BackupOf(p) = None

DroppedInv == NameInv /\ \A p \in Updater : Dropped(p)

LEMMA OwnDropped ==
  ASSUME DroppedInv, NEW p \in Updater, Own(p)
  PROVE  Dropped(p)'
  <1> USE DEF DroppedInv, NameInv, TypeInv, TypeOK, Goto, GotoIf, Drops
  <1>1. /\ pc[p] # "idle" /\ run' = run /\ run[p] # None
        /\ run[p].stamp \in Second /\ leaked \subseteq leaked'
    BY OwnFrame, RunFields DEF RunKnown
  <1>2. CASE DropStaging(p)
    <2>1. /\ pc'[p] = "dropBackup" /\ staging'[run[p].stamp] = None
      BY <1>1, <1>2 DEF DropStaging
    <2>2. QED
      BY <1>1, <2>1 DEF Dropped, StagingOf
  <1>3. CASE DropBackup(p)
    <2>1. /\ pc[p] = "dropBackup" /\ pc'[p] = "idle" /\ staging' = staging
          /\ backup'[run[p].stamp] = None
      BY <1>1, <1>3 DEF DropBackup
    <2>2. QED
      BY <1>1, <2>1 DEF Dropped, StagingOf, BackupOf
  <1>4. CASE DropFails(p)
    <2>1. run[p].stamp \in leaked'
      BY <1>4 DEF DropFails
    <2>2. QED
      BY <1>1, <2>1 DEF Dropped
  <1>5. CASE Interrupt(p) \/ Crash(p)
    <2>1. outcome'[p] \in {"late", "interrupted", "crashed"}
      BY <1>5 DEF Interrupt, Crash, Ended
    <2>2. pc'[p] \in {"idle", "dropStaging"}
      BY <1>5 DEF Interrupt, Crash, Finally
    <2>3. QED
      BY <2>1, <2>2 DEF Dropped
  <1>6. ASSUME \/ pc'[p] \notin {"idle", "dropBackup"}
               \/ pc'[p] = Finally(p)
        PROVE  Dropped(p)'
    BY <1>1, <1>6 DEF Dropped, Finally
  <1>7. CASE CreateStaging(p) \/ CreateTables(p) \/ Fill(p) \/ Check(p)
    BY <1>6, <1>7 DEF CreateStaging, CreateTables, Fill, Check
  <1>8. CASE CheckLocks(p) \/ CreateBackup(p) \/ ListTables(p) \/ MoveOut(p)
    BY <1>6, <1>8 DEF CheckLocks, CreateBackup, ListTables, MoveOut
  <1>9. CASE \/ LockTimeout(p) \/ Commit(p) \/ RollBack(p) \/ Raise(p)
             \/ ReplyLost(p)
    BY <1>6, <1>9 DEF LockTimeout, Commit, RollBack, Raise, ReplyLost
  <1>10. QED
    BY <1>2, <1>3, <1>4, <1>5, <1>7, <1>8, <1>9 DEF Own, Advance

LEMMA StepDroppedInv ==
  ASSUME ~SameSecond, DroppedInv, [Next]_vars
  PROVE  DroppedInv'
  <1>0. NameInv'
    BY StepNameInv DEF DroppedInv
  <1>1. ASSUME NEW p \in Updater, Own(p), NEW q \in Updater PROVE Dropped(q)'
    <2>1. CASE q = p
      BY <1>1, <2>1, OwnDropped
    <2>2. CASE q # p
      <3>1. pc[q] # "idle" => run[q] # None
        BY DEF DroppedInv, NameInv, TypeInv, RunKnown
      <3>2. /\ pc'[q] = pc[q] /\ outcome'[q] = outcome[q] /\ run' = run
            /\ run[q] # None => /\ StagingOf(q)' = StagingOf(q)
                                /\ BackupOf(q)' = BackupOf(q)
        BY <1>1, <2>2, OthersUntouched DEF DroppedInv
      <3>3. leaked \subseteq leaked'
        BY <1>1, OwnFrame DEF DroppedInv, NameInv
      <3>4. QED
        BY <3>1, <3>2, <3>3 DEF DroppedInv, Dropped, Drops
    <2>3. QED
      BY <2>1, <2>2
  <1>2. ASSUME NEW p \in Updater, Begin(p), NEW q \in Updater PROVE Dropped(q)'
    <2>1. /\ UNCHANGED <<staging, backup, leaked>>
          /\ pc' = [pc EXCEPT ![p] = "schema"]
          /\ outcome' = [outcome EXCEPT ![p] = "pending"]
          /\ \A u \in Updater \ {p} : run'[u] = run[u]
      BY <1>2 DEF Begin, schemas, noted, Goto, DroppedInv, NameInv, TypeInv, TypeOK
    <2>2. QED
      BY <2>1 DEF Dropped, Drops, StagingOf, BackupOf, DroppedInv, NameInv,
                  TypeInv, TypeOK
  <1>3. ASSUME UNCHANGED <<staging, backup, pc, run, outcome, leaked>>,
               NEW q \in Updater
        PROVE  Dropped(q)'
    BY <1>3 DEF DroppedInv, Dropped, Drops, StagingOf, BackupOf
  <1>4. QED
    BY <1>0, <1>1, <1>2, <1>3
       DEF DroppedInv, Next, Own, Rest, Read, EndRead, vars, schemas, lists

\* When no two updates start in the same second, an update that returns has
\* dropped its staging and its backup schema, unless it was told to keep them or
\* the drop failed silently.
THEOREM SchemasAreDropped ==
  ASSUME ~SameSecond
  PROVE  Spec => []NoSchemaLeft
  <1>1. DroppedInv /\ [Next]_vars => DroppedInv'
    BY StepDroppedInv
  <1>2. DroppedInv => NoSchemaLeft
    BY DEF DroppedInv, Dropped, Drops, NoSchemaLeft
  <1>3. Init => DroppedInv
    BY InitNameInv DEF Init, DroppedInv, Dropped
  <1>4. QED
    BY <1>1, <1>2, <1>3, PTL DEF Spec

-----------------------------------------------------------------------------
(***************************************************************************)
(* What keep_staging keeps.                                                *)
(***************************************************************************)

\* What the swap in the second s has replaced is all in the backup schema.
Whole(s) ==
  /\ backup[s] # None
  /\ \A u \in Table : kept[s][u] # None => backup[s][u] = kept[s][u]

\* A run that keeps its schemas ends with its swap, so that nobody who is
\* running has their name.
KeptInv ==
  \A s \in Second : kept[s] # None =>
     /\ s <= clock
     /\ \A p \in Updater : pc[p] # "idle" => run[p].stamp # s
     /\ Whole(s)

KeepInv == StagedInv /\ KeptInv

\* What is kept changes in the swap of a run that is to keep its schemas only,
\* and that ends the run.
LEMMA HowKeptChanges ==
  ASSUME TypeInv, NEW p \in Updater, Own(p)
  PROVE  \/ UNCHANGED kept
         \/ /\ pc[p] = "move" /\ CanMoveIn(p) /\ CanMoveOut(p) /\ SwapEffect(p)
            /\ run[p].opt.keep => pc'[p] = "idle"
  <1>1. CASE Commit(p) \/ ReplyLost(p)
    BY <1>1 DEF Commit, ReplyLost, Goto, Finally, TypeInv, TypeOK
  <1>2. CASE ~(Commit(p) \/ ReplyLost(p))
    BY <1>2
       DEF Own, Advance, CreateStaging, CreateTables, Fill, Check, CheckLocks,
           CreateBackup, ListTables, MoveOut, LockTimeout, RollBack, DropStaging,
           DropBackup, Raise, DropFails, Interrupt, Crash, noted
  <1>3. QED
    BY <1>1, <1>2

\* A table that the swap replaces bears a name that comes in, as every table of
\* the ORM does, or has been listed; one whose name comes in and that is there
\* has been listed too, and what has been listed goes to the backup schema.
LEMMA SwapBacksUp ==
  ASSUME StagedInv, NEW p \in Updater, pc[p] = "move",
         CanMoveIn(p), CanMoveOut(p), SwapEffect(p),
         NEW u \in Table, Replaced[u] # None
  PROVE  backup'[run[p].stamp][u] = Replaced[u]
  <1>1. run[p].stamp \in Second
    BY RunFields DEF StagedInv, NameInv
  <1>2. active[u] # None /\ Replaced[u] = active[u]
        /\ (u \in Orm \/ active'[u] # active[u])
    BY DEF Replaced
  <1>3. u \in ToSet(into[p]) \/ u \in ToSet(out[p])
    <2>1. CASE u \in Orm
      BY <2>1 DEF StagedInv, Staged
    <2>2. CASE active'[u] # active[u]
      BY <2>2 DEF SwapEffect, SwappedActive
    <2>3. QED
      BY <1>2, <2>1, <2>2
  <1>4. u \in ToSet(out[p])
    BY <1>2, <1>3 DEF CanMoveIn
  <1>5. backup'[run[p].stamp][u] = active[u]
    BY <1>1, <1>4 DEF SwapEffect, StagedInv, NameInv, TypeInv, TypeOK
  <1>6. QED
    BY <1>2, <1>5

LEMMA StepKeepInv ==
  ASSUME ~SameSecond, KeepInv, [Next]_vars
  PROVE  KeepInv'
  <1>0. StagedInv' /\ StagedInv /\ NameInv /\ TypeInv
    BY StepStagedInv DEF KeepInv, StagedInv, NameInv
  <1>1. clock \in Nat /\ \A t \in Second : t \in Nat
    BY <1>0, BoundAssumption DEF TypeInv, TypeOK, Second
  <1>2. ASSUME NEW p \in Updater, Own(p) PROVE KeptInv'
    <2> SUFFICES ASSUME NEW s \in Second, kept'[s] # None
                 PROVE  /\ s <= clock'
                        /\ \A q \in Updater : pc'[q] # "idle" => run'[q].stamp # s
                        /\ Whole(s)'
      BY DEF KeptInv
    <2>1. /\ pc[p] # "idle" /\ run[p] # None /\ run[p].stamp \in Second
          /\ UNCHANGED <<clock, run>>
          /\ \A q \in Updater \ {p} : pc'[q] = pc[q]
          /\ \A t \in Second \ {run[p].stamp} : backup'[t] = backup[t]
      BY <1>0, <1>2, OwnFrame, RunFields DEF TypeInv, TypeOK, RunKnown
    <2>2. CASE kept'[s] = kept[s]
      <3>1. /\ s <= clock /\ Whole(s)
            /\ \A q \in Updater : pc[q] # "idle" => run[q].stamp # s
        BY <2>2 DEF KeepInv, KeptInv
      <3>2. s # run[p].stamp
        BY <2>1, <3>1
      <3>3. backup'[s] = backup[s]
        BY <2>1, <3>2
      <3>4. QED
        BY <2>1, <2>2, <3>1, <3>2, <3>3 DEF Whole
    <2>3. CASE kept'[s] # kept[s]
      <3>1. /\ pc[p] = "move" /\ CanMoveIn(p) /\ CanMoveOut(p) /\ SwapEffect(p)
            /\ run[p].opt.keep => pc'[p] = "idle"
        BY <1>0, <1>2, <2>3, HowKeptChanges
      <3>2. /\ s = run[p].stamp /\ run[p].opt.keep
            /\ kept'[s] = Replaced
        <4> HIDE DEF Replaced
        <4>1. kept' = [kept EXCEPT ![run[p].stamp] =
                         IF run[p].opt.keep THEN Replaced ELSE @]
          BY <3>1 DEF SwapEffect, NoteReplaced
        <4>2. QED
          BY <1>0, <2>3, <4>1 DEF TypeInv, TypeOK
      <3>3. s <= clock
        BY <1>0, <2>1, <3>2 DEF NameInv, StampsDiffer
      <3>4. \A q \in Updater : pc'[q] # "idle" => run'[q].stamp # s
        <4>1. \A q \in Updater \ {p} : pc[q] # "idle" => run[q].stamp # run[p].stamp
          BY <1>0, <2>1 DEF NameInv, StampsDiffer, TypeInv, RunKnown
        <4>2. QED
          BY <2>1, <3>1, <3>2, <4>1
      <3>5. backup'[s] # None
        <4>1. backup' \in [Second -> Tables \union {None}]
          BY <1>0 DEF StagedInv, NameInv, TypeInv, TypeOK
        <4> DEFINE to == [t \in Table |-> IF t \in ToSet(out[p]) THEN active[t]
                                          ELSE BackupOf(p)[t]]
        <4>2. BackupOf(p) \in Tables
          BY <1>0, <2>1, <3>1, RunFields DEF CanMoveOut
        <4>3. to \in Tables
          BY <1>0, <4>2 DEF Tables, TypeInv, TypeOK
        <4>4. backup' = [backup EXCEPT ![run[p].stamp] = to]
          BY <3>1 DEF SwapEffect, BackupOf
        <4> HIDE DEF to
        <4>5. QED
          BY <1>0, <2>1, <3>2, <4>3, <4>4, NoneAssumption DEF TypeInv, TypeOK
      <3>6. \A u \in Table : kept'[s][u] # None => backup'[s][u] = kept'[s][u]
        <4> SUFFICES ASSUME NEW u \in Table, Replaced[u] # None
                     PROVE  backup'[s][u] = Replaced[u]
          BY <3>2
        <4>1. QED
          BY <1>0, <3>1, <3>2, SwapBacksUp
      <3>7. QED
        BY <2>1, <3>3, <3>4, <3>5, <3>6 DEF Whole
    <2>4. QED
      BY <2>2, <2>3
  <1>3. ASSUME NEW p \in Updater, Begin(p) PROVE KeptInv'
    <2>1. PICK t \in Second, from \in Source, o \in Option :
            /\ t = clock + 1
            /\ clock' = t
            /\ run' = [run EXCEPT ![p] = [stamp |-> t, src |-> from, opt |-> o]]
      BY <1>3 DEF Begin
    <2>2. /\ UNCHANGED <<kept, backup>>
          /\ pc' = [pc EXCEPT ![p] = "schema"]
      BY <1>3 DEF Begin, schemas, noted, Goto
    <2>3. /\ run'[p].stamp = clock + 1
          /\ \A q \in Updater \ {p} : run'[q] = run[q] /\ pc'[q] = pc[q]
      BY <1>0, <2>1, <2>2 DEF TypeInv, TypeOK
    <2> SUFFICES ASSUME NEW s \in Second, kept[s] # None
                 PROVE  /\ s <= clock'
                        /\ \A q \in Updater : pc'[q] # "idle" => run'[q].stamp # s
                        /\ Whole(s)'
      BY <2>2 DEF KeptInv
    <2>4. /\ s <= clock /\ Whole(s)
          /\ \A q \in Updater : pc[q] # "idle" => run[q].stamp # s
      BY DEF KeepInv, KeptInv
    <2>5. s <= clock' /\ s # clock + 1
      <3>1. s \in Nat /\ s <= clock /\ clock' = clock + 1
        BY <1>1, <2>1, <2>4
      <3>2. QED
        BY <1>1, <3>1
    <2>6. Whole(s)'
      BY <2>2, <2>4 DEF Whole
    <2>7. QED
      BY <2>3, <2>4, <2>5, <2>6
  <1>4. CASE UNCHANGED <<kept, backup, clock, pc, run>>
    BY <1>0, <1>4 DEF KeepInv, KeptInv, Whole
  <1>5. QED
    BY <1>0, <1>2, <1>3, <1>4
       DEF KeepInv, Next, Own, Rest, Read, EndRead, vars, schemas

\* When no two updates start in the same second, what the swap of an update with
\* keep_staging has replaced stays in its backup schema for ever, whatever it
\* races with and whatever fails: such an update ends with its swap, and no other
\* has the name of its schemas.
THEOREM KeptStaysComplete ==
  ASSUME ~SameSecond
  PROVE  Spec => []KeptIsComplete
  <1>1. KeepInv /\ [Next]_vars => KeepInv'
    BY StepKeepInv
  <1>2. KeepInv => KeptIsComplete
    BY DEF KeepInv, KeptInv, Whole, KeptIsComplete
  <1>3. Init => KeepInv
    BY InitStagedInv DEF Init, KeepInv, KeptInv
  <1>4. QED
    BY <1>1, <1>2, <1>3, PTL DEF Spec
==============================================================================
