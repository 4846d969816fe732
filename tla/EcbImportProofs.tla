-------------------------- MODULE EcbImportProofs --------------------------
(***************************************************************************)
(* What holds of the imports, for any files, databases, releases and       *)
(* number of imports, and any errors: what a successful one has persisted, *)
(* what its IDs are, whose its preconditions are, and that a repeated one  *)
(* adds nothing.                                                           *)
(***************************************************************************)
EXTENDS EcbImport, ReleaseWindowProofs

\* Records with the fields of an import, and with those of a database.
ImportFields ==
  {"phase", "runs", "file", "i", "work", "next", "op", "cache", "seen", "vid",
   "releases", "found", "made", "created", "lost", "outcome"}
IsImport(x) == x = [f \in ImportFields |-> x[f]]
DatabaseFields == {"org", "ops", "versions", "nodes", "scopes"}
IsDatabase(d) == d = [f \in DatabaseFields |-> d[f]]
NextFields == {"op", "vid", "scope"}
IsNext(n) == n = [f \in NextFields |-> n[f]]

\* Do two databases have the same rows?
SameRows(d, e) ==
  d.ops = e.ops /\ d.versions = e.versions /\ d.nodes = e.nodes
  /\ d.scopes = e.scopes

BeforeRows == {"organisation", "floors", "operations"}
OfRow == {"row", "references", "scopes"}

\* The shape of an import, and what it is before its rows.
ShapeInv ==
  /\ IsImport(imp) /\ IsDatabase(db)
  /\ imp.phase \in Phases
  /\ imp.outcome = "ok" => imp.phase = "idle"
  /\ imp.phase # "idle" => IsDatabase(imp.work)
  /\ imp.phase \in {"operations"} \union OfRow => IsNext(imp.next)
  /\ imp.phase \in BeforeRows =>
       /\ SameRows(db, imp.work) /\ imp.made = NothingMade
       /\ imp.cache = <<>> /\ imp.seen = {} /\ imp.lost = FALSE
  /\ imp.phase = "organisation" => imp.work.org = db.org /\ imp.created = FALSE
  /\ imp.phase \in {"floors", "operations"} =>
       /\ imp.work.org = "ECB"
       /\ imp.created = (db.org = "none") /\ db.org # "other"

-----------------------------------------------------------------------------
\* What the actions do to the fields of an import

\* Nothing is committed, and the import goes on with its file.
GoesOn ==
  /\ IsImport(imp') /\ db' = db /\ whole' = whole
  /\ imp'.file = imp.file /\ imp'.created = imp.created
  /\ imp'.outcome = imp.outcome

LEMMA EndIs ==
  ASSUME NEW o
  PROVE  /\ IsImport(End(o))
         /\ End(o).phase = "idle" /\ End(o).outcome = o
         /\ End(o).made = imp.made /\ End(o).created = imp.created
  <1>1. IsImport(Idle) /\ Idle.phase = "idle"
    BY DEF Idle, IsImport, ImportFields
  <1>2. QED
    BY <1>1 DEF End, IsImport, ImportFields

LEMMA FlushDoes ==
  ASSUME NEW new, IsImport(new), Flush(new), ~Raise,
         new.file = imp.file, new.created = imp.created,
         new.outcome = imp.outcome
  PROVE  /\ GoesOn /\ KeysHold(imp'.work)
         /\ imp'.made = Plus(imp.made, Added(imp.work, new.work))
         /\ imp'.phase = new.phase /\ imp'.i = new.i /\ imp'.work = new.work
         /\ imp'.next = new.next /\ imp'.op = new.op
         /\ imp'.cache = new.cache /\ imp'.seen = new.seen
         /\ imp'.vid = new.vid /\ imp'.releases = new.releases
         /\ imp'.found = new.found /\ imp'.lost = new.lost
  <1>1. /\ KeysHold(new.work)
        /\ Continue([new EXCEPT
                       !.made = Plus(imp.made, Added(imp.work, new.work))])
    BY DEF Flush
  <1>2. QED
    BY <1>1 DEF Continue, GoesOn, IsImport, ImportFields

LEMMA StartDoes ==
  ASSUME NEW file, Start(file)
  PROVE  /\ IsImport(imp') /\ db' = db /\ whole' = whole
         /\ imp.phase = "idle"
         /\ imp'.phase = "organisation" /\ imp'.file = file /\ imp'.work = db
         /\ imp'.made = NothingMade /\ imp'.cache = <<>> /\ imp'.seen = {}
         /\ imp'.created = FALSE /\ imp'.lost = FALSE /\ imp'.outcome = None
  BY DEF Start, Continue, Idle, IsImport, ImportFields

LEMMA OrganisationDoes ==
  ASSUME ShapeInv, Organisation, ~Raise
  PROVE  /\ IsImport(imp') /\ db' = db /\ whole' = whole
         /\ imp.phase = "organisation" /\ imp.work.org # "other"
         /\ imp'.phase = "floors" /\ IsDatabase(imp'.work)
         /\ SameRows(imp'.work, imp.work) /\ imp'.work.org = "ECB"
         /\ imp'.created = (imp.work.org = "none")
         /\ imp'.file = imp.file /\ imp'.outcome = imp.outcome
         /\ imp'.made = imp.made /\ imp'.cache = imp.cache
         /\ imp'.seen = imp.seen /\ imp'.lost = imp.lost
  <1>1. /\ imp.phase = "organisation" /\ imp.work.org # "other"
        /\ IsImport(imp) /\ IsDatabase(imp.work)
    BY DEF Organisation, ShapeInv
  <1>2. Continue([imp EXCEPT !.phase = "floors", !.work.org = "ECB",
                             !.created = imp.work.org = "none"])
    BY DEF Organisation
  <1>3. QED
    BY <1>1, <1>2
    DEF Continue, IsImport, ImportFields, IsDatabase, DatabaseFields, SameRows

LEMMA FloorsDo ==
  ASSUME ShapeInv, CheckFloors, ~Raise
  PROVE  LET w == imp.work
             native == {v \in Vids(w) : OwnerOf(w, v) = "native"}
         IN /\ GoesOn
            /\ imp.phase = "floors" /\ imp'.phase = "operations"
            /\ imp'.work = imp.work /\ imp'.made = imp.made
            /\ imp'.cache = imp.cache /\ imp'.seen = imp.seen
            /\ imp'.lost = imp.lost
            /\ imp'.next = [op |-> NextIntId(OpIds(w)),
                            vid |-> NextIntId(Vids(w)),
                            scope |-> NextIntId({s.id : s \in w.scopes})]
            /\ \A o \in w.ops : o.owner = "native" => o.id < Base
            /\ \A v \in native : v < Base
            /\ \A n \in w.nodes : n.vid \in native => n.id < Base
            /\ \A s \in w.scopes : s.vid \in native => s.id < Base
  <1> DEFINE w == imp.work
             native == {v \in Vids(w) : OwnerOf(w, v) = "native"}
             next == [op |-> NextIntId(OpIds(w)), vid |-> NextIntId(Vids(w)),
                      scope |-> NextIntId({s.id : s \in w.scopes})]
  <1>1. imp.phase = "floors" /\ IsImport(imp)
    BY DEF CheckFloors, ShapeInv
  <1>2. /\ MarginHolds(OpIds(w),
             {o.id : o \in {p \in w.ops : p.owner = "native"}})
        /\ MarginHolds(Vids(w), native)
        /\ MarginHolds({n.id : n \in w.nodes},
             {n.id : n \in {m \in w.nodes : m.vid \in native}})
        /\ MarginHolds({s.id : s \in w.scopes},
             {s.id : s \in {t \in w.scopes : t.vid \in native}})
    BY Zenon DEF CheckFloors
  <1>3. Continue([imp EXCEPT !.phase = "operations", !.next = next])
    BY <1>2, Zenon DEF CheckFloors
  <1>4. \A o \in w.ops : o.owner = "native" => o.id < Base
    BY <1>2 DEF MarginHolds
  <1>5. \A v \in native : v < Base
    BY <1>2 DEF MarginHolds
  <1>6. \A n \in w.nodes : n.vid \in native => n.id < Base
    BY <1>2 DEF MarginHolds
  <1>7. \A s \in w.scopes : s.vid \in native => s.id < Base
    BY <1>2 DEF MarginHolds
  <1> HIDE DEF next, native
  <1>8. /\ GoesOn /\ imp'.phase = "operations"
        /\ imp'.work = imp.work /\ imp'.made = imp.made
        /\ imp'.cache = imp.cache /\ imp'.seen = imp.seen
        /\ imp'.lost = imp.lost /\ imp'.next = next
    BY <1>1, <1>3 DEF Continue, GoesOn, IsImport, ImportFields
  <1>9. QED
    BY <1>1, <1>4, <1>5, <1>6, <1>7, <1>8, Zenon DEF next, native

LEMMA OperationsDo ==
  ASSUME ShapeInv, Operations, ~Raise
  PROVE  /\ GoesOn /\ KeysHold(imp'.work)
         /\ imp.phase = "operations"
         /\ imp'.phase = IF imp.file = <<>> THEN "commit" ELSE "row"
         /\ imp'.i = 1 /\ imp'.op = [c \in FileCodes |-> IdOfCode(c)]
         /\ imp'.work = [imp.work EXCEPT !.ops =
              {Grouped(o) : o \in imp.work.ops
                              \union {NewOperation(c) : c \in NewCodes}}]
         /\ imp'.next = [imp.next EXCEPT !.op = @ + Cardinality(NewCodes)]
         /\ imp'.made = Plus(imp.made, Added(imp.work, imp'.work))
         /\ imp'.cache = imp.cache /\ imp'.seen = imp.seen
         /\ imp'.lost = imp.lost
         /\ \A c \in FileCodes : AtMostOne({o \in Known : o.code = c})
  <1> DEFINE phase == IF imp.file = <<>> THEN "commit" ELSE "row"
             op == [c \in FileCodes |-> IdOfCode(c)]
             ops == {Grouped(o) : o \in imp.work.ops
                                   \union {NewOperation(c) : c \in NewCodes}}
             new == [imp EXCEPT !.phase = phase, !.i = 1, !.op = op,
                                !.work.ops = ops,
                                !.next.op = @ + Cardinality(NewCodes)]
  <1>1. /\ imp.phase = "operations" /\ IsImport(imp) /\ IsDatabase(imp.work)
        /\ IsNext(imp.next)
    BY DEF Operations, ShapeInv
  <1>2. \A c \in FileCodes : AtMostOne({o \in Known : o.code = c})
    BY Zenon DEF Operations
  <1>3. Flush(new)
    BY <1>2, Zenon DEF Operations
  <1> HIDE DEF phase, op, ops
  <1>4. /\ IsImport(new) /\ new.file = imp.file /\ new.created = imp.created
        /\ new.outcome = imp.outcome /\ new.phase = phase /\ new.i = 1
        /\ new.op = op /\ new.work = [imp.work EXCEPT !.ops = ops]
        /\ new.next = [imp.next EXCEPT !.op = @ + Cardinality(NewCodes)]
        /\ new.cache = imp.cache /\ new.seen = imp.seen /\ new.lost = imp.lost
    BY <1>1 DEF IsImport, ImportFields
  <1> HIDE DEF new
  <1>5. QED
    BY <1>1, <1>2, <1>3, <1>4, FlushDoes DEF phase, op, ops

\* What goes on with the next row, or with none.
AtNextRow ==
  /\ imp'.phase = IF imp.i = Len(imp.file) THEN "commit" ELSE "row"
  /\ imp'.i = imp.i + 1 /\ imp'.op = imp.op

LEMMA NextRowIs ==
  ASSUME NEW x, IsImport(x)
  PROVE  /\ IsImport(NextRow(x)) /\ NextRow(x).work = x.work
         /\ NextRow(x).phase = IF imp.i = Len(imp.file) THEN "commit" ELSE "row"
         /\ NextRow(x).i = x.i + 1
         /\ NextRow(x).file = x.file /\ NextRow(x).next = x.next
         /\ NextRow(x).op = x.op /\ NextRow(x).cache = x.cache
         /\ NextRow(x).seen = x.seen /\ NextRow(x).made = x.made
         /\ NextRow(x).created = x.created /\ NextRow(x).lost = x.lost
         /\ NextRow(x).outcome = x.outcome
  BY DEF NextRow, IsImport, ImportFields

LEMMA RowEndDoes ==
  ASSUME ShapeInv, Continue(NextRow(imp))
  PROVE  /\ GoesOn /\ AtNextRow
         /\ imp'.work = imp.work /\ imp'.next = imp.next
         /\ imp'.cache = imp.cache /\ imp'.seen = imp.seen
         /\ imp'.made = imp.made /\ imp'.lost = imp.lost
  BY NextRowIs DEF ShapeInv, Continue, GoesOn, AtNextRow

\* What the precondition of a row adds.
GateOpsMade(row) ==
  IF NeedsGate(row) /\ GateOps(row) = {}
  THEN {[id |-> GateOp(row), code |-> GateCode[row.gate],
         type |-> "precondition", owner |-> "ECB", group |-> None]}
  ELSE {}
GateVersionsMade(row) ==
  IF NeedsGate(row) /\ GateVersions(row) = {}
  THEN {NewVersion(GateVid(row), GateOp(row), row, None, None, row.gate)}
  ELSE {}
GateNext(row) ==
  [imp.next EXCEPT
     !.op = IF GateOpsMade(row) = {} THEN @ ELSE @ + 1,
     !.vid = IF GateVersionsMade(row) = {} THEN @ ELSE @ + 1]
GateCache(row) ==
  IF NeedsGate(row) THEN Cached(CacheKey(row), GateVid(row))
  ELSE imp.cache

LEMMA GateDoes ==
  ASSUME NEW row, IsImport(imp), IsDatabase(imp.work), IsNext(imp.next)
  PROVE  LET new == WithGate(row)
         IN /\ IsImport(new) /\ IsDatabase(new.work)
            /\ new.work = [imp.work EXCEPT
                             !.ops = @ \union GateOpsMade(row),
                             !.versions = @ \union GateVersionsMade(row)]
            /\ IsNext(new.next) /\ new.next = GateNext(row)
            /\ new.cache = GateCache(row)
            /\ new.phase = imp.phase /\ new.file = imp.file /\ new.i = imp.i
            /\ new.op = imp.op /\ new.seen = imp.seen /\ new.made = imp.made
            /\ new.created = imp.created /\ new.lost = imp.lost
            /\ new.outcome = imp.outcome
  <1> DEFINE new == WithGate(row)
             ops == GateOpsMade(row)
             versions == GateVersionsMade(row)
             nop == IF ops = {} THEN imp.next.op ELSE imp.next.op + 1
             nvid == IF versions = {} THEN imp.next.vid ELSE imp.next.vid + 1
  <1>1. CASE ~NeedsGate(row)
    <2>1. new = imp /\ ops = {} /\ versions = {} /\ GateCache(row) = imp.cache
      BY <1>1 DEF WithGate, GateOpsMade, GateVersionsMade, GateCache
    <2>2. GateNext(row) = imp.next
      BY <2>1 DEF GateNext, IsNext, NextFields
    <2>3. [imp.work EXCEPT !.ops = @ \union ops, !.versions = @ \union versions]
            = imp.work
      BY <2>1 DEF IsDatabase, DatabaseFields
    <2> HIDE DEF new, ops, versions
    <2>4. QED
      BY <2>1, <2>2, <2>3 DEF new, ops, versions
  <1>2. CASE NeedsGate(row)
    <2> DEFINE more == IF GateOps(row) # {} THEN imp.work.ops
                   ELSE imp.work.ops \union
                     {[id |-> GateOp(row), code |-> GateCode[row.gate],
                       type |-> "precondition", owner |-> "ECB", group |-> None]}
               later == IF GateVersions(row) # {} THEN imp.work.versions
                   ELSE imp.work.versions \union
                     {NewVersion(GateVid(row), GateOp(row), row, None, None,
                                 row.gate)}
               mop == IF GateOps(row) = {} THEN imp.next.op + 1 ELSE imp.next.op
               mvid == IF GateVersions(row) = {} THEN imp.next.vid + 1
                       ELSE imp.next.vid
               cache == Cached(CacheKey(row), GateVid(row))
    <2>1. new = [imp EXCEPT
                   !.work.ops = more, !.next.op = mop,
                   !.work.versions = later, !.next.vid = mvid, !.cache = cache]
      BY <1>2, Zenon DEF WithGate
    <2>2. more = imp.work.ops \union ops /\ mop = nop
      BY <1>2 DEF GateOpsMade
    <2>3. later = imp.work.versions \union versions /\ mvid = nvid
      BY <1>2 DEF GateVersionsMade
    <2>4. cache = GateCache(row)
      BY <1>2 DEF GateCache
    <2>5. GateNext(row) = [imp.next EXCEPT !.op = nop, !.vid = nvid]
      BY DEF GateNext, IsNext, NextFields
    <2> HIDE DEF more, later, mop, mvid, cache, new, nop, nvid, ops, versions
    <2>6. /\ IsImport(new)
          /\ new.work = [imp.work EXCEPT !.ops = more, !.versions = later]
          /\ new.next = [imp.next EXCEPT !.op = mop, !.vid = mvid]
          /\ new.cache = cache
          /\ new.phase = imp.phase /\ new.file = imp.file /\ new.i = imp.i
          /\ new.op = imp.op /\ new.seen = imp.seen /\ new.made = imp.made
          /\ new.created = imp.created /\ new.lost = imp.lost
          /\ new.outcome = imp.outcome
      BY <2>1 DEF IsImport, ImportFields, IsDatabase, DatabaseFields, IsNext,
                  NextFields
    <2>7. IsDatabase(new.work) /\ IsNext(new.next)
      BY <2>6 DEF IsDatabase, DatabaseFields, IsNext, NextFields
    <2>8. new.work = [imp.work EXCEPT !.ops = @ \union ops,
                                      !.versions = @ \union versions]
      BY <2>2, <2>3, <2>6
    <2>9. new.next = GateNext(row)
      BY <2>2, <2>3, <2>5, <2>6
    <2>10. QED
      BY <2>4, <2>6, <2>7, <2>8, <2>9 DEF new, ops, versions
  <1>3. QED
    BY <1>1, <1>2

\* The precondition of the row, and whether its version is there already.
Gated == WithGate(Row)
ExistingOfRow == Existing(Gated.work, imp.op[Row.code], Row.start)
RowGate == IF Row.gate = None THEN None ELSE GateCache(Row)[CacheKey(Row)]
RowVersion ==
  NewVersion(GateNext(Row).vid, imp.op[Row.code], Row, Row.end, RowGate, Row.text)

LEMMA TakeRowDoes ==
  ASSUME ShapeInv, TakeRow, ~Raise
  PROVE  /\ GoesOn /\ KeysHold(imp'.work)
         /\ imp.phase = "row"
         /\ Row.start # None /\ <<Row.code, Row.start>> \notin imp.seen
         /\ ~GateIsAmbiguous(Row) /\ AtMostOne(ExistingOfRow)
         /\ imp'.seen = imp.seen \union {<<Row.code, Row.start>>}
         /\ imp'.cache = GateCache(Row) /\ imp'.lost = imp.lost
         /\ imp'.made = Plus(imp.made, Added(imp.work, imp'.work))
         /\ imp'.op = imp.op
         /\ \/ /\ ExistingOfRow # {} /\ AtNextRow
               /\ imp'.work = Gated.work /\ imp'.next = GateNext(Row)
            \/ /\ ExistingOfRow = {}
               /\ imp'.phase = "references" /\ imp'.i = imp.i
               /\ imp'.vid = GateNext(Row).vid
               /\ imp'.next = [GateNext(Row) EXCEPT !.vid = @ + 1]
               /\ imp'.work = [Gated.work EXCEPT !.versions = @ \union {RowVersion}]
  <1> DEFINE key == <<Row.code, Row.start>>
             next == GateNext(Row)
  <1>1. /\ imp.phase = "row" /\ IsImport(imp) /\ IsDatabase(imp.work)
        /\ IsNext(imp.next) /\ Row.start # None /\ key \notin imp.seen
    BY DEF TakeRow, ShapeInv, OfRow
  <1>2. /\ IsImport(Gated) /\ IsDatabase(Gated.work)
        /\ IsNext(Gated.next) /\ Gated.next = next
        /\ Gated.cache = GateCache(Row)
        /\ Gated.file = imp.file /\ Gated.i = imp.i /\ Gated.op = imp.op
        /\ Gated.seen = imp.seen /\ Gated.created = imp.created
        /\ Gated.lost = imp.lost /\ Gated.outcome = imp.outcome
    BY <1>1, GateDoes DEF Gated
  <1>3. ~GateIsAmbiguous(Row) /\ AtMostOne(ExistingOfRow)
    BY Zenon DEF TakeRow, ExistingOfRow, Gated
  <1> HIDE DEF next
  <1>4. CASE ExistingOfRow # {}
    <2> DEFINE kept == [Gated EXCEPT !.seen = @ \union {key}]
    <2>1. Flush(NextRow(kept))
      BY <1>3, <1>4, Zenon DEF TakeRow, ExistingOfRow, Gated
    <2>2. /\ IsImport(kept) /\ kept.work = Gated.work
          /\ kept.next = Gated.next /\ kept.cache = Gated.cache
          /\ kept.file = imp.file /\ kept.i = imp.i /\ kept.op = imp.op
          /\ kept.seen = imp.seen \union {key}
          /\ kept.created = imp.created /\ kept.lost = imp.lost
          /\ kept.outcome = imp.outcome
      BY <1>2 DEF IsImport, ImportFields
    <2> HIDE DEF kept, key
    <2> DEFINE new == NextRow(kept)
    <2>3. /\ IsImport(new) /\ new.work = Gated.work
          /\ new.phase = IF imp.i = Len(imp.file) THEN "commit" ELSE "row"
          /\ new.i = imp.i + 1 /\ new.op = imp.op
          /\ new.next = Gated.next /\ new.cache = Gated.cache
          /\ new.file = imp.file /\ new.seen = imp.seen \union {key}
          /\ new.created = imp.created /\ new.lost = imp.lost
          /\ new.outcome = imp.outcome
      BY <2>2, NextRowIs
    <2> HIDE DEF new
    <2>4. /\ GoesOn /\ KeysHold(imp'.work)
          /\ imp'.made = Plus(imp.made, Added(imp.work, new.work))
          /\ imp'.phase = new.phase /\ imp'.i = new.i /\ imp'.work = new.work
          /\ imp'.next = new.next /\ imp'.op = new.op
          /\ imp'.cache = new.cache /\ imp'.seen = new.seen
          /\ imp'.lost = new.lost
      BY <2>1, <2>3, FlushDoes DEF new
    <2>5. QED
      BY <1>1, <1>2, <1>3, <1>4, <2>3, <2>4 DEF AtNextRow, key, next
  <1>5. CASE ExistingOfRow = {}
    <2> DEFINE gate == IF Row.gate = None THEN None
                       ELSE Gated.cache[CacheKey(Row)]
               version == NewVersion(Gated.next.vid, imp.op[Row.code], Row,
                                     Row.end, gate, Row.text)
               new == [Gated EXCEPT
                        !.phase = "references", !.seen = @ \union {key},
                        !.vid = Gated.next.vid, !.next.vid = @ + 1,
                        !.work.versions = @ \union {version}]
    <2>1. Flush(new)
      BY <1>3, <1>5, Zenon DEF TakeRow, ExistingOfRow, Gated
    <2>2. version = RowVersion
      BY <1>2 DEF RowVersion, RowGate, next
    <2> HIDE DEF version, key
    <2>3. /\ IsImport(new) /\ new.phase = "references"
          /\ new.work = [Gated.work EXCEPT !.versions = @ \union {version}]
          /\ new.next = [Gated.next EXCEPT !.vid = @ + 1]
          /\ new.vid = Gated.next.vid /\ new.cache = Gated.cache
          /\ new.file = imp.file /\ new.i = imp.i /\ new.op = imp.op
          /\ new.seen = imp.seen \union {key}
          /\ new.created = imp.created /\ new.lost = imp.lost
          /\ new.outcome = imp.outcome
      BY <1>2 DEF IsImport, ImportFields, IsDatabase, DatabaseFields, IsNext,
                  NextFields
    <2> HIDE DEF new
    <2>4. /\ GoesOn /\ KeysHold(imp'.work)
          /\ imp'.made = Plus(imp.made, Added(imp.work, new.work))
          /\ imp'.phase = new.phase /\ imp'.i = new.i /\ imp'.work = new.work
          /\ imp'.next = new.next /\ imp'.op = new.op
          /\ imp'.cache = new.cache /\ imp'.seen = new.seen
          /\ imp'.vid = new.vid /\ imp'.lost = new.lost
      BY <2>1, <2>3, FlushDoes
    <2>5. QED
      BY <1>1, <1>2, <1>3, <1>5, <2>2, <2>3, <2>4 DEF key, next
  <1>6. QED
    BY <1>4, <1>5

\* The import stays at its row.
StaysAtRow ==
  /\ imp'.i = imp.i /\ imp'.op = imp.op /\ imp'.cache = imp.cache
  /\ imp'.seen = imp.seen /\ imp'.vid = imp.vid

NewNode ==
  [id |-> NextIntId({n.id : n \in imp.work.nodes}), vid |-> imp.vid]

LEMMA ReferencesDo ==
  ASSUME ShapeInv, References, ~Raise
  PROVE  /\ GoesOn /\ StaysAtRow /\ KeysHold(imp'.work)
         /\ imp.phase = "references" /\ imp'.phase = "scopes"
         /\ imp'.releases = RowReleases
         /\ imp'.next = imp.next /\ imp'.lost = imp.lost
         /\ imp'.made = Plus(imp.made, Added(imp.work, imp'.work))
         /\ \E nodes \in {{}, {NewNode}} :
              imp'.work = [imp.work EXCEPT !.nodes = @ \union nodes]
  <1>1. imp.phase = "references" /\ IsImport(imp) /\ IsDatabase(imp.work)
    BY DEF References, ShapeInv
  <1>2. PICK tables \in {Row.text \in Tables} :
          Flush([imp EXCEPT
            !.phase = "scopes", !.releases = RowReleases,
            !.work.nodes = IF ~tables THEN @ ELSE @ \union
              {[id |-> NextIntId({n.id : n \in @}), vid |-> imp.vid]}])
    BY Zenon DEF References
  <1> DEFINE nodes == IF ~tables THEN imp.work.nodes
                      ELSE imp.work.nodes \union {NewNode}
             new == [imp EXCEPT !.phase = "scopes", !.releases = RowReleases,
                                !.work.nodes = nodes]
  <1>3. Flush(new)
    BY <1>2, Zenon DEF NewNode
  <1>4. \E more \in {{}, {NewNode}} : nodes = imp.work.nodes \union more
    OBVIOUS
  <1> HIDE DEF nodes
  <1>5. /\ IsImport(new) /\ new.phase = "scopes"
        /\ new.work = [imp.work EXCEPT !.nodes = nodes]
        /\ new.releases = RowReleases /\ new.i = imp.i /\ new.op = imp.op
        /\ new.cache = imp.cache /\ new.seen = imp.seen /\ new.vid = imp.vid
        /\ new.next = imp.next /\ new.lost = imp.lost /\ new.file = imp.file
        /\ new.created = imp.created /\ new.outcome = imp.outcome
    BY <1>1 DEF IsImport, ImportFields
  <1> HIDE DEF new
  <1>6. /\ GoesOn /\ KeysHold(imp'.work) /\ StaysAtRow
        /\ imp'.phase = "scopes" /\ imp'.releases = RowReleases
        /\ imp'.next = imp.next /\ imp'.lost = imp.lost
        /\ imp'.made = Plus(imp.made, Added(imp.work, imp'.work))
        /\ imp'.work = [imp.work EXCEPT !.nodes = nodes]
    BY <1>3, <1>5, FlushDoes DEF StaysAtRow
  <1>7. QED
    BY <1>1, <1>4, <1>6

\* The scopes that a row gets at a release.
NewScopes(r) == ScopesOf[Row.text, r] \ imp.found
ScopeIdOf(r, s) ==
  imp.next.scope + Cardinality({t \in NewScopes(r) : t < s})
ScopesMade(r) ==
  {[id |-> ScopeIdOf(r, s), vid |-> imp.vid, modules |-> s] : s \in NewScopes(r)}

LEMMA ScopeDoes ==
  ASSUME ShapeInv, NEW r, Scope(r), ~Raise
  PROVE  /\ GoesOn /\ StaysAtRow /\ KeysHold(imp'.work)
         /\ imp.phase = "scopes" /\ imp'.phase = "scopes"
         /\ imp'.releases = imp.releases \ {r}
         /\ imp'.next =
              [imp.next EXCEPT !.scope = @ + Cardinality(NewScopes(r))]
         /\ imp'.lost = imp.lost
         /\ imp'.made = Plus(imp.made, Added(imp.work, imp'.work))
         /\ imp'.work = [imp.work EXCEPT !.scopes = @ \union ScopesMade(r)]
  <1>1. /\ imp.phase = "scopes" /\ IsImport(imp) /\ IsDatabase(imp.work)
        /\ IsNext(imp.next)
    BY DEF Scope, ShapeInv, OfRow
  <1> DEFINE more == imp.work.scopes \union ScopesMade(r)
             number == imp.next.scope + Cardinality(NewScopes(r))
             found == imp.found \union NewScopes(r)
             new == [imp EXCEPT !.releases = @ \ {r}, !.found = found,
                                !.next.scope = number, !.work.scopes = more]
  <1>2. Flush(new)
    BY Zenon DEF Scope, NewScopes, ScopesMade, ScopeIdOf
  <1> HIDE DEF more, number, found
  <1>3. /\ IsImport(new) /\ new.phase = "scopes"
        /\ new.work = [imp.work EXCEPT !.scopes = more]
        /\ new.next = [imp.next EXCEPT !.scope = number]
        /\ new.releases = imp.releases \ {r} /\ new.i = imp.i
        /\ new.op = imp.op /\ new.cache = imp.cache /\ new.seen = imp.seen
        /\ new.vid = imp.vid /\ new.lost = imp.lost /\ new.file = imp.file
        /\ new.created = imp.created /\ new.outcome = imp.outcome
    BY <1>1 DEF IsImport, ImportFields
  <1> HIDE DEF new
  <1>4. /\ GoesOn /\ KeysHold(imp'.work) /\ StaysAtRow
        /\ imp'.phase = "scopes" /\ imp'.releases = imp.releases \ {r}
        /\ imp'.lost = imp.lost
        /\ imp'.made = Plus(imp.made, Added(imp.work, imp'.work))
        /\ imp'.work = [imp.work EXCEPT !.scopes = more]
        /\ imp'.next = [imp.next EXCEPT !.scope = number]
    BY <1>2, <1>3, FlushDoes DEF StaysAtRow
  <1>5. QED
    BY <1>1, <1>4 DEF more, number

LEMMA CommitDoes ==
  ASSUME ShapeInv, Commit
  PROVE  /\ IsImport(imp') /\ db' = imp.work
         /\ whole' = IF imp.lost THEN whole ELSE whole \union {imp.file}
         /\ imp.phase = "commit" /\ imp'.phase = "verify"
         /\ imp'.file = imp.file /\ imp'.work = imp.work
         /\ imp'.next = imp.next /\ imp'.made = imp.made
         /\ imp'.created = imp.created /\ imp'.lost = imp.lost
         /\ imp'.outcome = imp.outcome
  BY DEF ShapeInv, Commit, Committed, IsImport, ImportFields

\* A swallowed error leaves the import at its row, with the rows of the
\* database.
LEMMA LoseTransactionDoes ==
  ASSUME ShapeInv, LoseTransaction, ~Raise
  PROVE  /\ GoesOn /\ StaysAtRow
         /\ imp.phase \in {"references", "scopes"} /\ imp'.phase = "scopes"
         /\ imp'.work = db /\ imp.work # db /\ imp'.lost = TRUE
         /\ imp'.next = imp.next /\ imp'.made = imp.made
         /\ IF imp.phase = "references" THEN imp'.releases = RowReleases
            ELSE imp'.releases \subseteq imp.releases
  <1>1. IsImport(imp) /\ imp.work # db
    BY DEF ShapeInv, LoseTransaction
  <1>2. CASE /\ imp.phase = "references"
             /\ Continue([imp EXCEPT !.phase = "scopes", !.work = db,
                                     !.releases = RowReleases, !.lost = TRUE])
    BY <1>1, <1>2 DEF Continue, GoesOn, StaysAtRow, IsImport, ImportFields
  <1>3. ASSUME NEW r \in imp.releases, imp.phase = "scopes",
               Continue([imp EXCEPT !.releases = imp.releases \ {r},
                                    !.work = db, !.lost = TRUE])
        PROVE  /\ GoesOn /\ StaysAtRow /\ imp'.phase = "scopes"
               /\ imp'.work = db /\ imp'.lost = TRUE
               /\ imp'.next = imp.next /\ imp'.made = imp.made
               /\ imp'.releases \subseteq imp.releases
    BY <1>1, <1>3 DEF Continue, GoesOn, StaysAtRow, IsImport, ImportFields
  <1>4. QED
    BY <1>1, <1>2, <1>3 DEF LoseTransaction

\* The import ends: unheard, after its check, or with an error of any kind.
Ends ==
  \/ /\ imp' = End("error") /\ db' = imp.work /\ imp.phase = "commit"
     /\ whole' = IF imp.lost THEN whole ELSE whole \union {imp.file}
  \/ /\ imp' = End("ok") /\ db' = db /\ imp.phase = "verify" /\ Persisted
     /\ whole' = whole
  \/ /\ imp' \in {End("error"), End("died")} /\ db' = db /\ whole' = whole

LEMMA EndingsAre ==
  ASSUME Raise \/ LoseReply \/ Verify \/ Fail \/ FailToVerify
  PROVE  Ends
  BY DEF Ends, Raise, LoseReply, Committed, Verify, Fail, FailToVerify, Continue

LEMMA EndsDoes ==
  ASSUME Ends
  PROVE  /\ IsImport(imp') /\ imp'.phase = "idle"
         /\ imp'.outcome \in {"ok", "error", "died"}
         /\ imp'.made = imp.made /\ imp'.created = imp.created
  BY EndIs DEF Ends

\* What the actions come down to.
LEMMA StepsAre ==
  ASSUME [Next]_vars
  PROVE  \/ Ends \/ UNCHANGED vars
         \/ \E file \in Files : Start(file)
         \/ /\ ~Raise
            /\ \/ Organisation \/ CheckFloors \/ Operations \/ TakeRow
               \/ References \/ LoseTransaction
               \/ \E r \in imp.releases : Scope(r)
         \/ SkipRow \/ EndRow \/ Commit
  BY EndingsAre DEF Next

LEMMA RowEndsAre ==
  ASSUME SkipRow \/ EndRow
  PROVE  /\ Continue(NextRow(imp))
         /\ \/ /\ imp.phase = "row"
               /\ Row.start = None \/ <<Row.code, Row.start>> \in imp.seen
            \/ imp.phase = "scopes"
  BY DEF SkipRow, EndRow

LEMMA ShapeIsInitial ==
  ASSUME Init
  PROVE  ShapeInv /\ imp.phase = "idle" /\ imp.outcome = None
         /\ imp.created = FALSE
  <1>1. IsDatabase(db)
    BY ImportAssumption DEF Init, Database, IsDatabase, DatabaseFields
  <1>2. /\ IsImport(imp) /\ imp.phase = "idle" /\ imp.outcome = None
        /\ imp.created = FALSE
    BY DEF Init, Idle, IsImport, ImportFields
  <1>3. QED
    BY <1>1, <1>2 DEF ShapeInv, Phases, BeforeRows, OfRow

LEMMA ShapeKeeps ==
  ASSUME ShapeInv, [Next]_vars
  PROVE  ShapeInv'
  <1>1. CASE Ends
    BY <1>1, EndsDoes DEF Ends, ShapeInv, Phases, BeforeRows, OfRow
  <1>2. CASE UNCHANGED vars
    BY <1>2 DEF vars, ShapeInv
  <1>3. ASSUME NEW file \in Files, Start(file)
        PROVE  ShapeInv'
    <2>1. /\ IsImport(imp') /\ db' = db /\ imp'.phase = "organisation"
          /\ imp'.work = db /\ imp'.made = NothingMade /\ imp'.cache = <<>>
          /\ imp'.seen = {} /\ imp'.created = FALSE /\ imp'.lost = FALSE
          /\ imp'.outcome = None
      BY <1>3, StartDoes
    <2>2. QED
      BY <2>1, ImportAssumption
      DEF ShapeInv, Phases, BeforeRows, OfRow, SameRows
  <1>4. CASE ~Raise /\ Organisation
    BY <1>4, OrganisationDoes, ZenonT(40)
    DEF ShapeInv, Phases, BeforeRows, OfRow, SameRows
  <1>5. CASE ~Raise /\ CheckFloors
    <2>1. IsNext([op |-> NextIntId(OpIds(imp.work)),
                  vid |-> NextIntId(Vids(imp.work)),
                  scope |-> NextIntId({s.id : s \in imp.work.scopes})])
      BY DEF IsNext, NextFields
    <2>2. /\ GoesOn /\ imp.phase = "floors" /\ imp'.phase = "operations"
          /\ imp'.work = imp.work /\ imp'.made = imp.made
          /\ imp'.cache = imp.cache /\ imp'.seen = imp.seen
          /\ imp'.lost = imp.lost /\ IsNext(imp'.next)
      BY <1>5, <2>1, FloorsDo, Zenon
    <2>3. QED
      BY <2>2 DEF ShapeInv, Phases, BeforeRows, OfRow, GoesOn
  <1>6. CASE ~Raise /\ Operations
    <2>1. /\ GoesOn /\ imp.phase = "operations"
          /\ imp'.phase \in {"row", "commit"}
      BY <1>6, OperationsDo
    <2>2. IsDatabase(imp.work) => IsDatabase(imp'.work)
      BY <1>6, OperationsDo DEF IsDatabase, DatabaseFields
    <2>3. IsNext(imp.next) => IsNext(imp'.next)
      BY <1>6, OperationsDo DEF IsNext, NextFields
    <2>4. QED
      BY <2>1, <2>2, <2>3 DEF ShapeInv, Phases, BeforeRows, OfRow, GoesOn
  <1>7. CASE ~Raise /\ TakeRow
    <2>1. imp.phase = "row" /\ IsImport(imp) /\ IsDatabase(imp.work)
          /\ IsNext(imp.next)
      BY <1>7 DEF TakeRow, ShapeInv, OfRow
    <2>2. IsDatabase(Gated.work) /\ IsNext(GateNext(Row))
      BY <2>1, GateDoes DEF Gated
    <2>3. GoesOn /\ imp'.phase \in {"row", "references", "commit"}
      BY <1>7, TakeRowDoes DEF AtNextRow
    <2>4. IsDatabase(imp'.work) /\ IsNext(imp'.next)
      BY <1>7, <2>2, TakeRowDoes
      DEF IsDatabase, DatabaseFields, IsNext, NextFields
    <2>5. QED
      BY <2>1, <2>3, <2>4 DEF ShapeInv, Phases, BeforeRows, OfRow, GoesOn
  <1>8. CASE ~Raise /\ References
    <2>1. /\ GoesOn /\ imp.phase = "references" /\ imp'.phase = "scopes"
          /\ imp'.next = imp.next
      BY <1>8, ReferencesDo
    <2>2. IsDatabase(imp.work) => IsDatabase(imp'.work)
      BY <1>8, ReferencesDo DEF IsDatabase, DatabaseFields
    <2>3. QED
      BY <2>1, <2>2 DEF ShapeInv, Phases, BeforeRows, OfRow, GoesOn
  <1>9. CASE ~Raise /\ LoseTransaction
    BY <1>9, LoseTransactionDoes
    DEF ShapeInv, Phases, BeforeRows, OfRow, GoesOn
  <1>10. ASSUME ~Raise, NEW r \in imp.releases, Scope(r)
         PROVE  ShapeInv'
    <2>1. /\ GoesOn /\ imp.phase = "scopes" /\ imp'.phase = "scopes"
      BY <1>10, ScopeDoes
    <2>2. IsDatabase(imp.work) => IsDatabase(imp'.work)
      BY <1>10, ScopeDoes DEF IsDatabase, DatabaseFields
    <2>3. IsNext(imp.next) => IsNext(imp'.next)
      BY <1>10, ScopeDoes DEF IsNext, NextFields
    <2>4. QED
      BY <2>1, <2>2, <2>3 DEF ShapeInv, Phases, BeforeRows, OfRow, GoesOn
  <1>11. CASE SkipRow \/ EndRow
    BY <1>11, RowEndsAre, RowEndDoes
    DEF ShapeInv, Phases, BeforeRows, OfRow, GoesOn, AtNextRow
  <1>12. CASE Commit
    BY <1>12, CommitDoes DEF ShapeInv, Phases, BeforeRows, OfRow
  <1>13. QED
    BY <1>1, <1>2, <1>3, <1>4, <1>5, <1>6, <1>7, <1>8, <1>9, <1>10, <1>11,
       <1>12, StepsAre

THEOREM Shape == Spec => []ShapeInv
  <1>1. Init => ShapeInv
    BY ShapeIsInitial
  <1>2. QED
    BY <1>1, ShapeKeeps, PTL DEF Spec

-----------------------------------------------------------------------------
\* What a successful run has persisted

\* Does a database have all that was made?
Contains(d, m) ==
  /\ m.ops \subseteq d.ops /\ m.versions \subseteq d.versions
  /\ m.nodes \subseteq d.nodes /\ m.scopes \subseteq d.scopes

InTransaction ==
  {"floors", "operations", "row", "references", "scopes", "commit"}

\* The organisation goes the way of everything else in its transaction: while
\* the session has it, it has all that was made, and the database has it not.
TransactionInv ==
  imp.created /\ imp.phase \in InTransaction =>
    /\ db.org # "ECB"
    /\ imp.work.org = "ECB" => Contains(imp.work, imp.made)
VerifyInv ==
  imp.created /\ imp.phase = "verify" /\ db.org = "ECB" =>
    Contains(db, imp.made)
OkInv == imp.outcome = "ok" /\ imp.created => Contains(db, imp.made)

PersistInv == TransactionInv /\ VerifyInv /\ OkInv

\* What is flushed is in the session's database, with all that was before.
LEMMA FlushedIsContained ==
  ASSUME PersistInv, ShapeInv, GoesOn,
         imp.phase \in {"operations"} \union OfRow,
         imp'.phase \in OfRow \union {"commit"},
         imp'.made = Plus(imp.made, Added(imp.work, imp'.work)),
         imp'.work.org = imp.work.org,
         \/ imp.phase = "operations"
         \/ Contains(imp'.work, imp.work)
  PROVE  PersistInv'
  <1>1. Contains(imp'.work, imp.made) => Contains(imp'.work, imp'.made)
    BY DEF Plus, Added, Contains
  <1>2. imp.created /\ imp'.work.org = "ECB" => Contains(imp'.work, imp.made)
    BY DEF PersistInv, ShapeInv, TransactionInv, InTransaction, OfRow,
           BeforeRows, NothingMade, Contains
  <1>3. imp.created => db.org # "ECB"
    BY DEF PersistInv, TransactionInv, InTransaction, OfRow
  <1>4. imp'.outcome # "ok"
    BY DEF ShapeInv, OfRow, GoesOn
  <1>5. TransactionInv'
    BY <1>1, <1>2, <1>3 DEF TransactionInv, Contains, GoesOn
  <1>6. VerifyInv' /\ OkInv'
    BY <1>4 DEF VerifyInv, OkInv, OfRow
  <1>7. QED
    BY <1>5, <1>6 DEF PersistInv

LEMMA PersistKeeps ==
  ASSUME PersistInv, ShapeInv, [Next]_vars
  PROVE  PersistInv'
  <1>1. CASE Ends
    <2>1. CASE imp'.outcome = "ok"
      <3>1. imp.phase = "verify" /\ Persisted /\ db' = db
        BY <1>1, <2>1, EndIs DEF Ends
      <3>2. OkInv'
        BY <1>1, <3>1, EndsDoes
        DEF PersistInv, VerifyInv, OkInv, Persisted, Contains
      <3>3. QED
        BY <1>1, <3>2, EndsDoes
        DEF PersistInv, TransactionInv, VerifyInv, InTransaction
    <2>2. CASE imp'.outcome # "ok"
      BY <1>1, <2>2, EndsDoes
      DEF PersistInv, TransactionInv, VerifyInv, OkInv, InTransaction
    <2>3. QED
      BY <2>1, <2>2
  <1>2. CASE UNCHANGED vars
    BY <1>2 DEF vars, PersistInv, TransactionInv, VerifyInv, OkInv
  <1>3. ASSUME NEW file \in Files, Start(file)
        PROVE  PersistInv'
    BY <1>3, StartDoes, ImportAssumption
    DEF PersistInv, TransactionInv, VerifyInv, OkInv
  <1>4. CASE ~Raise /\ Organisation
    <2>1. /\ imp'.made = NothingMade
          /\ imp'.created => db.org = "none"
          /\ imp'.phase = "floors" /\ db' = db /\ imp'.outcome # "ok"
      BY <1>4, OrganisationDoes DEF ShapeInv, BeforeRows
    <2>2. Contains(imp'.work, imp'.made)
      BY <2>1 DEF NothingMade, Contains
    <2>3. QED
      BY <2>1, <2>2
      DEF PersistInv, TransactionInv, VerifyInv, OkInv, Contains
  <1>5. CASE ~Raise /\ CheckFloors
    <2>1. /\ GoesOn /\ imp.phase = "floors" /\ imp'.phase = "operations"
          /\ imp'.work = imp.work /\ imp'.made = imp.made
      BY <1>5, FloorsDo, Zenon
    <2>2. QED
      BY <2>1
      DEF PersistInv, TransactionInv, VerifyInv, OkInv, InTransaction, GoesOn,
          ShapeInv, Contains
  <1>6. CASE ~Raise /\ Operations
    <2>1. imp'.work.org = imp.work.org
      BY <1>6, OperationsDo DEF ShapeInv, IsDatabase, DatabaseFields, BeforeRows
    <2>2. QED
      BY <1>6, <2>1, OperationsDo, FlushedIsContained DEF OfRow
  <1>7. CASE ~Raise /\ TakeRow
    <2>1. imp.phase = "row" /\ IsImport(imp) /\ IsDatabase(imp.work)
          /\ IsNext(imp.next)
      BY <1>7 DEF TakeRow, ShapeInv, OfRow
    <2>2. IsDatabase(Gated.work) /\ Gated.work.org = imp.work.org
          /\ Contains(Gated.work, imp.work)
      <3>1. /\ IsDatabase(Gated.work)
            /\ Gated.work = [imp.work EXCEPT
                               !.ops = @ \union GateOpsMade(Row),
                               !.versions = @ \union GateVersionsMade(Row)]
        BY <2>1, GateDoes DEF Gated
      <3>2. QED
        BY <2>1, <3>1 DEF IsDatabase, DatabaseFields, Contains
    <2>3. imp'.work.org = imp.work.org /\ Contains(imp'.work, imp.work)
      BY <1>7, <2>2, TakeRowDoes DEF IsDatabase, DatabaseFields, Contains
    <2>4. /\ GoesOn /\ imp'.phase \in OfRow \union {"commit"}
          /\ imp'.made = Plus(imp.made, Added(imp.work, imp'.work))
      BY <1>7, TakeRowDoes DEF AtNextRow, OfRow
    <2>5. QED
      BY <2>1, <2>3, <2>4, FlushedIsContained DEF OfRow
  <1>8. CASE ~Raise /\ References
    <2>1. imp'.work.org = imp.work.org /\ Contains(imp'.work, imp.work)
      BY <1>8, ReferencesDo DEF ShapeInv, IsDatabase, DatabaseFields, Contains
    <2>2. QED
      BY <1>8, <2>1, ReferencesDo, FlushedIsContained DEF OfRow
  <1>9. CASE ~Raise /\ LoseTransaction
    BY <1>9, LoseTransactionDoes
    DEF PersistInv, TransactionInv, VerifyInv, OkInv, InTransaction, GoesOn,
        ShapeInv
  <1>10. ASSUME ~Raise, NEW r \in imp.releases, Scope(r)
         PROVE  PersistInv'
    <2>1. imp'.work.org = imp.work.org /\ Contains(imp'.work, imp.work)
      BY <1>10, ScopeDoes DEF ShapeInv, IsDatabase, DatabaseFields, Contains
    <2>2. QED
      BY <1>10, <2>1, ScopeDoes, FlushedIsContained DEF OfRow
  <1>11. CASE SkipRow \/ EndRow
    BY <1>11, RowEndsAre, RowEndDoes
    DEF PersistInv, TransactionInv, VerifyInv, OkInv, InTransaction, GoesOn,
        AtNextRow, ShapeInv, Contains
  <1>12. CASE Commit
    BY <1>12, CommitDoes
    DEF PersistInv, TransactionInv, VerifyInv, OkInv, InTransaction, ShapeInv,
        Contains
  <1>13. QED
    BY <1>1, <1>2, <1>3, <1>4, <1>5, <1>6, <1>7, <1>8, <1>9, <1>10, <1>11,
       <1>12, StepsAre

LEMMA PersistHolds == Spec => []PersistInv
  <1>1. Init => PersistInv
    BY ShapeIsInitial DEF PersistInv, TransactionInv, VerifyInv, OkInv
  <1>2. QED
    BY <1>1, Shape, PersistKeeps, PTL DEF Spec

\* _verify_persisted: a run that made the organisation and reports success has
\* all that it counted in the database, whatever was swallowed on the way.
THEOREM SuccessIsPersisted == Spec => []OkMeansPersisted
  <1>1. PersistInv => OkMeansPersisted
    BY DEF PersistInv, OkInv, OkMeansPersisted, Contains
  <1>2. QED
    BY <1>1, PersistHolds, PTL

-----------------------------------------------------------------------------
\* The rows that are made

LEMMA ImageIsFinite ==
  ASSUME NEW S, IsFiniteSet(S), NEW f
  PROVE  IsFiniteSet({f[x] : x \in S})
  <1> DEFINE g == [x \in S |-> f[x]]
  <1>1. g \in Surjection(S, {f[x] : x \in S})
    BY DEF Surjection
  <1>2. QED
    BY <1>1, FS_Surjection

Sound(d) ==
  /\ d \in Database
  /\ IsFiniteSet(d.ops) /\ IsFiniteSet(d.versions)
  /\ IsFiniteSet(d.nodes) /\ IsFiniteSet(d.scopes)

LEMMA RowsAre ==
  ASSUME NEW d, d \in Database
  PROVE  /\ \A o \in d.ops : o \in Operation /\ o.id \in Nat
         /\ \A v \in d.versions : v \in OperationVersion /\ v.vid \in Nat
         /\ \A n \in d.nodes : n \in OperationNode /\ n.id \in Nat
         /\ \A s \in d.scopes : s \in OperationScope /\ s.id \in Nat
  BY DEF Database, Operation, OperationVersion, OperationNode, OperationScope

NodeIds(d) == {n.id : n \in d.nodes}
ScopeIds(d) == {s.id : s \in d.scopes}

LEMMA IdsAre ==
  ASSUME NEW d, Sound(d)
  PROVE  /\ OpIds(d) \in SUBSET Nat /\ IsFiniteSet(OpIds(d))
         /\ Vids(d) \in SUBSET Nat /\ IsFiniteSet(Vids(d))
         /\ NodeIds(d) \in SUBSET Nat /\ IsFiniteSet(NodeIds(d))
         /\ ScopeIds(d) \in SUBSET Nat /\ IsFiniteSet(ScopeIds(d))
  <1>1. /\ OpIds(d) \in SUBSET Nat /\ Vids(d) \in SUBSET Nat
        /\ NodeIds(d) \in SUBSET Nat /\ ScopeIds(d) \in SUBSET Nat
    BY RowsAre DEF Sound, OpIds, Vids, NodeIds, ScopeIds
  <1>2. IsFiniteSet(OpIds(d))
    <2> DEFINE f == [o \in d.ops |-> o.id]
    <2>1. IsFiniteSet({f[o] : o \in d.ops})
      BY ImageIsFinite DEF Sound
    <2>2. QED
      BY <2>1 DEF OpIds
  <1>3. IsFiniteSet(Vids(d))
    <2> DEFINE f == [v \in d.versions |-> v.vid]
    <2>1. IsFiniteSet({f[v] : v \in d.versions})
      BY ImageIsFinite DEF Sound
    <2>2. QED
      BY <2>1 DEF Vids
  <1>4. IsFiniteSet(NodeIds(d))
    <2> DEFINE f == [n \in d.nodes |-> n.id]
    <2>1. IsFiniteSet({f[n] : n \in d.nodes})
      BY ImageIsFinite DEF Sound
    <2>2. QED
      BY <2>1 DEF NodeIds
  <1>5. IsFiniteSet(ScopeIds(d))
    <2> DEFINE f == [s \in d.scopes |-> s.id]
    <2>1. IsFiniteSet({f[s] : s \in d.scopes})
      BY ImageIsFinite DEF Sound
    <2>2. QED
      BY <2>1 DEF ScopeIds
  <1>6. QED
    BY <1>1, <1>2, <1>3, <1>4, <1>5

\* _next_int_id: an ID of the block, above all that are taken.
LEMMA NextIdIs ==
  ASSUME NEW S \in SUBSET Nat, IsFiniteSet(S)
  PROVE  /\ NextIntId(S) \in Nat /\ NextIntId(S) >= Base
         /\ \A n \in S : n < NextIntId(S)
         /\ (\A n \in S : n < Base) => NextIntId(S) = Base
         /\ \/ NextIntId(S) = Base
            \/ NextIntId(S) - 1 \in S
  <1> DEFINE block == {n \in S : n >= Base}
  <1>0. Base \in Nat
    BY ImportAssumption
  <1>1. CASE block = {}
    <2>1. NextIntId(S) = Base /\ \A n \in S : ~(n >= Base)
      BY <1>1 DEF NextIntId
    <2>2. QED
      BY <1>0, <2>1
  <1>2. CASE block # {}
    <2>1. block \in SUBSET Nat /\ IsFiniteSet(block)
      BY FS_Subset
    <2>2. \E n \in block : \A m \in block : m <= n
      BY <1>2, <2>1, GreatestOfFinite
    <2>3. Highest(block) \in block /\ \A m \in block : m <= Highest(block)
      BY <2>2 DEF Highest
    <2>4. NextIntId(S) = Highest(block) + 1
      BY <1>2 DEF NextIntId
    <2> DEFINE h == Highest(block)
    <2>5. h \in S /\ h \in Nat /\ h >= Base /\ NextIntId(S) = h + 1
          /\ \A n \in S : n >= Base => n <= h
      BY <2>3, <2>4
    <2> HIDE DEF h, block
    <2>6. QED
      BY <1>0, <2>5
  <1>3. QED
    BY <1>1, <1>2

LEMMA RowIs ==
  ASSUME imp.file \in Files, imp.i \in DOMAIN imp.file
  PROVE  Row \in FileRow /\ Row.code \in FileCodes
  <1>1. imp.file \in Seq(FileRow)
    BY ImportAssumption
  <1>2. Row \in FileRow
    BY <1>1 DEF Row
  <1>3. QED
    BY <1>2 DEF Row, FileCodes

LEMMA CodesAre ==
  ASSUME imp.file \in Files
  PROVE  /\ FileCodes \in SUBSET Nat /\ IsFiniteSet(FileCodes)
         /\ FileCodes \subseteq Code
         /\ NewCodes \in SUBSET Nat /\ IsFiniteSet(NewCodes)
         /\ Cardinality(NewCodes) \in Nat
  <1> DEFINE f == imp.file
             own == {f[i].code : i \in DOMAIN f}
  <1>1. f \in Seq(FileRow)
    BY ImportAssumption
  <1>2. DOMAIN f = 1..Len(f) /\ Len(f) \in Nat /\ \A i \in DOMAIN f : f[i] \in FileRow
    BY <1>1
  <1>3. IsFiniteSet(own)
    <2> DEFINE g == [i \in DOMAIN f |-> f[i].code]
    <2>1. IsFiniteSet(DOMAIN f)
      BY <1>2, FS_Interval
    <2>2. IsFiniteSet({g[i] : i \in DOMAIN f})
      BY <2>1, ImageIsFinite
    <2>3. QED
      BY <2>2
  <1>4. IsFiniteSet({Parent[c] : c \in own})
    BY <1>3, ImageIsFinite
  <1>5. IsFiniteSet({Parent[c] : c \in own} \ {None})
    BY <1>4, FS_Subset
  <1>6. IsFiniteSet(FileCodes)
    BY <1>3, <1>5, FS_Union DEF FileCodes
  <1>7. own \subseteq Code
    BY <1>2 DEF FileRow
  <1> HIDE DEF own
  <1>8. {Parent[c] : c \in own} \ {None} \subseteq Code
    BY <1>7, ImportAssumption
  <1>9. FileCodes \subseteq Code /\ Code \subseteq Nat
    BY <1>7, <1>8, ImportAssumption DEF FileCodes, own
  <1>10. IsFiniteSet(NewCodes) /\ NewCodes \subseteq FileCodes
    BY <1>6, FS_Subset DEF NewCodes
  <1>11. QED
    BY <1>6, <1>9, <1>10, FS_CardinalityType

\* The operation of a code has the ID of the one that was there, or a new one.
LEMMA IdOfCodeIs ==
  ASSUME imp.file \in Files, Sound(imp.work), imp.next.op \in Nat,
         NEW c \in FileCodes
  PROVE  /\ IdOfCode(c) \in Nat
         /\ IF c \in NewCodes
            THEN IdOfCode(c) = imp.next.op + Cardinality({d \in NewCodes : d < c})
            ELSE \E o \in Known : o.code = c /\ o.id = IdOfCode(c)
  <1>1. CASE c \in NewCodes
    <2>1. Cardinality({d \in NewCodes : d < c}) \in Nat
      <3>1. IsFiniteSet({d \in NewCodes : d < c})
        BY CodesAre, FS_Subset
      <3>2. QED
        BY <3>1, FS_CardinalityType
    <2>2. QED
      BY <1>1, <2>1 DEF IdOfCode
  <1>2. CASE c \notin NewCodes
    <2>1. \E o \in Known : o.code = c
      BY <1>2 DEF NewCodes
    <2> DEFINE p == CHOOSE o \in Known : o.code = c
    <2>2. p \in Known /\ p.code = c /\ IdOfCode(c) = p.id
      BY <1>2, <2>1 DEF IdOfCode
    <2> HIDE DEF p
    <2>3. p.id \in Nat
      BY <2>2, RowsAre DEF Known, Sound
    <2>4. QED
      BY <1>2, <2>2, <2>3
  <1>3. QED
    BY <1>1, <1>2

\* The cache has the precondition of the row, and else what it had.
LEMMA CacheIs ==
  ASSUME NEW row
  PROVE  /\ row.gate # None => CacheKey(row) \in DOMAIN GateCache(row)
         /\ \A k \in DOMAIN GateCache(row) :
              \/ k \in DOMAIN imp.cache /\ GateCache(row)[k] = imp.cache[k]
              \/ /\ NeedsGate(row)
                 /\ k = CacheKey(row) /\ GateCache(row)[k] = GateVid(row)
  BY DEF GateCache, NeedsGate, Cached

LEMMA GateIs ==
  ASSUME NEW row, Sound(imp.work), imp.next.op \in Nat, imp.next.vid \in Nat
  PROVE  /\ GateOp(row) \in Nat /\ GateVid(row) \in Nat
         /\ GateOps(row) # {} =>
              \E o \in GateOps(row) : o.id = GateOp(row)
         /\ GateVersions(row) # {} =>
              \E v \in GateVersions(row) : v.vid = GateVid(row)
         /\ GateOps(row) = {} => GateOp(row) = imp.next.op
         /\ GateVersions(row) = {} => GateVid(row) = imp.next.vid
  <1>1. GateOps(row) # {} =>
          \E o \in GateOps(row) : o.id = GateOp(row)
    BY DEF GateOp
  <1>2. GateVersions(row) # {} =>
          \E v \in GateVersions(row) : v.vid = GateVid(row)
    BY DEF GateVid
  <1>3. GateOps(row) = {} => GateOp(row) = imp.next.op
    BY DEF GateOp
  <1>4. GateVersions(row) = {} => GateVid(row) = imp.next.vid
    BY DEF GateVid
  <1>5. \A o \in GateOps(row) : o.id \in Nat
    BY RowsAre DEF GateOps, Sound
  <1>6. \A v \in GateVersions(row) : v.vid \in Nat
    BY RowsAre DEF GateVersions, Sound
  <1>7. QED
    BY <1>1, <1>2, <1>3, <1>4, <1>5, <1>6

LEMMA MadeForGateIs ==
  ASSUME NEW row \in FileRow, row.start \in ReleaseId,
         Sound(imp.work), imp.next.op \in Nat, imp.next.vid \in Nat
  PROVE  /\ GateOpsMade(row) \subseteq Operation
         /\ IsFiniteSet(GateOpsMade(row))
         /\ GateVersionsMade(row) \subseteq OperationVersion
         /\ IsFiniteSet(GateVersionsMade(row))
  <1>1. IsFiniteSet(GateOpsMade(row)) /\ IsFiniteSet(GateVersionsMade(row))
    BY FS_EmptySet, FS_Singleton DEF GateOpsMade, GateVersionsMade
  <1>2. ASSUME NeedsGate(row)
        PROVE  /\ [id |-> GateOp(row), code |-> GateCode[row.gate],
                   type |-> "precondition", owner |-> "ECB", group |-> None]
                    \in Operation
               /\ NewVersion(GateVid(row), GateOp(row), row, None, None, row.gate)
                    \in OperationVersion
    <2>1. row.gate \in Gate
      BY <1>2 DEF NeedsGate, FileRow
    <2>2. GateCode[row.gate] \in Nat
      BY <2>1, ImportAssumption
    <2>3. QED
      BY <2>1, <2>2, GateIs DEF Operation, OperationVersion, NewVersion
  <1>3. QED
    BY <1>1, <1>2 DEF GateOpsMade, GateVersionsMade

-----------------------------------------------------------------------------
\* The types

TypeInv ==
  /\ Sound(db) /\ KeysHold(db) /\ whole \subseteq Files
  /\ imp.phase # "idle" =>
       Sound(imp.work) /\ KeysHold(imp.work) /\ imp.file \in Files
  /\ imp.phase \in {"operations"} \union OfRow =>
       imp.next.op \in Nat /\ imp.next.vid \in Nat /\ imp.next.scope \in Nat
  /\ imp.phase \in OfRow =>
       /\ imp.i \in DOMAIN imp.file
       /\ \A c \in FileCodes : c \in DOMAIN imp.op /\ imp.op[c] \in Nat
       /\ \A k \in DOMAIN imp.cache : imp.cache[k] \in Nat
  /\ imp.phase \in {"references", "scopes"} =>
       Row.start \in ReleaseId /\ imp.vid \in Nat
  /\ imp.phase = "scopes" =>
       /\ imp.releases \subseteq ReleaseId
       /\ imp.releases # {} => Row.text \in Text

LEMMA MoreIsSound ==
  ASSUME NEW d, Sound(d), NEW e,
         NEW ops \in SUBSET Operation, IsFiniteSet(ops),
         NEW versions \in SUBSET OperationVersion, IsFiniteSet(versions),
         NEW nodes \in SUBSET OperationNode, IsFiniteSet(nodes),
         NEW scopes \in SUBSET OperationScope, IsFiniteSet(scopes),
         e = [d EXCEPT !.ops = ops, !.versions = versions, !.nodes = nodes,
                       !.scopes = scopes]
  PROVE  Sound(e)
  BY DEF Sound, Database

LEMMA RowReleasesAre ==
  ASSUME Row \in FileRow, Row.start \in ReleaseId
  PROVE  /\ RowReleases \subseteq ReleaseId
         /\ RowReleases # {} => Row.text \in Text
  BY DEF RowReleases, ValidReleaseIds, From, Before, Perpetual, FileRow

LEMMA GateNextIs ==
  ASSUME NEW row, IsNext(imp.next)
  PROVE  /\ IsNext(GateNext(row))
         /\ GateNext(row).op =
              IF GateOpsMade(row) = {} THEN imp.next.op ELSE imp.next.op + 1
         /\ GateNext(row).vid =
              IF GateVersionsMade(row) = {} THEN imp.next.vid
              ELSE imp.next.vid + 1
         /\ GateNext(row).scope = imp.next.scope
  <1> DEFINE nop == IF GateOpsMade(row) = {} THEN imp.next.op ELSE imp.next.op + 1
             nvid == IF GateVersionsMade(row) = {} THEN imp.next.vid
                     ELSE imp.next.vid + 1
  <1>1. GateNext(row) = [imp.next EXCEPT !.op = nop, !.vid = nvid]
    BY DEF GateNext
  <1> HIDE DEF nop, nvid
  <1>2. /\ IsNext(GateNext(row)) /\ GateNext(row).op = nop
        /\ GateNext(row).vid = nvid /\ GateNext(row).scope = imp.next.scope
    BY <1>1 DEF IsNext, NextFields
  <1>3. QED
    BY <1>2 DEF nop, nvid

LEMMA OperationsType ==
  ASSUME TypeInv, ShapeInv, Operations, ~Raise
  PROVE  TypeInv'
  <1>1. /\ GoesOn /\ KeysHold(imp'.work) /\ imp.phase = "operations"
        /\ imp'.phase = IF imp.file = <<>> THEN "commit" ELSE "row"
        /\ imp'.i = 1 /\ imp'.op = [c \in FileCodes |-> IdOfCode(c)]
        /\ imp'.cache = imp.cache
        /\ imp'.next = [imp.next EXCEPT !.op = @ + Cardinality(NewCodes)]
        /\ imp'.work = [imp.work EXCEPT !.ops =
              {Grouped(o) : o \in imp.work.ops
                              \union {NewOperation(c) : c \in NewCodes}}]
    BY OperationsDo
  <1>2. /\ Sound(imp.work) /\ imp.file \in Files /\ imp.next.op \in Nat
        /\ IsNext(imp.next)
        /\ imp.next.vid \in Nat /\ imp.next.scope \in Nat /\ imp.cache = <<>>
    BY <1>1 DEF TypeInv, ShapeInv, OfRow, BeforeRows
  <1>3. \A c \in FileCodes : IdOfCode(c) \in Nat
    BY <1>2, IdOfCodeIs
  <1>4. {NewOperation(c) : c \in NewCodes} \subseteq Operation
    BY <1>3, CodesAre, <1>2 DEF NewOperation, Operation, NewCodes
  <1>5. \A o \in Operation : Grouped(o) \in Operation
    <2> TAKE o \in Operation
    <2>1. CASE o.code \in FileCodes /\ Parent[o.code] \in FileCodes
      <3>1. IdOfCode(Parent[o.code]) \in Nat
        BY <1>3, <2>1
      <3>2. QED
        BY <2>1, <3>1 DEF Grouped, Operation
    <2>2. CASE ~(o.code \in FileCodes /\ Parent[o.code] \in FileCodes)
      BY <2>2 DEF Grouped
    <2>3. QED
      BY <2>1, <2>2
  <1> DEFINE all == imp.work.ops \union {NewOperation(c) : c \in NewCodes}
             ops == {Grouped(o) : o \in all}
  <1>6. imp.work.ops \subseteq Operation /\ IsFiniteSet(imp.work.ops)
    BY <1>2 DEF Sound, Database
  <1>7. ops \subseteq Operation
    BY <1>4, <1>5, <1>6
  <1>8. IsFiniteSet(all)
    <2> DEFINE f == [c \in NewCodes |-> NewOperation(c)]
    <2>1. IsFiniteSet({f[c] : c \in NewCodes})
      BY <1>2, CodesAre, ImageIsFinite
    <2>2. IsFiniteSet({NewOperation(c) : c \in NewCodes})
      BY <2>1
    <2>3. QED
      BY <1>6, <2>2, FS_Union
  <1>9. IsFiniteSet(ops)
    <2> DEFINE g == [o \in all |-> Grouped(o)]
    <2>1. IsFiniteSet({g[o] : o \in all})
      BY <1>8, ImageIsFinite
    <2>2. QED
      BY <2>1
  <1> HIDE DEF ops, all
  <1>10. Sound(imp'.work)
    <2>1. imp'.work = [imp.work EXCEPT !.ops = ops]
      BY <1>1 DEF ops, all
    <2>2. QED
      BY <1>2, <1>7, <1>9, <2>1 DEF Sound, Database
  <1>11. /\ imp'.next.op \in Nat /\ imp'.next.vid \in Nat
         /\ imp'.next.scope \in Nat
    BY <1>1, <1>2, CodesAre DEF IsNext, NextFields
  <1>12. FileCodes' = FileCodes
    BY <1>1 DEF GoesOn, FileCodes
  <1>13. imp.file # <<>> => 1 \in DOMAIN imp.file
    <2>1. imp.file \in Seq(FileRow)
      BY <1>2, ImportAssumption
    <2>2. QED
      BY <2>1
  <1>14. DOMAIN imp.cache = {}
    BY <1>2
  <1>15. QED
    BY <1>1, <1>2, <1>3, <1>10, <1>11, <1>12, <1>13, <1>14
    DEF TypeInv, GoesOn, OfRow

LEMMA TakeRowType ==
  ASSUME TypeInv, ShapeInv, TakeRow, ~Raise
  PROVE  TypeInv'
  <1>1. /\ GoesOn /\ KeysHold(imp'.work)
        /\ imp.phase = "row" /\ Row.start # None
        /\ imp'.cache = GateCache(Row) /\ imp'.op = imp.op
        /\ \/ /\ AtNextRow
              /\ imp'.work = Gated.work /\ imp'.next = GateNext(Row)
           \/ /\ imp'.phase = "references" /\ imp'.i = imp.i
              /\ imp'.vid = GateNext(Row).vid
              /\ imp'.next = [GateNext(Row) EXCEPT !.vid = @ + 1]
              /\ imp'.work = [Gated.work EXCEPT !.versions = @ \union {RowVersion}]
    BY TakeRowDoes
  <1>2. /\ Sound(imp.work) /\ imp.file \in Files /\ imp.i \in DOMAIN imp.file
        /\ imp.next.op \in Nat /\ imp.next.vid \in Nat /\ imp.next.scope \in Nat
        /\ \A c \in FileCodes : c \in DOMAIN imp.op /\ imp.op[c] \in Nat
        /\ \A k \in DOMAIN imp.cache : imp.cache[k] \in Nat
        /\ IsImport(imp) /\ IsDatabase(imp.work) /\ IsNext(imp.next)
    BY <1>1 DEF TypeInv, ShapeInv, OfRow
  <1>3. Row \in FileRow /\ Row.code \in FileCodes /\ Row.start \in ReleaseId
    BY <1>1, <1>2, RowIs DEF FileRow
  <1>4. /\ GateOpsMade(Row) \subseteq Operation
        /\ IsFiniteSet(GateOpsMade(Row))
        /\ GateVersionsMade(Row) \subseteq OperationVersion
        /\ IsFiniteSet(GateVersionsMade(Row))
    BY <1>2, <1>3, MadeForGateIs
  <1>5. Gated.work = [imp.work EXCEPT !.ops = @ \union GateOpsMade(Row),
                                      !.versions = @ \union GateVersionsMade(Row)]
    BY <1>2, GateDoes DEF Gated
  <1>6. Sound(Gated.work)
    <2> DEFINE ops == imp.work.ops \union GateOpsMade(Row)
               versions == imp.work.versions \union GateVersionsMade(Row)
    <2>1. ops \subseteq Operation /\ versions \subseteq OperationVersion
      BY <1>2, <1>4 DEF Sound, Database
    <2>2. IsFiniteSet(ops) /\ IsFiniteSet(versions)
      BY <1>2, <1>4, FS_Union DEF Sound
    <2>3. Gated.work = [imp.work EXCEPT !.ops = ops, !.versions = versions]
      BY <1>5
    <2> HIDE DEF ops, versions
    <2>4. QED
      BY <1>2, <2>1, <2>2, <2>3 DEF Sound, Database
  <1>7. /\ GateNext(Row).op \in Nat /\ GateNext(Row).vid \in Nat
        /\ GateNext(Row).scope \in Nat /\ IsNext(GateNext(Row))
    BY <1>2, GateNextIs
  <1>8. \A k \in DOMAIN GateCache(Row) : GateCache(Row)[k] \in Nat
    BY <1>2, CacheIs, GateIs
  <1>9. RowVersion \in OperationVersion
    <2>1. RowGate \in Nat \union {None}
      BY <1>8, CacheIs DEF RowGate
    <2>2. QED
      BY <1>2, <1>3, <1>7, <2>1 DEF RowVersion, NewVersion, OperationVersion, FileRow
  <1>10. Sound(imp'.work)
    <2>1. CASE imp'.work = Gated.work
      BY <1>6, <2>1
    <2>2. CASE imp'.work = [Gated.work EXCEPT !.versions = @ \union {RowVersion}]
      <3>1. IsFiniteSet(Gated.work.versions \union {RowVersion})
        BY <1>6, FS_AddElement DEF Sound
      <3>2. QED
        BY <1>6, <1>9, <2>2, <3>1 DEF Sound, Database
    <2>3. QED
      BY <1>1, <2>1, <2>2
  <1>11. /\ imp'.next.op \in Nat /\ imp'.next.vid \in Nat
         /\ imp'.next.scope \in Nat
    BY <1>1, <1>7 DEF IsNext, NextFields
  <1>12. FileCodes' = FileCodes
    BY <1>1 DEF GoesOn, FileCodes
  <1>13. imp'.phase = "references" => Row' = Row /\ imp'.vid \in Nat
    BY <1>1, <1>7 DEF GoesOn, Row, AtNextRow
  <1>14. /\ imp'.phase \in {"row", "references", "commit"}
         /\ imp'.phase \in OfRow => imp'.i \in DOMAIN imp'.file
    <2>1. imp.file \in Seq(FileRow)
      BY <1>2, ImportAssumption
    <2>2. imp.i # Len(imp.file) => imp.i + 1 \in DOMAIN imp.file
      BY <1>2, <2>1
    <2>3. QED
      BY <1>1, <1>2, <2>2 DEF GoesOn, AtNextRow, OfRow
  <1>15. imp'.phase # "idle" => Sound(imp'.work) /\ KeysHold(imp'.work)
                                  /\ imp'.file \in Files
    BY <1>1, <1>2, <1>10 DEF GoesOn
  <1>16. Sound(db') /\ KeysHold(db') /\ whole' \subseteq Files
    BY <1>1 DEF TypeInv, GoesOn
  <1>17. imp'.phase \in {"references", "scopes"} =>
           Row' \in FileRow /\ Row'.start \in ReleaseId /\ imp'.vid \in Nat
    BY <1>3, <1>13, <1>14
  <1>18. /\ \A c \in FileCodes' : c \in DOMAIN imp'.op /\ imp'.op[c] \in Nat
         /\ \A k \in DOMAIN imp'.cache : imp'.cache[k] \in Nat
    BY <1>1, <1>2, <1>8, <1>12
  <1>19. imp'.phase # "scopes"
    BY <1>14
  <1>20. QED
    BY <1>11, <1>14, <1>15, <1>16, <1>17, <1>18, <1>19 DEF TypeInv

LEMMA ReferencesType ==
  ASSUME TypeInv, ShapeInv, References, ~Raise
  PROVE  TypeInv'
  <1>1. /\ GoesOn /\ StaysAtRow /\ KeysHold(imp'.work)
        /\ imp.phase = "references" /\ imp'.phase = "scopes"
        /\ imp'.releases = RowReleases /\ imp'.next = imp.next
    BY ReferencesDo
  <1>2. PICK nodes \in {{}, {NewNode}} :
          imp'.work = [imp.work EXCEPT !.nodes = @ \union nodes]
    BY ReferencesDo
  <1>3. /\ Sound(imp.work) /\ imp.file \in Files /\ imp.i \in DOMAIN imp.file
        /\ imp.vid \in Nat /\ Row.start \in ReleaseId
    BY <1>1 DEF TypeInv, OfRow
  <1>4. NewNode \in OperationNode
    BY <1>3, IdsAre, NextIdIs DEF NewNode, NodeIds, OperationNode
  <1>5. Sound(imp'.work)
    <2>1. /\ IsFiniteSet(imp.work.nodes \union nodes)
          /\ nodes \subseteq OperationNode
      <3>1. CASE nodes = {}
        BY <1>3, <3>1 DEF Sound
      <3>2. CASE nodes = {NewNode}
        <4>1. IsFiniteSet(imp.work.nodes)
          BY <1>3 DEF Sound
        <4>2. QED
          BY <1>4, <3>2, <4>1, FS_AddElement
      <3>3. QED
        BY <3>1, <3>2
    <2>2. QED
      BY <1>2, <1>3, <2>1 DEF Sound, Database
  <1>6. Row' = Row /\ FileCodes' = FileCodes
    BY <1>1 DEF GoesOn, StaysAtRow, Row, FileCodes
  <1>7. /\ RowReleases \subseteq ReleaseId
        /\ RowReleases # {} => Row.text \in Text
    BY <1>3, RowIs, RowReleasesAre
  <1>8. QED
    BY <1>1, <1>3, <1>5, <1>6, <1>7 DEF TypeInv, GoesOn, StaysAtRow, OfRow

LEMMA NewScopesAre ==
  ASSUME TypeInv, imp.phase = "scopes", NEW r \in imp.releases
  PROVE  /\ NewScopes(r) \in SUBSET Nat /\ IsFiniteSet(NewScopes(r))
         /\ Cardinality(NewScopes(r)) \in Nat
  <1>1. <<Row.text, r>> \in Text \X ReleaseId
    BY DEF TypeInv
  <1>2. ScopesOf[Row.text, r] \in SUBSET Nat /\ IsFiniteSet(ScopesOf[Row.text, r])
    BY <1>1, ImportAssumption, DataAssumption
  <1>3. QED
    BY <1>2, FS_Subset, FS_CardinalityType DEF NewScopes

LEMMA ScopeType ==
  ASSUME TypeInv, ShapeInv, NEW r \in imp.releases, Scope(r), ~Raise
  PROVE  TypeInv'
  <1>1. /\ GoesOn /\ StaysAtRow /\ KeysHold(imp'.work)
        /\ imp.phase = "scopes" /\ imp'.phase = "scopes"
        /\ imp'.releases = imp.releases \ {r}
        /\ imp'.next =
             [imp.next EXCEPT !.scope = @ + Cardinality(NewScopes(r))]
        /\ imp'.work = [imp.work EXCEPT !.scopes = @ \union ScopesMade(r)]
    BY ScopeDoes
  <1>2. /\ Sound(imp.work) /\ imp.next.scope \in Nat /\ imp.vid \in Nat
        /\ imp.next.op \in Nat /\ imp.next.vid \in Nat /\ IsNext(imp.next)
    BY <1>1 DEF TypeInv, ShapeInv, OfRow
  <1>3. /\ NewScopes(r) \in SUBSET Nat /\ IsFiniteSet(NewScopes(r))
        /\ Cardinality(NewScopes(r)) \in Nat
    BY <1>1, NewScopesAre
  <1>4. \A s \in NewScopes(r) : ScopeIdOf(r, s) \in Nat
    <2> TAKE s \in NewScopes(r)
    <2>1. IsFiniteSet({t \in NewScopes(r) : t < s})
      BY <1>3, FS_Subset
    <2>2. Cardinality({t \in NewScopes(r) : t < s}) \in Nat
      BY <2>1, FS_CardinalityType
    <2>3. QED
      BY <1>2, <2>2 DEF ScopeIdOf
  <1>5. ScopesMade(r) \subseteq OperationScope
    BY <1>2, <1>3, <1>4 DEF ScopesMade, OperationScope
  <1>6. IsFiniteSet(ScopesMade(r))
    <2> DEFINE f == [s \in NewScopes(r) |->
                      [id |-> ScopeIdOf(r, s), vid |-> imp.vid, modules |-> s]]
    <2>1. IsFiniteSet({f[s] : s \in NewScopes(r)})
      BY <1>3, ImageIsFinite
    <2>2. QED
      BY <2>1 DEF ScopesMade
  <1>7. Sound(imp'.work)
    <2>1. IsFiniteSet(imp.work.scopes \union ScopesMade(r))
      BY <1>2, <1>6, FS_Union DEF Sound
    <2>2. QED
      BY <1>1, <1>2, <1>5, <2>1 DEF Sound, Database
  <1>8. Row' = Row /\ FileCodes' = FileCodes
    BY <1>1 DEF GoesOn, StaysAtRow, Row, FileCodes
  <1>9. /\ imp'.next.op \in Nat /\ imp'.next.vid \in Nat
        /\ imp'.next.scope \in Nat
    BY <1>1, <1>2, <1>3 DEF IsNext, NextFields
  <1>10. QED
    BY <1>1, <1>7, <1>8, <1>9 DEF TypeInv, GoesOn, StaysAtRow, OfRow

LEMMA FloorsType ==
  ASSUME TypeInv, ShapeInv, CheckFloors, ~Raise
  PROVE  TypeInv'
  <1> DEFINE w == imp.work
  <1>1. /\ GoesOn /\ imp.phase = "floors" /\ imp'.phase = "operations"
        /\ imp'.work = imp.work
        /\ imp'.next = [op |-> NextIntId(OpIds(w)), vid |-> NextIntId(Vids(w)),
                        scope |-> NextIntId(ScopeIds(w))]
    BY FloorsDo, Zenon DEF ScopeIds
  <1>2. Sound(w) /\ KeysHold(w) /\ imp.file \in Files
    BY <1>1 DEF TypeInv
  <1>3. /\ NextIntId(OpIds(w)) \in Nat /\ NextIntId(Vids(w)) \in Nat
        /\ NextIntId(ScopeIds(w)) \in Nat
    BY <1>2, IdsAre, NextIdIs
  <1>4. /\ imp'.next.op \in Nat /\ imp'.next.vid \in Nat
        /\ imp'.next.scope \in Nat
    BY <1>1, <1>3
  <1>5. QED
    BY <1>1, <1>2, <1>4 DEF TypeInv, GoesOn, OfRow

LEMMA TypeIsInitial ==
  ASSUME Init
  PROVE  TypeInv
  <1>1. db \in Databases /\ whole = {}
    BY DEF Init
  <1>2. Sound(db) /\ KeysHold(db)
    BY <1>1, ImportAssumption, DataAssumption DEF Sound
  <1>3. QED
    BY <1>1, <1>2, ShapeIsInitial DEF TypeInv, OfRow

LEMMA TypeKeeps ==
  ASSUME TypeInv, ShapeInv, [Next]_vars
  PROVE  TypeInv'
  <1>1. CASE Ends
    <2>1. imp'.phase = "idle"
      BY <1>1, EndsDoes
    <2>2. Sound(db') /\ KeysHold(db') /\ whole' \subseteq Files
      BY <1>1 DEF Ends, TypeInv
    <2>3. QED
      BY <2>1, <2>2 DEF TypeInv, OfRow
  <1>2. CASE UNCHANGED vars
    <2>1. Row' = Row /\ FileCodes' = FileCodes
      BY <1>2 DEF vars, Row, FileCodes
    <2>2. QED
      BY <1>2, <2>1 DEF vars, TypeInv
  <1>3. ASSUME NEW file \in Files, Start(file)
        PROVE  TypeInv'
    BY <1>3, StartDoes DEF TypeInv, OfRow
  <1>4. CASE ~Raise /\ Organisation
    <2>1. /\ db' = db /\ whole' = whole /\ imp.phase = "organisation"
          /\ imp'.phase = "floors" /\ IsDatabase(imp'.work)
          /\ SameRows(imp'.work, imp.work) /\ imp'.work.org = "ECB"
          /\ imp'.file = imp.file
      BY <1>4, OrganisationDoes
    <2>2. Sound(imp.work) /\ KeysHold(imp.work) /\ imp.file \in Files
      BY <2>1 DEF TypeInv
    <2>3. KeysHold(imp'.work)
      BY <2>1, <2>2 DEF KeysHold, SameRows, OpIds, Vids
    <2>4. Sound(imp'.work)
      <3>1. imp'.work = [org |-> "ECB", ops |-> imp.work.ops,
                         versions |-> imp.work.versions,
                         nodes |-> imp.work.nodes, scopes |-> imp.work.scopes]
        BY <2>1 DEF IsDatabase, DatabaseFields, SameRows
      <3>2. QED
        BY <2>2, <3>1 DEF Sound, Database
    <2>5. QED
      BY <2>1, <2>2, <2>3, <2>4 DEF TypeInv, OfRow
  <1>5. CASE ~Raise /\ LoseTransaction
    <2>1. /\ GoesOn /\ StaysAtRow
          /\ imp.phase \in {"references", "scopes"} /\ imp'.phase = "scopes"
          /\ imp'.work = db /\ imp'.next = imp.next
          /\ IF imp.phase = "references" THEN imp'.releases = RowReleases
             ELSE imp'.releases \subseteq imp.releases
      BY <1>5, LoseTransactionDoes
    <2>2. imp.file \in Files /\ imp.i \in DOMAIN imp.file /\ Row.start \in ReleaseId
      BY <2>1 DEF TypeInv, OfRow
    <2>3. Row' = Row /\ FileCodes' = FileCodes
      BY <2>1 DEF GoesOn, StaysAtRow, Row, FileCodes
    <2>4. /\ imp'.releases \subseteq ReleaseId
          /\ imp'.releases # {} => Row.text \in Text
      BY <2>1, <2>2, RowIs, RowReleasesAre DEF TypeInv
    <2>5. QED
      BY <2>1, <2>2, <2>3, <2>4 DEF TypeInv, GoesOn, StaysAtRow, OfRow
  <1>6. CASE SkipRow \/ EndRow
    <2>1. /\ GoesOn /\ AtNextRow /\ imp.phase \in {"row", "scopes"}
          /\ imp'.work = imp.work /\ imp'.next = imp.next
          /\ imp'.cache = imp.cache
      BY <1>6, RowEndsAre, RowEndDoes
    <2>2. imp.file \in Files /\ imp.i \in DOMAIN imp.file
      BY <2>1 DEF TypeInv, OfRow
    <2>3. imp'.phase = "row" => imp'.i \in DOMAIN imp'.file
      <3>1. imp.file \in Seq(FileRow)
        BY <2>2, ImportAssumption
      <3>2. imp.i # Len(imp.file) => imp.i + 1 \in DOMAIN imp.file
        BY <2>2, <3>1
      <3>3. QED
        BY <2>1, <3>2 DEF GoesOn, AtNextRow
    <2>4. FileCodes' = FileCodes
      BY <2>1 DEF GoesOn, FileCodes
    <2>5. QED
      BY <2>1, <2>2, <2>3, <2>4 DEF TypeInv, GoesOn, AtNextRow, OfRow
  <1>7. CASE Commit
    <2>1. /\ db' = imp.work /\ imp.phase = "commit"
          /\ whole' \subseteq whole \union {imp.file}
          /\ imp'.phase = "verify" /\ imp'.file = imp.file
          /\ imp'.work = imp.work
      BY <1>7, CommitDoes
    <2>2. QED
      BY <2>1 DEF TypeInv, OfRow
  <1>8. QED
    BY <1>1, <1>2, <1>3, <1>4, <1>5, <1>6, <1>7, FloorsType, OperationsType,
       TakeRowType, ReferencesType, ScopeType, StepsAre

LEMMA Typed == Spec => []TypeInv
  <1>1. Init => TypeInv
    BY TypeIsInitial
  <1>2. QED
    BY <1>1, Shape, TypeKeeps, PTL DEF Spec

\* The rows of the database and of the session are well-formed, their keys hold
\* in the database, and the import is at a row of its file while it has one.
THEOREM TypeCorrect == Spec => []TypeOK
  <1>1. TypeInv /\ ShapeInv => TypeOK
    BY DEF TypeInv, ShapeInv, TypeOK, Sound, OfRow
  <1>2. QED
    BY <1>1, Typed, Shape, PTL

-----------------------------------------------------------------------------
\* Whose gates the gates are

\* Is a version of a database the precondition of a text at a release?
GateAt(d, vid, start, text) ==
  \E g \in d.versions, p \in d.ops :
    /\ g.vid = vid /\ g.start = start /\ g.text = text
    /\ p.id = g.op /\ p.type = "precondition"

\* Is a version that of a row, and its gate the precondition of the row?
FromRow(d, v) ==
  \E o \in d.ops, f \in Files :
    \E i \in DOMAIN f :
      /\ o.id = v.op /\ f[i].code = o.code
      /\ f[i].start = v.start /\ f[i].text = v.text
      /\ GateAt(d, v.gate, v.start, f[i].gate)

GatesOwn(d) ==
  \A v \in d.versions : v.vid >= Base /\ v.gate # None => FromRow(d, v)

\* The next IDs are above those of a database.
Above(next, d) ==
  /\ \A o \in d.ops : o.id < next.op
  /\ \A v \in d.versions : v.vid < next.vid

\* Rows but for their groups.
SameOp(o, p) == o.id = p.id /\ o.code = p.code /\ o.type = p.type

\* Has a database all the rows of another?
Extends(e, d) ==
  /\ \A o \in d.ops : \E p \in e.ops : SameOp(o, p)
  /\ d.versions \subseteq e.versions

\* Are its rows with an ID of the other those of the other?
Agrees(e, d) ==
  /\ \A p \in e.ops : p.id \in OpIds(d) => \E o \in d.ops : SameOp(o, p)
  /\ \A v \in e.versions : v.vid \in Vids(d) => v \in d.versions

\* The cached versions and the operations of the codes, as far as they are in a
\* database, are what they were made for.
CacheHolds(cache, d) ==
  \A k \in DOMAIN cache :
    cache[k] \in Vids(d) => GateAt(d, cache[k], k[2], k[1])
OpsHold(op, codes, d) ==
  \A c \in codes :
    op[c] \in OpIds(d) => \E o \in d.ops : o.id = op[c] /\ o.code = c

GateInv ==
  /\ GatesOwn(db)
  /\ imp.phase # "idle" => GatesOwn(imp.work)
  /\ imp.phase \in {"operations"} \union OfRow =>
       Above(imp.next, db) /\ Above(imp.next, imp.work)
  /\ imp.phase \in OfRow =>
       /\ Agrees(imp.work, db)
       /\ CacheHolds(imp.cache, db) /\ CacheHolds(imp.cache, imp.work)
       /\ \A k \in DOMAIN imp.cache : imp.cache[k] < imp.next.vid
       /\ OpsHold(imp.op, FileCodes, db) /\ OpsHold(imp.op, FileCodes, imp.work)
       /\ \A c \in FileCodes : imp.op[c] < imp.next.op

LEMMA GatesExtend ==
  ASSUME NEW d, NEW e, Extends(e, d)
  PROVE  /\ \A vid, start, text :
              GateAt(d, vid, start, text) => GateAt(e, vid, start, text)
         /\ \A v : FromRow(d, v) => FromRow(e, v)
  <1>1. ASSUME NEW vid, NEW start, NEW text, GateAt(d, vid, start, text)
        PROVE  GateAt(e, vid, start, text)
    BY <1>1 DEF GateAt, Extends, SameOp
  <1>2. ASSUME NEW v, FromRow(d, v)
        PROVE  FromRow(e, v)
    <2>1. PICK o \in d.ops, f \in Files :
            \E i \in DOMAIN f :
              /\ o.id = v.op /\ f[i].code = o.code
              /\ f[i].start = v.start /\ f[i].text = v.text
              /\ GateAt(d, v.gate, v.start, f[i].gate)
      BY <1>2 DEF FromRow
    <2>2. PICK i \in DOMAIN f :
              /\ o.id = v.op /\ f[i].code = o.code
              /\ f[i].start = v.start /\ f[i].text = v.text
              /\ GateAt(d, v.gate, v.start, f[i].gate)
      BY <2>1
    <2>3. PICK p \in e.ops : p.id = o.id /\ p.code = o.code
      BY DEF Extends, SameOp
    <2>4. QED
      BY <1>1, <2>2, <2>3 DEF FromRow
  <1>3. QED
    BY <1>1, <1>2

LEMMA GateIsInitial ==
  ASSUME Init
  PROVE  GateInv
  <1>1. /\ db \in Databases
        /\ \A v \in db.versions : v.gate # None => v.vid < Base
    BY DataAssumption DEF Init
  <1>2. \A v \in db.versions : v.vid \in Nat
    BY <1>1, ImportAssumption, RowsAre
  <1>3. GatesOwn(db)
    BY <1>1, <1>2, ImportAssumption DEF GatesOwn
  <1>4. QED
    BY <1>3, ShapeIsInitial DEF GateInv, OfRow

LEMMA GroupedIs ==
  ASSUME NEW o \in Operation
  PROVE  SameOp(o, Grouped(o))
  BY DEF Grouped, SameOp, Operation

LEMMA OperationsOwn ==
  ASSUME GateInv, TypeInv, ShapeInv, Operations, ~Raise
  PROVE  GateInv'
  <1> DEFINE made == {NewOperation(c) : c \in NewCodes}
             ops == {Grouped(o) : o \in imp.work.ops \union made}
             n == Cardinality(NewCodes)
  <1>1. /\ GoesOn /\ imp.phase = "operations"
        /\ imp'.phase \in {"row", "commit"}
        /\ imp'.op = [c \in FileCodes |-> IdOfCode(c)]
        /\ imp'.cache = imp.cache
        /\ imp'.next = [imp.next EXCEPT !.op = @ + n]
        /\ imp'.work = [imp.work EXCEPT !.ops = ops]
    BY OperationsDo
  <1>2. /\ Sound(imp.work) /\ Sound(db) /\ imp.file \in Files
        /\ imp.next.op \in Nat /\ IsNext(imp.next) /\ IsDatabase(imp.work)
        /\ SameRows(db, imp.work) /\ imp.cache = <<>>
        /\ Above(imp.next, db) /\ Above(imp.next, imp.work)
        /\ GatesOwn(imp.work) /\ GatesOwn(db)
    BY <1>1 DEF TypeInv, ShapeInv, GateInv, OfRow, BeforeRows
  <1>3. \A o \in imp.work.ops : o \in Operation /\ o.id \in Nat
    BY <1>2, RowsAre DEF Sound
  <1>4. n \in Nat
    BY <1>2, CodesAre
  <1>5. /\ imp'.work.ops = ops /\ imp'.work.versions = imp.work.versions
        /\ imp'.next.op = imp.next.op + n /\ imp'.next.vid = imp.next.vid
    BY <1>1, <1>2 DEF IsNext, NextFields, IsDatabase, DatabaseFields
  <1> HIDE DEF n
  <1>6. \A c \in NewCodes :
          /\ IdOfCode(c) \in Nat
          /\ imp.next.op <= IdOfCode(c) /\ IdOfCode(c) < imp.next.op + n
    <2> TAKE c \in NewCodes
    <2>1. c \in FileCodes
      BY DEF NewCodes
    <2>2. IdOfCode(c) = imp.next.op + Cardinality({d \in NewCodes : d < c})
      BY <1>2, <2>1, IdOfCodeIs
    <2>3. /\ NewCodes \in SUBSET Nat /\ IsFiniteSet(NewCodes)
      BY <1>2, CodesAre
    <2>4. /\ {imp.next.op + Cardinality({d \in NewCodes : d < x}) : x \in NewCodes}
               = imp.next.op..(imp.next.op + Cardinality(NewCodes) - 1)
      BY <1>2, <2>3, RanksOfNat
    <2>5. IdOfCode(c) \in imp.next.op..(imp.next.op + n - 1)
      BY <2>2, <2>4 DEF n
    <2>6. QED
      BY <1>2, <1>4, <2>5
  <1>7. \A c \in NewCodes :
          NewOperation(c) \in Operation /\ NewOperation(c).id = IdOfCode(c)
          /\ NewOperation(c).code = c
    <2> TAKE c \in NewCodes
    <2>1. c \in Nat
      BY <1>2, CodesAre
    <2>2. QED
      BY <1>6, <2>1 DEF NewOperation, Operation
  <1>8. \A c \in FileCodes :
          IF c \in NewCodes THEN NewOperation(c) \in made
          ELSE \E o \in imp.work.ops : o.code = c /\ o.id = IdOfCode(c)
    BY <1>2, IdOfCodeIs DEF Known
  <1>9. \A o \in imp.work.ops \union made :
          SameOp(o, Grouped(o)) /\ Grouped(o) \in ops
    BY <1>3, <1>7, GroupedIs
  <1>10. \A p \in ops : \E o \in imp.work.ops \union made : SameOp(o, p)
    BY <1>9
  <1> HIDE DEF ops
  <1>11. Extends(imp'.work, imp.work)
    BY <1>5, <1>9 DEF Extends
  <1>12. Above(imp'.next, db) /\ Above(imp'.next, imp'.work)
    <2>1. \A o \in imp.work.ops : o.id < imp.next.op + n
      BY <1>2, <1>3, <1>4 DEF Above
    <2>2. \A p \in ops : p.id < imp.next.op + n
      BY <1>6, <1>7, <1>10, <2>1 DEF SameOp
    <2>3. QED
      BY <1>2, <1>5, <2>1, <2>2 DEF Above, SameRows
  <1>13. Agrees(imp'.work, db)
    <2>1. ASSUME NEW p \in ops, p.id \in OpIds(db)
          PROVE  \E o \in db.ops : SameOp(o, p)
      <3>1. PICK o \in imp.work.ops \union made : SameOp(o, p)
        BY <1>10
      <3>2. o \notin made
        <4>1. p.id \in Nat /\ p.id < imp.next.op
          BY <1>2, <1>3, <2>1 DEF OpIds, Above, SameRows
        <4>2. \A c \in NewCodes : p.id # IdOfCode(c)
          BY <1>2, <1>6, <4>1
        <4>3. QED
          BY <1>7, <3>1, <4>2 DEF SameOp
      <3>3. QED
        BY <1>2, <3>1, <3>2 DEF SameRows
    <2>2. QED
      BY <1>2, <1>5, <2>1 DEF Agrees, SameRows
  <1>14. FileCodes' = FileCodes
    BY <1>1 DEF GoesOn, FileCodes
  <1>15. OpsHold(imp'.op, FileCodes, db)
    <2>1. ASSUME NEW c \in FileCodes, IdOfCode(c) \in OpIds(db)
          PROVE  \E o \in db.ops : o.id = IdOfCode(c) /\ o.code = c
      <3>1. c \notin NewCodes
        <4>1. IdOfCode(c) \in Nat /\ IdOfCode(c) < imp.next.op
          BY <1>2, <1>3, <2>1 DEF OpIds, Above, SameRows
        <4>2. QED
          BY <1>2, <1>6, <4>1
      <3>2. QED
        BY <1>2, <1>8, <3>1 DEF SameRows
    <2>2. QED
      BY <1>1, <2>1 DEF OpsHold
  <1>16. OpsHold(imp'.op, FileCodes, imp'.work)
    <2>1. ASSUME NEW c \in FileCodes
          PROVE  \E p \in ops : p.id = IdOfCode(c) /\ p.code = c
      <3>1. CASE c \in NewCodes
        BY <1>7, <1>8, <1>9, <3>1 DEF SameOp
      <3>2. CASE c \notin NewCodes
        BY <1>8, <1>9, <3>2 DEF SameOp
      <3>3. QED
        BY <3>1, <3>2
    <2>2. QED
      BY <1>1, <1>5, <2>1 DEF OpsHold
  <1>17. \A c \in FileCodes : imp'.op[c] < imp'.next.op
    <2> TAKE c \in FileCodes
    <2>1. IdOfCode(c) < imp.next.op + n
      <3>1. CASE c \in NewCodes
        BY <1>6, <3>1
      <3>2. CASE c \notin NewCodes
        BY <1>2, <1>3, <1>4, <1>8, <3>2 DEF Above
      <3>3. QED
        BY <3>1, <3>2
    <2>2. QED
      BY <1>1, <1>5, <2>1
  <1>18. GatesOwn(imp'.work)
    BY <1>2, <1>5, <1>11, GatesExtend DEF GatesOwn
  <1>19. DOMAIN imp'.cache = {}
    BY <1>1, <1>2
  <1>20. CacheHolds(imp'.cache, db) /\ CacheHolds(imp'.cache, imp'.work)
    BY <1>19 DEF CacheHolds
  <1>21. db' = db
    BY <1>1 DEF GoesOn
  <1>22. QED
    BY <1>1, <1>2, <1>12, <1>13, <1>14, <1>15, <1>16, <1>17, <1>18, <1>19,
       <1>20, <1>21 DEF GateInv

\* What the precondition of a row does to it.
LEMMA GatedOwns ==
  ASSUME GateInv, TypeInv, ShapeInv, imp.phase = "row", Row.start # None
  PROVE  LET next == GateNext(Row)
             cache == GateCache(Row)
         IN /\ Extends(Gated.work, imp.work)
            /\ Above(next, db) /\ Above(next, Gated.work)
            /\ Agrees(Gated.work, db)
            /\ CacheHolds(cache, db) /\ CacheHolds(cache, Gated.work)
            /\ \A k \in DOMAIN cache : cache[k] < next.vid
            /\ OpsHold(imp.op, FileCodes, Gated.work)
            /\ \A c \in FileCodes : imp.op[c] < next.op
            /\ GatesOwn(Gated.work)
            /\ Sound(Gated.work) /\ IsDatabase(Gated.work)
            /\ next.op \in Nat /\ next.vid \in Nat /\ IsNext(next)
            /\ \A k \in DOMAIN cache : cache[k] \in Nat
  <1> DEFINE next == GateNext(Row)
             cache == GateCache(Row)
             w == imp.work
             e == Gated.work
             ops == GateOpsMade(Row)
             versions == GateVersionsMade(Row)
             id == GateOp(Row)
             vid == GateVid(Row)
  <1>1. /\ Sound(w) /\ Sound(db) /\ KeysHold(w) /\ KeysHold(db)
        /\ imp.file \in Files /\ imp.i \in DOMAIN imp.file
        /\ imp.next.op \in Nat /\ imp.next.vid \in Nat
        /\ \A c \in FileCodes : imp.op[c] \in Nat
        /\ \A k \in DOMAIN imp.cache : imp.cache[k] \in Nat
        /\ IsImport(imp) /\ IsDatabase(w) /\ IsNext(imp.next)
    BY DEF TypeInv, ShapeInv, OfRow
  <1>2. /\ GatesOwn(w) /\ Above(imp.next, db) /\ Above(imp.next, w)
        /\ Agrees(w, db)
        /\ CacheHolds(imp.cache, db) /\ CacheHolds(imp.cache, w)
        /\ \A k \in DOMAIN imp.cache : imp.cache[k] < imp.next.vid
        /\ OpsHold(imp.op, FileCodes, w)
        /\ \A c \in FileCodes : imp.op[c] < imp.next.op
    BY DEF GateInv, OfRow
  <1>3. Row \in FileRow /\ Row.start \in ReleaseId
    BY <1>1, RowIs DEF FileRow
  <1>4. /\ ops \subseteq Operation /\ IsFiniteSet(ops)
        /\ versions \subseteq OperationVersion /\ IsFiniteSet(versions)
    BY <1>1, <1>3, MadeForGateIs
  <1>5. IsDatabase(e) /\ e = [w EXCEPT !.ops = @ \union ops,
                                       !.versions = @ \union versions]
    BY <1>1, GateDoes DEF Gated
  <1>6. /\ e.ops = w.ops \union ops
        /\ e.versions = w.versions \union versions
    BY <1>1, <1>5 DEF IsDatabase, DatabaseFields
  <1>7. Sound(e)
    <2>1. IsFiniteSet(w.ops \union ops) /\ IsFiniteSet(w.versions \union versions)
      BY <1>1, <1>4, FS_Union DEF Sound
    <2>2. e \in Database
      <3>1. w \in Database
        BY <1>1 DEF Sound
      <3>2. QED
        BY <1>4, <1>5, <3>1 DEF Database
    <2>3. e.nodes = w.nodes /\ e.scopes = w.scopes
      BY <1>1, <1>5 DEF IsDatabase, DatabaseFields
    <2>4. QED
      BY <1>1, <1>6, <2>1, <2>2, <2>3 DEF Sound
  <1>8. /\ IsNext(next)
        /\ next.op = IF ops = {} THEN imp.next.op ELSE imp.next.op + 1
        /\ next.vid = IF versions = {} THEN imp.next.vid ELSE imp.next.vid + 1
    BY <1>1, GateNextIs
  <1>9. /\ id \in Nat /\ vid \in Nat
        /\ GateOps(Row) # {} => \E o \in GateOps(Row) : o.id = id
        /\ GateVersions(Row) # {} => \E v \in GateVersions(Row) : v.vid = vid
        /\ GateOps(Row) = {} => id = imp.next.op
        /\ GateVersions(Row) = {} => vid = imp.next.vid
    BY <1>1, GateIs
  <1>10. \A o \in ops :
           /\ NeedsGate(Row) /\ GateOps(Row) = {}
           /\ o.id = imp.next.op /\ o.type = "precondition"
    BY <1>9 DEF GateOpsMade
  <1>11. \A v \in versions :
           /\ NeedsGate(Row) /\ GateVersions(Row) = {}
           /\ v.vid = imp.next.vid /\ v.gate = None
    BY <1>9 DEF GateVersionsMade, NewVersion
  <1>12. NeedsGate(Row) => /\ GateOps(Row) = {} => ops # {}
                           /\ GateVersions(Row) = {} => versions # {}
    BY DEF GateOpsMade, GateVersionsMade
  <1>13. \A o \in w.ops \union db.ops : o.id \in Nat /\ o.id < imp.next.op
    BY <1>1, <1>2, RowsAre DEF Sound, Above
  <1>14. \A v \in w.versions \union db.versions :
           v.vid \in Nat /\ v.vid < imp.next.vid
    BY <1>1, <1>2, RowsAre DEF Sound, Above
  <1>15. \A k \in DOMAIN cache :
           \/ k \in DOMAIN imp.cache /\ cache[k] = imp.cache[k]
           \/ NeedsGate(Row) /\ k = <<Row.gate, Row.start>> /\ cache[k] = vid
    BY CacheIs DEF CacheKey
  <1> HIDE DEF next, cache, e, ops, versions, id, vid
  <1>16. Extends(e, w)
    BY <1>6 DEF Extends, SameOp
  <1>17. Above(next, db) /\ Above(next, e)
    <2>1. imp.next.op <= next.op /\ imp.next.vid <= next.vid
          /\ next.op \in Nat /\ next.vid \in Nat
      BY <1>1, <1>8
    <2>2. /\ \A o \in w.ops \union db.ops : o.id < next.op
          /\ \A v \in w.versions \union db.versions : v.vid < next.vid
      BY <1>1, <1>13, <1>14, <2>1
    <2>3. \A o \in ops : o.id < next.op
      BY <1>1, <1>8, <1>10
    <2>4. \A v \in versions : v.vid < next.vid
      BY <1>1, <1>8, <1>11
    <2>5. QED
      BY <1>6, <2>2, <2>3, <2>4 DEF Above
  <1>18. Agrees(e, db)
    <2>1. \A o \in ops : o.id \notin OpIds(db)
      BY <1>1, <1>10, <1>13 DEF OpIds
    <2>2. \A v \in versions : v.vid \notin Vids(db)
      BY <1>1, <1>11, <1>14 DEF Vids
    <2>3. QED
      BY <1>2, <1>6, <2>1, <2>2 DEF Agrees
  <1>19. ASSUME NeedsGate(Row)
         PROVE  \E p \in e.ops : p.id = id /\ p.type = "precondition"
    <2>1. CASE GateOps(Row) = {}
      BY <1>6, <1>9, <1>10, <1>12, <1>19, <2>1
    <2>2. CASE GateOps(Row) # {}
      BY <1>6, <1>9, <2>2 DEF GateOps
    <2>3. QED
      BY <2>1, <2>2
  <1>20. ASSUME NeedsGate(Row)
         PROVE  GateAt(e, vid, Row.start, Row.gate)
    <2>1. \E g \in e.versions :
            g.vid = vid /\ g.start = Row.start /\ g.text = Row.gate /\ g.op = id
      <3>1. CASE GateVersions(Row) = {}
        <4>1. NewVersion(vid, id, Row, None, None, Row.gate) \in versions
          BY <1>20, <3>1 DEF versions, GateVersionsMade, vid, id
        <4>2. QED
          BY <1>6, <4>1 DEF NewVersion
      <3>2. CASE GateVersions(Row) # {}
        BY <1>6, <1>9, <3>2 DEF GateVersions, id
      <3>3. QED
        BY <3>1, <3>2
    <2>2. QED
      BY <1>19, <1>20, <2>1 DEF GateAt
  <1>21. ASSUME NeedsGate(Row), vid \in Vids(db)
         PROVE  GateAt(db, vid, Row.start, Row.gate)
    <2>1. vid # imp.next.vid
      BY <1>1, <1>14, <1>21 DEF Vids
    <2>2. PICK v \in GateVersions(Row) : v.vid = vid
      BY <1>9, <2>1
    <2>3. /\ v \in db.versions /\ v.start = Row.start /\ v.text = Row.gate
          /\ v.op = id
      BY <1>2, <1>21, <2>2 DEF GateVersions, Agrees, id
    <2>4. id \in OpIds(db)
      BY <1>1, <2>3 DEF KeysHold
    <2>5. id # imp.next.op
      BY <1>1, <1>13, <2>4 DEF OpIds
    <2>6. PICK o \in GateOps(Row) : o.id = id
      BY <1>9, <2>5
    <2>7. \E p \in db.ops : p.id = id /\ p.type = "precondition"
      BY <1>2, <2>4, <2>6 DEF GateOps, Agrees, SameOp
    <2>8. QED
      BY <2>2, <2>3, <2>7 DEF GateAt
  <1>22. CacheHolds(cache, db)
    <2> SUFFICES ASSUME NEW k \in DOMAIN cache, cache[k] \in Vids(db)
                 PROVE  GateAt(db, cache[k], k[2], k[1])
      BY DEF CacheHolds
    <2>1. CASE k \in DOMAIN imp.cache /\ cache[k] = imp.cache[k]
      BY <1>2, <2>1 DEF CacheHolds
    <2>2. CASE NeedsGate(Row) /\ k = <<Row.gate, Row.start>> /\ cache[k] = vid
      BY <1>21, <2>2
    <2>3. QED
      BY <1>15, <2>1, <2>2
  <1>23. CacheHolds(cache, e)
    <2> SUFFICES ASSUME NEW k \in DOMAIN cache, cache[k] \in Vids(e)
                 PROVE  GateAt(e, cache[k], k[2], k[1])
      BY DEF CacheHolds
    <2>1. CASE k \in DOMAIN imp.cache /\ cache[k] = imp.cache[k]
      <3>1. cache[k] # imp.next.vid
        BY <1>1, <1>2, <2>1
      <3>2. cache[k] \in Vids(w)
        BY <1>6, <1>11, <3>1 DEF Vids
      <3>3. GateAt(w, cache[k], k[2], k[1])
        BY <1>2, <2>1, <3>2 DEF CacheHolds
      <3>4. QED
        BY <1>16, <3>3, GatesExtend
    <2>2. CASE NeedsGate(Row) /\ k = <<Row.gate, Row.start>> /\ cache[k] = vid
      BY <1>20, <2>2
    <2>3. QED
      BY <1>15, <2>1, <2>2
  <1>24. \A k \in DOMAIN cache : cache[k] < next.vid /\ cache[k] \in Nat
    <2> TAKE k \in DOMAIN cache
    <2>1. CASE k \in DOMAIN imp.cache /\ cache[k] = imp.cache[k]
      BY <1>1, <1>2, <1>8, <2>1
    <2>2. CASE NeedsGate(Row) /\ cache[k] = vid
      <3>1. CASE GateVersions(Row) = {}
        BY <1>1, <1>8, <1>9, <1>12, <2>2, <3>1
      <3>2. CASE GateVersions(Row) # {}
        <4>1. PICK v \in GateVersions(Row) : v.vid = vid
          BY <1>9, <3>2
        <4>2. vid < imp.next.vid
          BY <1>14, <4>1 DEF GateVersions
        <4>3. QED
          BY <1>1, <1>8, <1>9, <2>2, <4>2
      <3>3. QED
        BY <3>1, <3>2
    <2>3. QED
      BY <1>15, <2>1, <2>2
  <1>25. OpsHold(imp.op, FileCodes, e)
    <2> SUFFICES ASSUME NEW c \in FileCodes, imp.op[c] \in OpIds(e)
                 PROVE  \E o \in e.ops : o.id = imp.op[c] /\ o.code = c
      BY DEF OpsHold
    <2>1. imp.op[c] # imp.next.op
      BY <1>1, <1>2
    <2>2. imp.op[c] \in OpIds(w)
      BY <1>6, <1>10, <2>1 DEF OpIds
    <2>3. QED
      BY <1>2, <1>6, <2>2 DEF OpsHold
  <1>26. \A c \in FileCodes : imp.op[c] < next.op
    BY <1>1, <1>2, <1>8
  <1>27. GatesOwn(e)
    BY <1>2, <1>6, <1>11, <1>16, GatesExtend DEF GatesOwn
  <1>28. next.op \in Nat /\ next.vid \in Nat
    BY <1>1, <1>8
  <1>29. QED
    BY <1>5, <1>7, <1>8, <1>16, <1>17, <1>18, <1>22, <1>23, <1>24, <1>25,
       <1>26, <1>27, <1>28 DEF next, cache, e, w

LEMMA TakeRowOwns ==
  ASSUME GateInv, TypeInv, ShapeInv, TakeRow, ~Raise
  PROVE  GateInv'
  <1> DEFINE next == GateNext(Row)
             cache == GateCache(Row)
             e == Gated.work
             more == imp'.work
             v == RowVersion
  <1>1. /\ GoesOn /\ KeysHold(imp'.work)
        /\ imp.phase = "row" /\ Row.start # None
        /\ imp'.cache = cache /\ imp'.op = imp.op
        /\ \/ AtNextRow /\ more = e /\ imp'.next = next
           \/ /\ imp'.phase = "references" /\ imp'.i = imp.i
              /\ imp'.next = [next EXCEPT !.vid = @ + 1]
              /\ more = [e EXCEPT !.versions = @ \union {v}]
    BY TakeRowDoes
  <1>2. /\ Extends(e, imp.work)
        /\ Above(next, db) /\ Above(next, e) /\ Agrees(e, db)
        /\ CacheHolds(cache, db) /\ CacheHolds(cache, e)
        /\ \A k \in DOMAIN cache : cache[k] < next.vid
        /\ OpsHold(imp.op, FileCodes, e)
        /\ \A c \in FileCodes : imp.op[c] < next.op
        /\ GatesOwn(e) /\ Sound(e) /\ IsDatabase(e)
        /\ next.op \in Nat /\ next.vid \in Nat /\ IsNext(next)
        /\ \A k \in DOMAIN cache : cache[k] \in Nat
    BY <1>1, GatedOwns
  <1>3. /\ Sound(db) /\ imp.file \in Files /\ imp.i \in DOMAIN imp.file
        /\ OpsHold(imp.op, FileCodes, db) /\ GatesOwn(db)
    BY <1>1 DEF TypeInv, GateInv, OfRow
  <1>4. FileCodes' = FileCodes /\ db' = db
    BY <1>1 DEF GoesOn, FileCodes
  <1>5. imp'.phase \in {"row", "commit", "references"}
    BY <1>1 DEF AtNextRow
  <1>6. Row \in FileRow /\ Row.code \in FileCodes
    BY <1>3, RowIs
  <1>7. v.vid = next.vid /\ v.op = imp.op[Row.code] /\ v.start = Row.start
        /\ v.text = Row.text /\ v.gate = RowGate
    BY DEF RowVersion, NewVersion
  <1>8. RowGate # None =>
          /\ Row.gate # None /\ CacheKey(Row) \in DOMAIN cache
          /\ RowGate = cache[CacheKey(Row)]
    BY CacheIs DEF RowGate
  <1> HIDE DEF next, cache, e, more, v
  <1>9. CASE more = e /\ imp'.next = next
    <2>1. /\ GatesOwn(more) /\ Above(imp'.next, db) /\ Above(imp'.next, more)
          /\ Agrees(more, db) /\ CacheHolds(cache, more)
          /\ \A k \in DOMAIN cache : cache[k] < imp'.next.vid
          /\ OpsHold(imp.op, FileCodes, more)
          /\ \A c \in FileCodes : imp.op[c] < imp'.next.op
      BY <1>2, <1>9
    <2>2. QED
      BY <1>1, <1>2, <1>3, <1>4, <1>5, <2>1 DEF GateInv, more
  <1>10. CASE /\ imp'.next = [next EXCEPT !.vid = @ + 1]
              /\ more = [e EXCEPT !.versions = @ \union {v}]
    <2>1. /\ more.ops = e.ops /\ more.versions = e.versions \union {v}
          /\ imp'.next.op = next.op /\ imp'.next.vid = next.vid + 1
      BY <1>2, <1>10 DEF IsDatabase, DatabaseFields, IsNext, NextFields
    <2>2. Extends(more, e)
      BY <2>1 DEF Extends, SameOp
    <2>3. \A x \in e.versions \union db.versions : x.vid \in Nat /\ x.vid < next.vid
      BY <1>2, <1>3, RowsAre DEF Sound, Above
    <2>4. Above(imp'.next, db) /\ Above(imp'.next, more)
      BY <1>2, <1>7, <2>1, <2>3 DEF Above
    <2>5. Agrees(more, db)
      <3>1. v.vid \notin Vids(db)
        BY <1>2, <1>7, <2>3 DEF Vids
      <3>2. QED
        BY <1>2, <2>1, <3>1 DEF Agrees
    <2>6. \A k \in DOMAIN cache :
            cache[k] \in Vids(more) => GateAt(more, cache[k], k[2], k[1])
      <3> SUFFICES ASSUME NEW k \in DOMAIN cache, cache[k] \in Vids(more)
                   PROVE  GateAt(more, cache[k], k[2], k[1])
        OBVIOUS
      <3>1. cache[k] # v.vid
        BY <1>2, <1>7
      <3>2. cache[k] \in Vids(e)
        BY <2>1, <3>1 DEF Vids
      <3>3. GateAt(e, cache[k], k[2], k[1])
        BY <1>2, <3>2 DEF CacheHolds
      <3>4. QED
        BY <2>2, <3>3, GatesExtend
    <2>7. OpsHold(imp.op, FileCodes, more)
      BY <1>2, <2>1 DEF OpsHold, OpIds
    <2>8. v.gate # None => FromRow(more, v)
      <3>1. SUFFICES ASSUME v.gate # None
                     PROVE  FromRow(more, v)
        OBVIOUS
      <3>2. /\ CacheKey(Row) \in DOMAIN cache /\ v.gate = cache[CacheKey(Row)]
            /\ CacheKey(Row)[1] = Row.gate /\ CacheKey(Row)[2] = Row.start
        BY <1>7, <1>8, <3>1 DEF CacheKey
      <3>3. v.gate \in Vids(more) /\ v.op \in OpIds(more)
        BY <1>1, <2>1, <3>1 DEF KeysHold, more
      <3>4. GateAt(more, v.gate, v.start, Row.gate)
        BY <1>7, <2>6, <3>2, <3>3
      <3>5. PICK o \in more.ops : o.id = v.op /\ o.code = Row.code
        BY <1>6, <1>7, <2>7, <3>3 DEF OpsHold
      <3>6. QED
        BY <1>3, <1>7, <3>4, <3>5 DEF FromRow, Row
    <2>9. GatesOwn(more)
      BY <1>2, <2>1, <2>2, <2>8, GatesExtend DEF GatesOwn
    <2>10. \A k \in DOMAIN cache : cache[k] < imp'.next.vid
      BY <1>2, <2>1
    <2>11. \A c \in FileCodes : imp.op[c] < imp'.next.op
      BY <1>2, <2>1
    <2>12. CacheHolds(cache, more)
      BY <2>6 DEF CacheHolds
    <2>13. QED
      BY <1>1, <1>2, <1>3, <1>4, <1>5, <2>4, <2>5, <2>7, <2>9, <2>10, <2>11,
         <2>12 DEF GateInv, more
  <1>11. QED
    BY <1>1, <1>9, <1>10

\* Steps of a row that make no operation and no version.
LEMMA RestOwns ==
  ASSUME GateInv, imp.phase \in OfRow, GoesOn,
         imp'.phase \in OfRow \union {"commit"},
         NEW d \in {imp.work, db},
         imp'.work.ops = d.ops, imp'.work.versions = d.versions,
         imp'.next.op = imp.next.op, imp'.next.vid = imp.next.vid,
         imp'.op = imp.op, imp'.cache = imp.cache
  PROVE  GateInv'
  <1>1. /\ GatesOwn(db) /\ GatesOwn(d)
        /\ Above(imp.next, db) /\ Above(imp.next, d)
        /\ Agrees(d, db)
        /\ CacheHolds(imp.cache, db) /\ CacheHolds(imp.cache, d)
        /\ OpsHold(imp.op, FileCodes, db) /\ OpsHold(imp.op, FileCodes, d)
    <2>1. Agrees(db, db)
      BY DEF Agrees, SameOp
    <2>2. QED
      BY <2>1 DEF GateInv, OfRow
  <1>2. FileCodes' = FileCodes /\ db' = db
    BY DEF GoesOn, FileCodes
  <1>3. GatesOwn(imp'.work)
    BY <1>1 DEF GatesOwn, FromRow, GateAt
  <1>4. Above(imp'.next, db) /\ Above(imp'.next, imp'.work)
    BY <1>1 DEF Above
  <1>5. Agrees(imp'.work, db)
    BY <1>1 DEF Agrees
  <1>6. CacheHolds(imp.cache, imp'.work)
    BY <1>1 DEF CacheHolds, GateAt, Vids
  <1>7. OpsHold(imp.op, FileCodes, imp'.work)
    BY <1>1 DEF OpsHold, OpIds
  <1>8. QED
    BY <1>1, <1>2, <1>3, <1>4, <1>5, <1>6, <1>7 DEF GateInv, OfRow

LEMMA GateKeeps ==
  ASSUME GateInv, TypeInv, ShapeInv, [Next]_vars
  PROVE  GateInv'
  <1>1. CASE Ends
    <2>1. imp'.phase = "idle"
      BY <1>1, EndsDoes
    <2>2. GatesOwn(db')
      BY <1>1 DEF Ends, GateInv
    <2>3. QED
      BY <2>1, <2>2 DEF GateInv, OfRow
  <1>2. CASE UNCHANGED vars
    <2>1. FileCodes' = FileCodes
      BY <1>2 DEF vars, FileCodes
    <2>2. QED
      BY <1>2, <2>1 DEF vars, GateInv
  <1>3. ASSUME NEW file \in Files, Start(file)
        PROVE  GateInv'
    BY <1>3, StartDoes DEF GateInv, OfRow
  <1>4. CASE ~Raise /\ Organisation
    <2>1. /\ db' = db /\ imp.phase = "organisation" /\ imp'.phase = "floors"
          /\ SameRows(imp'.work, imp.work)
      BY <1>4, OrganisationDoes
    <2>2. GatesOwn(imp'.work)
      BY <2>1 DEF GateInv, SameRows, GatesOwn, FromRow, GateAt
    <2>3. QED
      BY <2>1, <2>2 DEF GateInv, OfRow
  <1>5. CASE ~Raise /\ CheckFloors
    <2> DEFINE w == imp.work
    <2>1. /\ GoesOn /\ imp.phase = "floors" /\ imp'.phase = "operations"
          /\ imp'.work = imp.work
          /\ imp'.next = [op |-> NextIntId(OpIds(w)), vid |-> NextIntId(Vids(w)),
                          scope |-> NextIntId(ScopeIds(w))]
      BY <1>5, FloorsDo, Zenon DEF ScopeIds
    <2>2. Sound(w) /\ SameRows(db, w)
      BY <2>1 DEF TypeInv, ShapeInv, BeforeRows
    <2>3. /\ \A n \in OpIds(w) : n < NextIntId(OpIds(w))
          /\ \A n \in Vids(w) : n < NextIntId(Vids(w))
      BY <2>2, IdsAre, NextIdIs
    <2>4. Above(imp'.next, w) /\ Above(imp'.next, db)
      BY <2>1, <2>2, <2>3 DEF Above, OpIds, Vids, SameRows
    <2>5. QED
      BY <2>1, <2>4 DEF GateInv, GoesOn, OfRow
  <1>6. CASE ~Raise /\ References
    <2>1. /\ imp'.work.ops = imp.work.ops
          /\ imp'.work.versions = imp.work.versions
      BY <1>6, ReferencesDo DEF ShapeInv, IsDatabase, DatabaseFields
    <2>2. QED
      BY <1>6, <2>1, ReferencesDo, RestOwns DEF StaysAtRow, OfRow
  <1>7. ASSUME ~Raise, NEW r \in imp.releases, Scope(r)
        PROVE  GateInv'
    <2>1. /\ imp'.work.ops = imp.work.ops
          /\ imp'.work.versions = imp.work.versions
      BY <1>7, ScopeDoes DEF ShapeInv, IsDatabase, DatabaseFields
    <2>2. imp'.next.op = imp.next.op /\ imp'.next.vid = imp.next.vid
      BY <1>7, ScopeDoes DEF ShapeInv, OfRow, IsNext, NextFields
    <2>3. QED
      BY <1>7, <2>1, <2>2, ScopeDoes, RestOwns DEF StaysAtRow, OfRow
  <1>8. CASE ~Raise /\ LoseTransaction
    BY <1>8, LoseTransactionDoes, RestOwns DEF StaysAtRow, OfRow
  <1>9. CASE SkipRow \/ EndRow
    <2>1. /\ GoesOn /\ AtNextRow /\ imp.phase \in {"row", "scopes"}
          /\ imp'.work = imp.work /\ imp'.next = imp.next
          /\ imp'.cache = imp.cache
      BY <1>9, RowEndsAre, RowEndDoes
    <2>2. QED
      BY <2>1, RestOwns DEF AtNextRow, OfRow
  <1>10. CASE Commit
    BY <1>10, CommitDoes DEF GateInv, OfRow
  <1>11. QED
    BY <1>1, <1>2, <1>3, <1>4, <1>5, <1>6, <1>7, <1>8, <1>9, <1>10,
       OperationsOwn, TakeRowOwns, StepsAre

LEMMA GatesHold == Spec => []GateInv
  <1>1. Init => GateInv
    BY GateIsInitial
  <1>2. QED
    BY <1>1, Shape, Typed, GateKeeps, PTL DEF Spec

\* _get_or_create_precondition_version: the gate of a version that an import has
\* made is a precondition with the text of the row that the version comes from,
\* and starts at the release at which the version starts.
THEOREM GateIsOfItsRow == Spec => []GateIsRowsOwn
  <1>1. GateInv => GateIsRowsOwn
    <2>1. SUFFICES ASSUME GatesOwn(db), NEW v \in db.versions,
                          v.vid >= Base, v.gate # None
                   PROVE  \E g \in db.versions, o \in db.ops, p \in db.ops,
                             f \in Files :
                            \E i \in DOMAIN f :
                              /\ g.vid = v.gate /\ g.start = v.start
                              /\ o.id = v.op /\ p.id = g.op
                              /\ p.type = "precondition"
                              /\ f[i].code = o.code /\ f[i].start = v.start
                              /\ f[i].text = v.text /\ f[i].gate = g.text
      BY DEF GateIsRowsOwn, GateInv
    <2>2. PICK o \in db.ops, f \in Files :
            \E i \in DOMAIN f :
              /\ o.id = v.op /\ f[i].code = o.code
              /\ f[i].start = v.start /\ f[i].text = v.text
              /\ GateAt(db, v.gate, v.start, f[i].gate)
      BY <2>1 DEF GatesOwn, FromRow
    <2>3. PICK i \in DOMAIN f :
              /\ o.id = v.op /\ f[i].code = o.code
              /\ f[i].start = v.start /\ f[i].text = v.text
              /\ GateAt(db, v.gate, v.start, f[i].gate)
      BY <2>2
    <2>4. PICK g \in db.versions, p \in db.ops :
              /\ g.vid = v.gate /\ g.start = v.start /\ g.text = f[i].gate
              /\ p.id = g.op /\ p.type = "precondition"
      BY <2>3 DEF GateAt
    <2>5. QED
      BY <2>3, <2>4
  <1>2. QED
    BY <1>1, GatesHold, PTL

-----------------------------------------------------------------------------
\* The IDs of the first import

\* The IDs from Base up to the next one.
UpToNext(ids, next) == next \in Nat /\ Base <= next /\ ids = Base..(next - 1)

InOrder(ops) ==
  \A o, p \in {q \in ops : q.type = "validation"} :
    o.code < p.code => o.id < p.id

\* Have all that was made the IDs from Base on?
NoGap(m) ==
  /\ \E n \in Nat : UpToNext(OpIds(m), n)
  /\ \E n \in Nat : UpToNext(Vids(m), n)
  /\ \E n \in Nat : UpToNext(NodeIds(m), n)
  /\ \E n \in Nat : UpToNext(ScopeIds(m), n)
  /\ InOrder(m.ops)

\* Has all that was made the IDs from Base up to the next ones?
Counted(m, next, d) ==
  /\ UpToNext(OpIds(m), next.op)
  /\ UpToNext(Vids(m), next.vid)
  /\ UpToNext(NodeIds(m), NextIntId(NodeIds(d)))
  /\ UpToNext(ScopeIds(m), next.scope)
  /\ \A s \in d.scopes : s.id < next.scope
  /\ InOrder(m.ops)

DriftInv ==
  imp.created =>
    /\ imp.phase = "operations" =>
         /\ imp.next.op = Base /\ imp.next.vid = Base /\ imp.next.scope = Base
         /\ NextIntId(NodeIds(imp.work)) = Base
         /\ \A s \in imp.work.scopes : s.id < Base
    /\ imp.phase \in OfRow /\ imp.work.org = "ECB" =>
         Counted(imp.made, imp.next, imp.work)
    /\ imp.phase = "commit" /\ imp.work.org = "ECB" => NoGap(imp.made)
    /\ imp.phase = "verify" /\ db.org = "ECB" => NoGap(imp.made)
    /\ imp.outcome = "ok" => NoGap(imp.made)

LEMMA CountedHasNoGap ==
  ASSUME NEW m, NEW next, NEW d, Counted(m, next, d)
  PROVE  NoGap(m)
  BY DEF Counted, NoGap, UpToNext

LEMMA PlusHas ==
  ASSUME NEW m, NEW a, NEW p, p = Plus(m, a)
  PROVE  /\ OpIds(p) = OpIds(m) \union OpIds(a)
         /\ Vids(p) = Vids(m) \union Vids(a)
         /\ NodeIds(p) = NodeIds(m) \union NodeIds(a)
         /\ ScopeIds(p) = ScopeIds(m) \union ScopeIds(a)
  BY DEF Plus, OpIds, Vids, NodeIds, ScopeIds

LEMMA NothingHasNoIds ==
  /\ OpIds(NothingMade) = {} /\ Vids(NothingMade) = {}
  /\ NodeIds(NothingMade) = {} /\ ScopeIds(NothingMade) = {}
  BY DEF NothingMade, OpIds, Vids, NodeIds, ScopeIds

LEMMA NothingIsBelowBase ==
  ASSUME NEW ids, ids = {}
  PROVE  UpToNext(ids, Base)
  BY ImportAssumption DEF UpToNext

LEMMA NextAfterNext ==
  ASSUME NEW S \in SUBSET Nat, IsFiniteSet(S), NEW T, T = S \union {NextIntId(S)}
  PROVE  NextIntId(T) = NextIntId(S) + 1
  <1>1. /\ NextIntId(S) \in Nat /\ NextIntId(S) >= Base
        /\ \A n \in S : n < NextIntId(S)
    BY NextIdIs
  <1>2. T \in SUBSET Nat /\ IsFiniteSet(T)
    BY <1>1, FS_AddElement
  <1>3. /\ NextIntId(T) \in Nat /\ \A n \in T : n < NextIntId(T)
        /\ NextIntId(T) = Base \/ NextIntId(T) - 1 \in T
    BY <1>2, NextIdIs
  <1>4. Base \in Nat
    BY ImportAssumption
  <1>5. NextIntId(S) < NextIntId(T)
    BY <1>3
  <1>6. NextIntId(T) - 1 = NextIntId(S) \/ NextIntId(T) - 1 \in S
    BY <1>1, <1>3, <1>4, <1>5
  <1>7. QED
    BY <1>1, <1>3, <1>5, <1>6

LEMMA OneMore ==
  ASSUME NEW ids, NEW next, UpToNext(ids, next), NEW more, more = ids \union {next}
  PROVE  UpToNext(more, next + 1)
  BY ImportAssumption DEF UpToNext

\* Before there is an ECB nothing is the ECB's, and its IDs start at Base.
LEMMA FloorsAtBase ==
  ASSUME TypeInv, ShapeInv, CheckFloors, ~Raise, imp.created
  PROVE  /\ imp'.next.op = Base /\ imp'.next.vid = Base
         /\ imp'.next.scope = Base
         /\ NextIntId(NodeIds(imp.work)) = Base
         /\ \A s \in imp.work.scopes : s.id < Base
  <1> DEFINE w == imp.work
             native == {v \in Vids(w) : OwnerOf(w, v) = "native"}
  <1>1. /\ imp.phase = "floors"
        /\ imp'.next = [op |-> NextIntId(OpIds(w)), vid |-> NextIntId(Vids(w)),
                        scope |-> NextIntId(ScopeIds(w))]
        /\ \A o \in w.ops : o.owner = "native" => o.id < Base
        /\ \A v \in native : v < Base
        /\ \A n \in w.nodes : n.vid \in native => n.id < Base
        /\ \A s \in w.scopes : s.vid \in native => s.id < Base
    BY FloorsDo, Zenon DEF ScopeIds
  <1>2. /\ Sound(w) /\ KeysHold(w) /\ KeysHold(db) /\ db.org = "none"
        /\ SameRows(db, w)
    BY <1>1 DEF TypeInv, ShapeInv, BeforeRows
  <1>3. \A o \in w.ops : o.owner = "native"
    <2>1. \A o \in w.ops : o.owner # "ECB"
      BY <1>2 DEF KeysHold, SameRows
    <2>2. \A o \in w.ops : o.owner \in {"ECB", "native"}
      BY <1>2, RowsAre DEF Sound, Operation
    <2>3. QED
      BY <2>1, <2>2
  <1>4. \A v \in Vids(w) : OwnerOf(w, v) = "native"
    <2> TAKE vid \in Vids(w)
    <2>1. PICK v \in w.versions : v.vid = vid
      BY DEF Vids
    <2>2. PICK o \in w.ops : o.id = v.op
      BY <1>2 DEF KeysHold, OpIds
    <2> DEFINE Owns(owner) == \E x \in w.versions, y \in w.ops :
                 x.vid = vid /\ y.id = x.op /\ y.owner = owner
    <2>3. Owns("native") /\ ~Owns("ECB")
      BY <1>3, <2>1, <2>2
    <2>4. OwnerOf(w, vid) = CHOOSE owner \in {"ECB", "native"} : Owns(owner)
      BY DEF OwnerOf
    <2> HIDE DEF Owns
    <2>5. QED
      BY <2>3, <2>4
  <1>5. native = Vids(w)
    BY <1>4
  <1> HIDE DEF native
  <1>6. /\ \A n \in OpIds(w) : n < Base
        /\ \A n \in Vids(w) : n < Base
        /\ \A n \in NodeIds(w) : n < Base
        /\ \A n \in ScopeIds(w) : n < Base
    BY <1>1, <1>2, <1>3, <1>5 DEF OpIds, NodeIds, ScopeIds, KeysHold
  <1>7. /\ NextIntId(OpIds(w)) = Base /\ NextIntId(Vids(w)) = Base
        /\ NextIntId(NodeIds(w)) = Base /\ NextIntId(ScopeIds(w)) = Base
    BY <1>2, <1>6, IdsAre, NextIdIs
  <1>8. QED
    BY <1>1, <1>6, <1>7 DEF ScopeIds

\* The new operations are those of the new codes, in their order.
LEMMA OperationsMade ==
  ASSUME TypeInv, ShapeInv, GateInv, Operations, ~Raise
  PROVE  LET new == {o \in imp'.work.ops : o.id \notin OpIds(imp.work)}
         IN /\ {o.id : o \in new}
                 = imp.next.op..(imp.next.op + Cardinality(NewCodes) - 1)
            /\ InOrder(new)
  <1> DEFINE made == {NewOperation(c) : c \in NewCodes}
             ops == {Grouped(o) : o \in imp.work.ops \union made}
             new == {o \in ops : o.id \notin OpIds(imp.work)}
             n == Cardinality(NewCodes)
  <1>1. /\ imp.phase = "operations"
        /\ imp'.work = [imp.work EXCEPT !.ops = ops]
    BY OperationsDo
  <1>2. /\ Sound(imp.work) /\ imp.file \in Files
        /\ imp.next.op \in Nat /\ IsDatabase(imp.work)
        /\ Above(imp.next, imp.work)
    BY <1>1 DEF TypeInv, ShapeInv, GateInv, OfRow
  <1>3. \A o \in imp.work.ops :
          o \in Operation /\ o.id \in Nat /\ o.id < imp.next.op
    BY <1>2, RowsAre DEF Sound, Above
  <1>4. imp'.work.ops = ops
    BY <1>1, <1>2 DEF IsDatabase, DatabaseFields
  <1> DEFINE rank(c) == Cardinality({d \in NewCodes : d < c})
  <1>5. /\ {imp.next.op + rank(c) : c \in NewCodes}
             = imp.next.op..(imp.next.op + n - 1)
        /\ \A c \in NewCodes : rank(c) \in Nat
        /\ \A c, d \in NewCodes : c < d => rank(c) < rank(d)
    BY <1>2, CodesAre, RanksOfNat
  <1>6. \A c \in NewCodes : IdOfCode(c) = imp.next.op + rank(c)
    BY <1>2, IdOfCodeIs DEF NewCodes
  <1> HIDE DEF rank, n
  <1>7. \A c \in NewCodes :
          /\ c \in Nat /\ NewOperation(c) \in Operation
          /\ NewOperation(c).id = IdOfCode(c) /\ NewOperation(c).code = c
    <2> TAKE c \in NewCodes
    <2>1. c \in Nat /\ IdOfCode(c) \in Nat
      BY <1>2, <1>5, <1>6, CodesAre
    <2>2. QED
      BY <2>1 DEF NewOperation, Operation
  <1>8. \A o \in imp.work.ops \union made :
          SameOp(o, Grouped(o)) /\ Grouped(o) \in ops
    BY <1>3, <1>7, GroupedIs
  <1>9. \A p \in ops : \E o \in imp.work.ops \union made : SameOp(o, p)
    BY <1>8
  <1> HIDE DEF ops
  <1>10. \A p \in new :
           \E c \in NewCodes : p.id = imp.next.op + rank(c) /\ p.code = c
    <2> TAKE p \in new
    <2>1. PICK o \in imp.work.ops \union made : SameOp(o, p)
      BY <1>9
    <2>2. o \notin imp.work.ops
      BY <2>1 DEF SameOp, OpIds
    <2>3. QED
      BY <1>6, <1>7, <2>1, <2>2 DEF SameOp
  <1>11. \A c \in NewCodes : \E p \in new : p.id = imp.next.op + rank(c)
    <2> TAKE c \in NewCodes
    <2>1. NewOperation(c) \in made
      OBVIOUS
    <2>2. PICK p \in ops : p.id = imp.next.op + rank(c)
      BY <1>6, <1>7, <1>8, <2>1 DEF SameOp
    <2>3. p.id \notin OpIds(imp.work)
      BY <1>2, <1>3, <1>5, <2>2 DEF OpIds
    <2>4. QED
      BY <2>2, <2>3
  <1>12. {o.id : o \in new} = imp.next.op..(imp.next.op + n - 1)
    BY <1>5, <1>10, <1>11
  <1>13. InOrder(new)
    <2> SUFFICES ASSUME NEW o \in new, NEW p \in new, o.code < p.code
                 PROVE  o.id < p.id
      BY DEF InOrder
    <2>1. PICK c \in NewCodes : o.id = imp.next.op + rank(c) /\ o.code = c
      BY <1>10
    <2>2. PICK d \in NewCodes : p.id = imp.next.op + rank(d) /\ p.code = d
      BY <1>10
    <2>3. rank(c) < rank(d) /\ rank(c) \in Nat /\ rank(d) \in Nat
      BY <1>5, <2>1, <2>2
    <2>4. QED
      BY <1>2, <2>1, <2>2, <2>3
  <1>14. QED
    BY <1>4, <1>12, <1>13 DEF n

\* A step of the rows that counts on keeps the count.
LEMMA CountsOn ==
  ASSUME DriftInv, ShapeInv, GoesOn,
         imp.phase \in {"operations"} \union OfRow,
         imp'.phase \in OfRow \union {"commit"},
         imp.created /\ imp'.work.org = "ECB" =>
           Counted(imp'.made, imp'.next, imp'.work)
  PROVE  DriftInv'
  <1>1. imp'.outcome # "ok" /\ imp'.created = imp.created
    BY DEF ShapeInv, OfRow, GoesOn
  <1>2. imp.created /\ imp'.work.org = "ECB" => NoGap(imp'.made)
    BY CountedHasNoGap
  <1>3. QED
    BY <1>1, <1>2 DEF DriftInv, OfRow

LEMMA OperationsCount ==
  ASSUME DriftInv, GateInv, TypeInv, ShapeInv, Operations, ~Raise
  PROVE  DriftInv'
  <1> DEFINE w == imp.work
             a == Added(w, imp'.work)
             n == Cardinality(NewCodes)
  <1>1. /\ GoesOn /\ imp.phase = "operations"
        /\ imp'.phase \in {"row", "commit"}
        /\ imp'.work = [w EXCEPT !.ops =
             {Grouped(o) : o \in w.ops \union {NewOperation(c) : c \in NewCodes}}]
        /\ imp'.next = [imp.next EXCEPT !.op = @ + n]
        /\ imp'.made = Plus(imp.made, a)
    BY OperationsDo
  <1>2. /\ Sound(w) /\ IsDatabase(w) /\ IsNext(imp.next)
        /\ imp.made = NothingMade /\ n \in Nat
    BY <1>1, CodesAre DEF TypeInv, ShapeInv, BeforeRows, OfRow
  <1>3. /\ imp'.work.versions = w.versions /\ imp'.work.nodes = w.nodes
        /\ imp'.work.scopes = w.scopes
    BY <1>1, <1>2 DEF IsDatabase, DatabaseFields
  <1>4. /\ imp'.next.op = imp.next.op + n
        /\ imp'.next.vid = imp.next.vid /\ imp'.next.scope = imp.next.scope
    BY <1>1, <1>2 DEF IsNext, NextFields
  <1> HIDE DEF n
  <1>5. /\ a.ops = {o \in imp'.work.ops : o.id \notin OpIds(w)}
        /\ a.versions = {} /\ a.nodes = {} /\ a.scopes = {}
    BY <1>3 DEF Added
  <1>6. OpIds(a) = imp.next.op..(imp.next.op + n - 1) /\ InOrder(a.ops)
    BY <1>5, OperationsMade DEF OpIds, n
  <1> HIDE DEF a
  <1>7. Vids(a) = {} /\ NodeIds(a) = {} /\ ScopeIds(a) = {}
    BY <1>5 DEF Vids, NodeIds, ScopeIds
  <1>8. /\ OpIds(imp'.made) = OpIds(a)
        /\ Vids(imp'.made) = {} /\ NodeIds(imp'.made) = {}
        /\ ScopeIds(imp'.made) = {}
    <2>1. imp'.made = Plus(NothingMade, a)
      BY <1>1, <1>2
    <2>2. /\ OpIds(imp'.made) = OpIds(NothingMade) \union OpIds(a)
          /\ Vids(imp'.made) = Vids(NothingMade) \union Vids(a)
          /\ NodeIds(imp'.made) = NodeIds(NothingMade) \union NodeIds(a)
          /\ ScopeIds(imp'.made) = ScopeIds(NothingMade) \union ScopeIds(a)
      BY <2>1, PlusHas
    <2>3. QED
      BY <1>7, <2>2, NothingHasNoIds
  <1>9. imp'.made.ops = a.ops
    BY <1>1, <1>2 DEF Plus, NothingMade
  <1>10. ASSUME imp.created
         PROVE  Counted(imp'.made, imp'.next, imp'.work)
    <2>1. /\ imp.next.op = Base /\ imp.next.vid = Base /\ imp.next.scope = Base
          /\ NextIntId(NodeIds(w)) = Base
          /\ \A s \in w.scopes : s.id < Base
      BY <1>1, <1>10 DEF DriftInv
    <2>2. UpToNext(OpIds(imp'.made), imp'.next.op)
      BY <1>2, <1>4, <1>6, <1>8, <2>1, ImportAssumption DEF UpToNext
    <2>3. NodeIds(imp'.work) = NodeIds(w)
      BY <1>3 DEF NodeIds
    <2>4. QED
      BY <1>3, <1>4, <1>6, <1>8, <1>9, <2>1, <2>2, <2>3, NothingIsBelowBase
      DEF Counted
  <1>11. QED
    BY <1>1, <1>10, CountsOn DEF OfRow

\* What the precondition of a row adds has the next IDs.
LEMMA MadeForGateHas ==
  ASSUME IsNext(imp.next), NEW row
  PROVE  /\ \/ GateOpsMade(row) = {} /\ GateNext(row).op = imp.next.op
            \/ /\ GateNext(row).op = imp.next.op + 1
               /\ \E o : /\ GateOpsMade(row) = {o} /\ o.id = imp.next.op
                         /\ o.type = "precondition"
         /\ \/ GateVersionsMade(row) = {} /\ GateNext(row).vid = imp.next.vid
            \/ /\ GateNext(row).vid = imp.next.vid + 1
               /\ \E v : GateVersionsMade(row) = {v} /\ v.vid = imp.next.vid
  <1>1. ASSUME GateOpsMade(row) # {}
        PROVE  \E o : /\ GateOpsMade(row) = {o} /\ o.id = imp.next.op
                      /\ o.type = "precondition"
    BY <1>1 DEF GateOpsMade, GateOp
  <1>2. ASSUME GateVersionsMade(row) # {}
        PROVE  \E v : GateVersionsMade(row) = {v} /\ v.vid = imp.next.vid
    BY <1>2 DEF GateVersionsMade, GateVid, NewVersion
  <1>3. QED
    BY <1>1, <1>2, GateNextIs

LEMMA TakeRowCounts ==
  ASSUME DriftInv, GateInv, TypeInv, ShapeInv, TakeRow, ~Raise
  PROVE  DriftInv'
  <1> DEFINE next == GateNext(Row)
             w == imp.work
             a == Added(w, imp'.work)
             gops == GateOpsMade(Row)
             gversions == GateVersionsMade(Row)
  <1>1. /\ GoesOn /\ imp.phase = "row"
        /\ imp'.made = Plus(imp.made, a)
        /\ \/ /\ AtNextRow
              /\ imp'.work = Gated.work /\ imp'.next = next
           \/ /\ imp'.phase = "references"
              /\ imp'.next = [next EXCEPT !.vid = @ + 1]
              /\ imp'.work = [Gated.work EXCEPT !.versions = @ \union {RowVersion}]
    BY TakeRowDoes
  <1>2. /\ Sound(w) /\ IsDatabase(w) /\ IsImport(imp) /\ IsNext(imp.next)
        /\ imp.next.op \in Nat /\ imp.next.vid \in Nat
        /\ Above(imp.next, w)
    BY <1>1 DEF TypeInv, ShapeInv, GateInv, OfRow
  <1>3. /\ IsNext(next) /\ next.scope = imp.next.scope
        /\ \/ gops = {} /\ next.op = imp.next.op
           \/ /\ next.op = imp.next.op + 1
              /\ \E o : /\ gops = {o} /\ o.id = imp.next.op
                        /\ o.type = "precondition"
        /\ \/ gversions = {} /\ next.vid = imp.next.vid
           \/ /\ next.vid = imp.next.vid + 1
              /\ \E v : gversions = {v} /\ v.vid = imp.next.vid
    BY <1>2, GateNextIs, MadeForGateHas
  <1>4. /\ Gated.work = [w EXCEPT !.ops = @ \union gops,
                                  !.versions = @ \union gversions]
        /\ IsDatabase(Gated.work)
    BY <1>2, GateDoes DEF Gated
  <1>5. RowVersion.vid = next.vid
    BY DEF RowVersion, NewVersion
  <1> HIDE DEF next, gops, gversions
  <1>6. /\ imp'.work.ops = w.ops \union gops
        /\ imp'.work.nodes = w.nodes /\ imp'.work.scopes = w.scopes
        /\ imp'.work.org = w.org
        /\ imp'.next.op = next.op /\ imp'.next.scope = next.scope
        /\ \/ /\ imp'.work.versions = w.versions \union gversions
              /\ imp'.next.vid = next.vid
           \/ /\ imp'.work.versions = w.versions \union gversions
                                       \union {RowVersion}
              /\ imp'.next.vid = next.vid + 1
    <2>1. /\ Gated.work.ops = w.ops \union gops
          /\ Gated.work.versions = w.versions \union gversions
          /\ Gated.work.nodes = w.nodes /\ Gated.work.scopes = w.scopes
          /\ Gated.work.org = w.org
      BY <1>2, <1>4 DEF IsDatabase, DatabaseFields
    <2>2. CASE imp'.work = Gated.work /\ imp'.next = next
      BY <2>1, <2>2
    <2>3. CASE /\ imp'.next = [next EXCEPT !.vid = @ + 1]
               /\ imp'.work = [Gated.work EXCEPT !.versions = @ \union {RowVersion}]
      BY <1>3, <1>4, <2>1, <2>3
      DEF IsDatabase, DatabaseFields, IsNext, NextFields
    <2>4. QED
      BY <1>1, <2>2, <2>3
  <1>7. next.vid \in Nat /\ next.vid >= imp.next.vid
    BY <1>2, <1>3
  <1>8. \A v \in w.versions : v.vid \in Nat /\ v.vid < imp.next.vid
    BY <1>2, RowsAre DEF Sound, Above
  <1>9. a.ops = gops /\ a.nodes = {} /\ a.scopes = {}
    <2>1. a.ops = {o \in imp'.work.ops : o.id \notin OpIds(w)}
      BY DEF Added
    <2>2. \A o \in w.ops : o.id \in Nat /\ o.id < imp.next.op
      BY <1>2, RowsAre DEF Sound, Above
    <2>3. \A o \in gops : o.id \notin OpIds(w)
      BY <1>2, <1>3, <2>2 DEF OpIds
    <2>4. \A o \in w.ops : o.id \in OpIds(w)
      BY DEF OpIds
    <2>5. a.nodes = {} /\ a.scopes = {}
      BY <1>6 DEF Added
    <2> HIDE DEF a
    <2>6. QED
      BY <1>6, <2>1, <2>3, <2>4, <2>5
  <1>10. a.versions = imp'.work.versions \ w.versions
    BY DEF Added
  <1>11. gversions \intersect w.versions = {} /\ RowVersion \notin w.versions
    BY <1>2, <1>3, <1>5, <1>7, <1>8
  <1>12. \/ a.versions = gversions /\ imp'.next.vid = next.vid
         \/ /\ a.versions = gversions \union {RowVersion}
            /\ imp'.next.vid = next.vid + 1
    BY <1>6, <1>10, <1>11
  <1> HIDE DEF a
  <1>13. /\ OpIds(imp'.made) = OpIds(imp.made) \union OpIds(a)
        /\ Vids(imp'.made) = Vids(imp.made) \union Vids(a)
        /\ NodeIds(imp'.made) = NodeIds(imp.made) \union NodeIds(a)
        /\ ScopeIds(imp'.made) = ScopeIds(imp.made) \union ScopeIds(a)
    <2>1. imp'.made = Plus(imp.made, a)
      BY <1>1
    <2>2. QED
      BY <2>1, PlusHas
  <1>14. ASSUME imp.created, w.org = "ECB"
         PROVE  Counted(imp'.made, imp'.next, imp'.work)
    <2>1. Counted(imp.made, imp.next, w)
      BY <1>1, <1>14 DEF DriftInv, OfRow
    <2>2. UpToNext(OpIds(imp'.made), imp'.next.op)
      <3>1. OpIds(imp'.made) = OpIds(imp.made) \union {o.id : o \in gops}
        BY <1>9, <1>13 DEF OpIds
      <3>2. CASE gops = {} /\ next.op = imp.next.op
        BY <1>6, <2>1, <3>1, <3>2 DEF Counted
      <3>3. CASE next.op = imp.next.op + 1 /\ {o.id : o \in gops} = {imp.next.op}
        BY <1>6, <2>1, <3>1, <3>3, OneMore DEF Counted
      <3>4. QED
        BY <1>3, <3>2, <3>3
    <2>3. UpToNext(Vids(imp'.made), imp'.next.vid)
      <3> DEFINE ids == Vids(imp.made) \union {v.vid : v \in gversions}
      <3>1. UpToNext(ids, next.vid)
        <4>1. CASE gversions = {} /\ next.vid = imp.next.vid
          BY <2>1, <4>1 DEF Counted
        <4>2. CASE /\ next.vid = imp.next.vid + 1
                   /\ {v.vid : v \in gversions} = {imp.next.vid}
          BY <2>1, <4>2, OneMore DEF Counted
        <4>3. QED
          BY <1>3, <4>1, <4>2
      <3>2. Vids(imp'.made) = Vids(imp.made) \union {v.vid : v \in a.versions}
        BY <1>13 DEF Vids
      <3>3. CASE a.versions = gversions /\ imp'.next.vid = next.vid
        BY <3>1, <3>2, <3>3
      <3>4. CASE /\ a.versions = gversions \union {RowVersion}
                 /\ imp'.next.vid = next.vid + 1
        <4>1. Vids(imp'.made) = ids \union {next.vid}
          BY <1>5, <3>2, <3>4
        <4>2. QED
          BY <3>1, <3>4, <4>1, OneMore
      <3>5. QED
        BY <1>12, <3>3, <3>4
    <2>4. NodeIds(imp'.made) = NodeIds(imp.made) /\ NodeIds(imp'.work) = NodeIds(w)
      BY <1>6, <1>9, <1>13 DEF NodeIds
    <2>5. ScopeIds(imp'.made) = ScopeIds(imp.made)
      BY <1>9, <1>13 DEF ScopeIds
    <2>6. InOrder(imp'.made.ops)
      <3>1. imp'.made.ops = imp.made.ops \union gops
        BY <1>1, <1>9 DEF Plus
      <3>2. \A o \in gops : o.type # "validation"
        BY <1>3
      <3>3. QED
        BY <2>1, <3>1, <3>2 DEF Counted, InOrder
    <2>7. QED
      BY <1>3, <1>6, <2>1, <2>2, <2>3, <2>4, <2>5, <2>6 DEF Counted
  <1>15. QED
    BY <1>1, <1>6, <1>14, CountsOn DEF OfRow, AtNextRow

LEMMA ReferencesCount ==
  ASSUME DriftInv, TypeInv, ShapeInv, References, ~Raise
  PROVE  DriftInv'
  <1> DEFINE w == imp.work
             a == Added(w, imp'.work)
  <1>1. /\ GoesOn /\ imp.phase = "references" /\ imp'.phase = "scopes"
        /\ imp'.next = imp.next /\ imp'.made = Plus(imp.made, a)
    BY ReferencesDo
  <1>2. PICK nodes \in {{}, {NewNode}} :
          imp'.work = [w EXCEPT !.nodes = @ \union nodes]
    BY ReferencesDo
  <1>3. Sound(w) /\ IsDatabase(w)
    BY <1>1 DEF TypeInv, ShapeInv
  <1>4. /\ imp'.work.ops = w.ops /\ imp'.work.versions = w.versions
        /\ imp'.work.nodes = w.nodes \union nodes
        /\ imp'.work.scopes = w.scopes /\ imp'.work.org = w.org
    BY <1>2, <1>3 DEF IsDatabase, DatabaseFields
  <1>5. /\ NodeIds(w) \in SUBSET Nat /\ IsFiniteSet(NodeIds(w))
        /\ NewNode.id = NextIntId(NodeIds(w)) /\ NextIntId(NodeIds(w)) \in Nat
        /\ \A n \in w.nodes : n.id \in Nat /\ n.id < NextIntId(NodeIds(w))
    BY <1>3, IdsAre, NextIdIs DEF NewNode, NodeIds
  <1>6. /\ a.ops = {} /\ a.versions = {} /\ a.nodes = nodes /\ a.scopes = {}
    <2>1. a.ops = {}
      BY <1>4 DEF Added, OpIds
    <2>2. a.nodes = nodes
      BY <1>4, <1>5 DEF Added
    <2>3. QED
      BY <1>4, <2>1, <2>2 DEF Added
  <1> HIDE DEF a
  <1>7. /\ OpIds(imp'.made) = OpIds(imp.made) \union OpIds(a)
        /\ Vids(imp'.made) = Vids(imp.made) \union Vids(a)
        /\ NodeIds(imp'.made) = NodeIds(imp.made) \union NodeIds(a)
        /\ ScopeIds(imp'.made) = ScopeIds(imp.made) \union ScopeIds(a)
    <2>1. imp'.made = Plus(imp.made, a)
      BY <1>1
    <2>2. QED
      BY <2>1, PlusHas
  <1>8. ASSUME imp.created, w.org = "ECB"
        PROVE  Counted(imp'.made, imp'.next, imp'.work)
    <2>1. Counted(imp.made, imp.next, w)
      BY <1>1, <1>8 DEF DriftInv, OfRow
    <2>2. /\ OpIds(imp'.made) = OpIds(imp.made)
          /\ Vids(imp'.made) = Vids(imp.made)
          /\ ScopeIds(imp'.made) = ScopeIds(imp.made)
          /\ imp'.made.ops = imp.made.ops
      BY <1>1, <1>6, <1>7 DEF OpIds, Vids, ScopeIds, Plus
    <2>3. UpToNext(NodeIds(imp'.made), NextIntId(NodeIds(imp'.work)))
      <3>1. CASE nodes = {}
        <4>1. NodeIds(imp'.work) = NodeIds(w) /\ NodeIds(imp'.made) = NodeIds(imp.made)
          BY <1>4, <1>6, <1>7, <3>1 DEF NodeIds
        <4>2. QED
          BY <2>1, <4>1 DEF Counted
      <3>2. CASE nodes = {NewNode}
        <4> DEFINE next == NextIntId(NodeIds(w))
        <4>1. NodeIds(imp'.work) = NodeIds(w) \union {next}
          BY <1>4, <1>5, <3>2 DEF NodeIds
        <4>2. NodeIds(imp'.made) = NodeIds(imp.made) \union {next}
          <5> HIDE DEF next
          <5>1. a.nodes = {NewNode} /\ NewNode.id = next
            BY <1>5, <1>6, <3>2 DEF next
          <5> HIDE DEF NewNode
          <5>2. {n.id : n \in a.nodes} = {next}
            BY <5>1
          <5>3. NodeIds(a) = {next}
            BY <5>2 DEF NodeIds
          <5>4. QED
            BY <1>7, <5>3
        <4>3. NextIntId(NodeIds(imp'.work)) = next + 1
          BY <1>5, <4>1, NextAfterNext
        <4>4. UpToNext(NodeIds(imp.made), next)
          BY <2>1 DEF Counted
        <4>5. QED
          BY <4>2, <4>3, <4>4, OneMore
      <3>3. QED
        BY <3>1, <3>2
    <2>4. QED
      BY <1>1, <1>4, <2>1, <2>2, <2>3 DEF Counted
  <1>9. QED
    BY <1>1, <1>4, <1>8, CountsOn DEF OfRow

LEMMA ScopeCounts ==
  ASSUME DriftInv, TypeInv, ShapeInv, NEW r \in imp.releases, Scope(r), ~Raise
  PROVE  DriftInv'
  <1> DEFINE w == imp.work
             a == Added(w, imp'.work)
             n == Cardinality(NewScopes(r))
             start == imp.next.scope
  <1>1. /\ GoesOn /\ imp.phase = "scopes" /\ imp'.phase = "scopes"
        /\ imp'.next = [imp.next EXCEPT !.scope = @ + n]
        /\ imp'.made = Plus(imp.made, a)
        /\ imp'.work = [w EXCEPT !.scopes = @ \union ScopesMade(r)]
    BY ScopeDoes
  <1>2. /\ Sound(w) /\ IsDatabase(w) /\ IsNext(imp.next) /\ start \in Nat
        /\ NewScopes(r) \in SUBSET Nat /\ IsFiniteSet(NewScopes(r)) /\ n \in Nat
    BY <1>1, NewScopesAre DEF TypeInv, ShapeInv, OfRow
  <1>3. /\ imp'.work.ops = w.ops /\ imp'.work.versions = w.versions
        /\ imp'.work.nodes = w.nodes /\ imp'.work.org = w.org
        /\ imp'.work.scopes = w.scopes \union ScopesMade(r)
    BY <1>1, <1>2 DEF IsDatabase, DatabaseFields
  <1>4. /\ imp'.next.op = imp.next.op /\ imp'.next.vid = imp.next.vid
        /\ imp'.next.scope = start + n
    BY <1>1, <1>2 DEF IsNext, NextFields
  <1>5. {s.id : s \in ScopesMade(r)} = start..(start + n - 1)
    <2>1. {s.id : s \in ScopesMade(r)} = {ScopeIdOf(r, s) : s \in NewScopes(r)}
      <3>1. \A x \in ScopesMade(r) :
              \E s \in NewScopes(r) : x.id = ScopeIdOf(r, s)
        BY DEF ScopesMade
      <3>2. \A s \in NewScopes(r) :
              \E x \in ScopesMade(r) : x.id = ScopeIdOf(r, s)
        <4> TAKE s \in NewScopes(r)
        <4> DEFINE x == [id |-> ScopeIdOf(r, s), vid |-> imp.vid, modules |-> s]
        <4>1. x \in ScopesMade(r)
          BY DEF ScopesMade
        <4>2. x.id = ScopeIdOf(r, s)
          OBVIOUS
        <4>3. QED
          BY <4>1, <4>2
      <3>3. QED
        BY <3>1, <3>2
    <2>2. {start + Cardinality({t \in NewScopes(r) : t < s}) : s \in NewScopes(r)}
            = start..(start + n - 1)
      BY <1>2, RanksOfNat
    <2>3. QED
      BY <2>1, <2>2 DEF ScopeIdOf
  <1>6. \A s \in ScopesMade(r) : s.id \in Nat /\ start <= s.id /\ s.id < start + n
    <2> TAKE s \in ScopesMade(r)
    <2>1. s.id \in start..(start + n - 1)
      BY <1>5
    <2>2. QED
      BY <1>2, <2>1
  <1> HIDE DEF n
  <1>7. a.ops = {} /\ a.versions = {} /\ a.nodes = {}
    <2>1. a.ops = {}
      BY <1>3 DEF Added, OpIds
    <2>2. QED
      BY <1>3, <2>1 DEF Added
  <1>8. a.scopes = (w.scopes \union ScopesMade(r)) \ w.scopes
    BY <1>3 DEF Added
  <1> HIDE DEF a
  <1>9. /\ OpIds(imp'.made) = OpIds(imp.made) \union OpIds(a)
        /\ Vids(imp'.made) = Vids(imp.made) \union Vids(a)
        /\ NodeIds(imp'.made) = NodeIds(imp.made) \union NodeIds(a)
        /\ ScopeIds(imp'.made) = ScopeIds(imp.made) \union ScopeIds(a)
    <2>1. imp'.made = Plus(imp.made, a)
      BY <1>1
    <2>2. QED
      BY <2>1, PlusHas
  <1>10. ASSUME imp.created, w.org = "ECB"
         PROVE  Counted(imp'.made, imp'.next, imp'.work)
    <2>1. Counted(imp.made, imp.next, w)
      BY <1>1, <1>10 DEF DriftInv, OfRow
    <2>2. /\ OpIds(imp'.made) = OpIds(imp.made)
          /\ Vids(imp'.made) = Vids(imp.made)
          /\ NodeIds(imp'.made) = NodeIds(imp.made)
          /\ NodeIds(imp'.work) = NodeIds(w)
          /\ imp'.made.ops = imp.made.ops
      BY <1>1, <1>3, <1>7, <1>9 DEF OpIds, Vids, NodeIds, Plus
    <2>3. UpToNext(ScopeIds(imp'.made), imp'.next.scope)
      <3>1. \A s \in w.scopes : s.id \in Nat /\ s.id < start
        BY <1>2, <2>1, RowsAre DEF Counted, Sound
      <3>2. a.scopes = ScopesMade(r)
        BY <1>2, <1>6, <1>8, <3>1
      <3>3. ScopeIds(imp'.made) = ScopeIds(imp.made) \union start..(start + n - 1)
        BY <1>5, <1>9, <3>2 DEF ScopeIds, n
      <3>4. start \in Nat /\ Base <= start /\ ScopeIds(imp.made) = Base..(start - 1)
        BY <2>1 DEF Counted, UpToNext
      <3>5. ScopeIds(imp'.made) = Base..((start + n) - 1)
        BY <1>2, <3>3, <3>4, ImportAssumption DEF n
      <3>6. QED
        <4>1. n \in Nat /\ imp'.next.scope = start + n /\ Base \in Nat
          BY <1>2, <1>4, ImportAssumption DEF n
        <4>2. start + n \in Nat /\ Base <= start + n
          BY <3>4, <4>1
        <4>3. UpToNext(Base..((start + n) - 1), start + n)
          BY <4>2 DEF UpToNext
        <4>4. QED
          BY <3>5, <4>1, <4>3
    <2>4. \A s \in imp'.work.scopes : s.id < imp'.next.scope
      <3>1. \A s \in w.scopes : s.id \in Nat /\ s.id < start
        BY <1>2, <2>1, RowsAre DEF Counted, Sound
      <3>2. n \in Nat /\ start \in Nat
        BY <1>2 DEF n
      <3>3. QED
        BY <1>3, <1>4, <1>6, <3>1, <3>2
    <2>5. QED
      BY <1>4, <2>1, <2>2, <2>3, <2>4 DEF Counted
  <1>11. QED
    BY <1>1, <1>3, <1>10, CountsOn DEF OfRow

LEMMA DriftKeeps ==
  ASSUME DriftInv, GateInv, PersistInv, TypeInv, ShapeInv, [Next]_vars
  PROVE  DriftInv'
  <1>1. CASE Ends
    <2>1. CASE imp'.outcome = "ok"
      <3>1. imp.phase = "verify" /\ db.org = "ECB"
        BY <1>1, <2>1, EndIs DEF Ends, Persisted
      <3>2. QED
        BY <1>1, <3>1, EndsDoes DEF DriftInv, OfRow
    <2>2. CASE imp'.outcome # "ok"
      BY <1>1, <2>2, EndsDoes DEF DriftInv, OfRow
    <2>3. QED
      BY <2>1, <2>2
  <1>2. CASE UNCHANGED vars
    BY <1>2 DEF vars, DriftInv
  <1>3. ASSUME NEW file \in Files, Start(file)
        PROVE  DriftInv'
    BY <1>3, StartDoes DEF DriftInv
  <1>4. CASE ~Raise /\ Organisation
    BY <1>4, OrganisationDoes DEF DriftInv, OfRow, ShapeInv
  <1>5. CASE ~Raise /\ CheckFloors
    <2>1. /\ GoesOn /\ imp.phase = "floors" /\ imp'.phase = "operations"
          /\ imp'.work = imp.work
      BY <1>5, FloorsDo, Zenon
    <2>2. imp'.outcome # "ok" /\ imp'.created = imp.created
      BY <2>1 DEF ShapeInv, GoesOn
    <2>3. QED
      BY <1>5, <2>1, <2>2, FloorsAtBase DEF DriftInv, OfRow
  <1>6. CASE ~Raise /\ Operations
    BY <1>6, OperationsCount
  <1>7. CASE ~Raise /\ TakeRow
    BY <1>7, TakeRowCounts
  <1>8. CASE ~Raise /\ References
    BY <1>8, ReferencesCount
  <1>9. CASE ~Raise /\ LoseTransaction
    <2>1. /\ GoesOn /\ imp.phase \in {"references", "scopes"}
          /\ imp'.phase = "scopes" /\ imp'.work = db
      BY <1>9, LoseTransactionDoes
    <2>2. imp.created => imp'.work.org # "ECB"
      BY <2>1 DEF PersistInv, TransactionInv, InTransaction
    <2>3. QED
      BY <2>1, <2>2, CountsOn DEF OfRow
  <1>10. ASSUME ~Raise, NEW r \in imp.releases, Scope(r)
         PROVE  DriftInv'
    BY <1>10, ScopeCounts
  <1>11. CASE SkipRow \/ EndRow
    <2>1. /\ GoesOn /\ AtNextRow
          /\ imp.phase \in OfRow
          /\ imp'.work = imp.work /\ imp'.next = imp.next
          /\ imp'.made = imp.made
      BY <1>11, RowEndsAre, RowEndDoes DEF OfRow
    <2>2. imp.created /\ imp.work.org = "ECB" =>
            Counted(imp.made, imp.next, imp.work)
      BY <2>1 DEF DriftInv
    <2>3. imp'.phase \in OfRow \union {"commit"}
      BY <2>1 DEF AtNextRow, OfRow
    <2>4. QED
      BY <2>1, <2>2, <2>3, CountsOn
  <1>12. CASE Commit
    BY <1>12, CommitDoes DEF DriftInv, OfRow, ShapeInv
  <1>13. QED
    BY <1>1, <1>2, <1>3, <1>4, <1>5, <1>6, <1>7, <1>8, <1>9, <1>10, <1>11,
       <1>12, StepsAre

LEMMA NoGapIsConsecutive ==
  ASSUME NEW ids, \E n \in Nat : UpToNext(ids, n)
  PROVE  Consecutive(ids)
  <1>1. PICK n \in Nat : Base <= n /\ ids = Base..(n - 1)
    BY DEF UpToNext
  <1>2. Base \in Nat
    BY ImportAssumption
  <1>3. Cardinality(ids) = n - Base
    <2>1. n - 1 \in Int /\ Base \in Int
      BY <1>2
    <2>2. Cardinality(Base..(n - 1)) =
            IF Base > n - 1 THEN 0 ELSE (n - 1) - Base + 1
      BY <2>1, FS_Interval
    <2>3. QED
      BY <1>1, <1>2, <2>2
  <1>4. QED
    BY <1>1, <1>2, <1>3 DEF Consecutive

\* _next_int_id: what an import adds to a database without the ECB's rows has
\* the IDs from Base on, without a gap, and those of the operations of the file
\* follow the order of their codes, however large the tables have become.
THEOREM IdsAreStable == Spec => []IdsDoNotDrift
  <1>1. Init => DriftInv
    BY ShapeIsInitial DEF DriftInv
  <1>2. DriftInv => IdsDoNotDrift
    <2>1. SUFFICES ASSUME DriftInv, imp.outcome = "ok" /\ imp.created
                   PROVE  IdsDoNotDrift
      BY DEF IdsDoNotDrift
    <2>2. NoGap(imp.made)
      BY <2>1 DEF DriftInv
    <2>3. /\ Consecutive(OpIds(imp.made)) /\ Consecutive(Vids(imp.made))
          /\ Consecutive(NodeIds(imp.made)) /\ Consecutive(ScopeIds(imp.made))
      BY <2>2, NoGapIsConsecutive DEF NoGap
    <2>4. QED
      BY <2>2, <2>3
      DEF IdsDoNotDrift, NoGap, InOrder, OpIds, Vids, NodeIds, ScopeIds
  <1>3. QED
    BY <1>1, <1>2, Shape, Typed, GatesHold, PersistHolds, DriftKeeps, PTL DEF Spec

-----------------------------------------------------------------------------
\* What a file that is imported whole leaves behind

CodesOf(f) ==
  LET own == {f[i].code : i \in DOMAIN f}
  IN own \union ({Parent[c] : c \in own} \ {None})

\* Is a row the first of its code and release?  The others are skipped.
SameKey(row, other) == row.code = other.code /\ row.start = other.start
FirstOf(f, i) ==
  /\ f[i].start # None
  /\ \A j \in DOMAIN f : j < i => ~SameKey(f[j], f[i])

\* Is the precondition of a text at a release there, and a version of a row?
GateThere(d, text, start) ==
  \E p \in d.ops, g \in d.versions :
    /\ p.type = "precondition" /\ p.code = GateCode[text]
    /\ g.op = p.id /\ g.start = start /\ g.text = text
VersionThere(d, row) ==
  \E o \in d.ops, v \in d.versions :
    o.code = row.code /\ v.op = o.id /\ v.start = row.start
RowThere(d, row) ==
  /\ VersionThere(d, row)
  /\ row.gate # None => GateThere(d, row.gate, row.start)

CodesThere(d, f) == \A c \in CodesOf(f) : \E o \in d.ops : o.code = c
RowsThere(d, f, n) ==
  \A j \in DOMAIN f : j <= n /\ FirstOf(f, j) => RowThere(d, f[j])
Imported(d, f) == CodesThere(d, f) /\ RowsThere(d, f, Len(f))

\* The keys of the first n rows, and no others, have been seen.
SeenOf(seen, f, n) ==
  /\ \A j \in DOMAIN f :
       j <= n /\ f[j].start # None => <<f[j].code, f[j].start>> \in seen
  /\ \A key \in seen :
       \E j \in DOMAIN f : j <= n /\ key = <<f[j].code, f[j].start>>

\* How many rows are done.
Done == IF imp.phase = "row" THEN imp.i - 1 ELSE imp.i

\* The operations of the codes, and the cached preconditions, are there.
WorkHolds(d, codes, op, cache) ==
  /\ \A c \in codes : \E o \in d.ops : o.id = op[c] /\ o.code = c
  /\ \A k \in DOMAIN cache : GateThere(d, k[1], k[2])

WholeInv ==
  /\ \A f \in whole : Imported(db, f)
  /\ imp.phase # "idle" => Extends(imp.work, db)
  /\ imp.phase \in OfRow =>
       /\ SeenOf(imp.seen, imp.file, Done)
       /\ ~imp.lost => /\ WorkHolds(imp.work, FileCodes, imp.op, imp.cache)
                       /\ RowsThere(imp.work, imp.file, Done)
  /\ imp.phase = "commit" /\ ~imp.lost => Imported(imp.work, imp.file)

LEMMA ExtendsItself ==
  ASSUME NEW d
  PROVE  Extends(d, d)
  BY DEF Extends, SameOp

LEMMA ExtendsOn ==
  ASSUME NEW c, NEW d, NEW e, Extends(d, c), Extends(e, d)
  PROVE  Extends(e, c)
  BY DEF Extends, SameOp

\* What is there stays there.
LEMMA ThereExtends ==
  ASSUME NEW d, NEW e, Extends(e, d)
  PROVE  /\ \A text, start : GateThere(d, text, start) => GateThere(e, text, start)
         /\ \A row : RowThere(d, row) => RowThere(e, row)
         /\ \A f, n : RowsThere(d, f, n) => RowsThere(e, f, n)
         /\ \A f : Imported(d, f) => Imported(e, f)
  <1>1. \A text, start : GateThere(d, text, start) => GateThere(e, text, start)
    BY DEF GateThere, Extends, SameOp
  <1>2. \A row : VersionThere(d, row) => VersionThere(e, row)
    BY DEF VersionThere, Extends, SameOp
  <1>3. \A row : RowThere(d, row) => RowThere(e, row)
    BY <1>1, <1>2 DEF RowThere
  <1>4. \A f, n : RowsThere(d, f, n) => RowsThere(e, f, n)
    BY <1>3 DEF RowsThere
  <1>5. \A f : CodesThere(d, f) => CodesThere(e, f)
    BY DEF CodesThere, Extends, SameOp
  <1>6. QED
    BY <1>1, <1>3, <1>4, <1>5 DEF Imported

LEMMA HoldsOn ==
  ASSUME NEW d, NEW e, Extends(e, d), NEW codes, NEW op, NEW cache,
         WorkHolds(d, codes, op, cache)
  PROVE  WorkHolds(e, codes, op, cache)
  <1>1. \A c \in codes : \E o \in e.ops : o.id = op[c] /\ o.code = c
    BY DEF WorkHolds, Extends, SameOp
  <1>2. QED
    BY <1>1, ThereExtends DEF WorkHolds

LEMMA FileCodesAre == FileCodes = CodesOf(imp.file)
  BY DEF FileCodes, CodesOf

\* The import goes on with the next row once it has done its own.
LEMMA NextRowWhole ==
  ASSUME WholeInv, TypeInv, GoesOn, AtNextRow, imp.phase \in OfRow,
         Extends(imp'.work, db), SeenOf(imp'.seen, imp.file, imp.i),
         ~imp'.lost => /\ WorkHolds(imp'.work, FileCodes, imp.op, imp'.cache)
                       /\ RowsThere(imp'.work, imp.file, imp.i)
  PROVE  WholeInv'
  <1>1. imp.i \in DOMAIN imp.file /\ imp.file \in Seq(FileRow)
    BY ImportAssumption DEF TypeInv, OfRow
  <1>2. /\ imp.i \in Nat /\ imp'.i = imp.i + 1 /\ imp'.op = imp.op
        /\ imp'.file = imp.file /\ db' = db /\ whole' = whole
        /\ imp'.phase = IF imp.i = Len(imp.file) THEN "commit" ELSE "row"
    BY <1>1 DEF AtNextRow, GoesOn
  <1>3. FileCodes' = FileCodes
    BY <1>2 DEF FileCodes
  <1>4. CASE imp'.phase = "row"
    <2>1. Done' = imp.i
      BY <1>2, <1>4 DEF Done
    <2>2. ~imp'.lost =>
            /\ WorkHolds(imp'.work, FileCodes', imp'.op, imp'.cache)
            /\ RowsThere(imp'.work, imp'.file, Done')
      BY <1>2, <1>3, <2>1
    <2>3. SeenOf(imp'.seen, imp'.file, Done')
      BY <1>2, <2>1
    <2>4. QED
      BY <1>2, <1>4, <2>2, <2>3 DEF WholeInv
  <1>5. CASE imp'.phase = "commit"
    <2>1. imp.i = Len(imp.file)
      BY <1>2, <1>5
    <2>2. ~imp'.lost => CodesThere(imp'.work, imp.file)
      BY FileCodesAre DEF WorkHolds, CodesThere
    <2>3. ~imp'.lost => Imported(imp'.work, imp'.file)
      BY <1>2, <2>1, <2>2 DEF Imported
    <2>4. QED
      BY <1>2, <1>5, <2>3 DEF WholeInv, OfRow
  <1>6. QED
    BY <1>2, <1>4, <1>5

\* The import stays at its row once it has taken it.
LEMMA StaysWhole ==
  ASSUME WholeInv, GoesOn, imp'.phase \in {"references", "scopes"},
         imp'.i = imp.i, imp'.op = imp.op,
         Extends(imp'.work, db), SeenOf(imp'.seen, imp.file, imp.i),
         ~imp'.lost => /\ WorkHolds(imp'.work, FileCodes, imp.op, imp'.cache)
                       /\ RowsThere(imp'.work, imp.file, imp.i)
  PROVE  WholeInv'
  <1>1. /\ imp'.file = imp.file /\ db' = db /\ whole' = whole
        /\ imp'.i = imp.i /\ imp'.op = imp.op
    BY DEF GoesOn
  <1>2. FileCodes' = FileCodes
    BY <1>1 DEF FileCodes
  <1>3. Done' = imp.i
    BY <1>1 DEF Done
  <1>4. SeenOf(imp'.seen, imp'.file, Done')
    BY <1>1, <1>3
  <1>5. ~imp'.lost =>
          /\ WorkHolds(imp'.work, FileCodes', imp'.op, imp'.cache)
          /\ RowsThere(imp'.work, imp'.file, Done')
    BY <1>1, <1>2, <1>3
  <1>6. QED
    BY <1>1, <1>4, <1>5 DEF WholeInv

\* After them every code has its operation, and no row is lost.
LEMMA OperationsGive ==
  ASSUME TypeInv, ShapeInv, Operations, ~Raise
  PROVE  /\ Extends(imp'.work, imp.work)
         /\ \A c \in FileCodes :
              \E o \in imp'.work.ops : o.id = imp'.op[c] /\ o.code = c
  <1> DEFINE made == {NewOperation(c) : c \in NewCodes}
             ops == {Grouped(o) : o \in imp.work.ops \union made}
  <1>1. /\ imp.phase = "operations"
        /\ imp'.op = [c \in FileCodes |-> IdOfCode(c)]
        /\ imp'.work = [imp.work EXCEPT !.ops = ops]
    BY OperationsDo
  <1>2. /\ Sound(imp.work) /\ imp.file \in Files /\ imp.next.op \in Nat
        /\ IsDatabase(imp.work)
    BY <1>1 DEF TypeInv, ShapeInv, OfRow, BeforeRows
  <1>3. imp'.work.ops = ops /\ imp'.work.versions = imp.work.versions
    BY <1>1, <1>2 DEF IsDatabase, DatabaseFields
  <1>4. \A c \in NewCodes :
          NewOperation(c) \in Operation /\ NewOperation(c).id = IdOfCode(c)
          /\ NewOperation(c).code = c
    <2> TAKE c \in NewCodes
    <2>1. c \in Nat /\ c \in FileCodes
      BY <1>2, CodesAre DEF NewCodes
    <2>2. IdOfCode(c) \in Nat
      BY <1>2, <2>1, IdOfCodeIs
    <2>3. QED
      BY <2>1, <2>2 DEF NewOperation, Operation
  <1>5. \A o \in imp.work.ops \union made : o \in Operation
    BY <1>2, <1>4, RowsAre DEF Sound
  <1>6. \A o \in imp.work.ops \union made :
          SameOp(o, Grouped(o)) /\ Grouped(o) \in ops
    BY <1>5, GroupedIs
  <1>7. \A c \in FileCodes :
          \E o \in imp.work.ops \union made : o.code = c /\ o.id = IdOfCode(c)
    <2> TAKE c \in FileCodes
    <2>1. CASE c \in NewCodes
      BY <1>4, <2>1
    <2>2. CASE c \notin NewCodes
      BY <1>2, <2>2, IdOfCodeIs DEF Known
    <2>3. QED
      BY <2>1, <2>2
  <1> HIDE DEF ops, made
  <1>8. Extends(imp'.work, imp.work)
    BY <1>3, <1>6 DEF Extends
  <1>9. \A c \in FileCodes : \E o \in ops : o.id = IdOfCode(c) /\ o.code = c
    BY <1>6, <1>7 DEF SameOp
  <1>10. QED
    BY <1>1, <1>3, <1>8, <1>9

LEMMA OperationsWhole ==
  ASSUME WholeInv, TypeInv, ShapeInv, Operations, ~Raise
  PROVE  WholeInv'
  <1>1. /\ GoesOn /\ imp.phase = "operations"
        /\ imp'.phase = IF imp.file = <<>> THEN "commit" ELSE "row"
        /\ imp'.i = 1 /\ imp'.cache = imp.cache /\ imp'.seen = imp.seen
    BY OperationsDo
  <1>2. /\ imp.file \in Files /\ imp.cache = <<>> /\ imp.seen = {}
        /\ Extends(imp.work, db)
    BY <1>1 DEF TypeInv, ShapeInv, OfRow, BeforeRows, WholeInv
  <1>3. /\ Extends(imp'.work, imp.work)
        /\ \A c \in FileCodes :
             \E o \in imp'.work.ops : o.id = imp'.op[c] /\ o.code = c
    BY OperationsGive
  <1>4. Extends(imp'.work, db)
    BY <1>2, <1>3, ExtendsOn
  <1>5. /\ imp'.file = imp.file /\ db' = db /\ whole' = whole
        /\ FileCodes' = FileCodes
    BY <1>1 DEF GoesOn, FileCodes
  <1>6. WorkHolds(imp'.work, FileCodes, imp'.op, imp'.cache)
    BY <1>1, <1>2, <1>3 DEF WorkHolds
  <1>7. DOMAIN imp.file = 1..Len(imp.file) /\ Len(imp.file) \in Nat
    BY <1>2, ImportAssumption
  <1>8. \A j \in DOMAIN imp.file : ~(j <= 0)
    BY <1>7
  <1>9. RowsThere(imp'.work, imp.file, 0) /\ SeenOf(imp'.seen, imp.file, 0)
    BY <1>1, <1>2, <1>8 DEF RowsThere, SeenOf
  <1>10. CASE imp'.phase = "row"
    <2>1. Done' = 0
      BY <1>1, <1>10 DEF Done
    <2>2. /\ WorkHolds(imp'.work, FileCodes', imp'.op, imp'.cache)
          /\ RowsThere(imp'.work, imp'.file, Done')
          /\ SeenOf(imp'.seen, imp'.file, Done')
      BY <1>5, <1>6, <1>9, <2>1
    <2>3. QED
      BY <1>4, <1>5, <1>10, <2>2 DEF WholeInv
  <1>11. CASE imp'.phase = "commit"
    <2>1. imp.file = <<>>
      BY <1>1, <1>11
    <2>2. CodesThere(imp'.work, imp.file)
      BY <1>3, FileCodesAre DEF CodesThere
    <2>3. RowsThere(imp'.work, imp.file, Len(imp.file))
      BY <2>1 DEF RowsThere
    <2>4. Imported(imp'.work, imp'.file)
      BY <1>5, <2>2, <2>3 DEF Imported
    <2>5. QED
      BY <1>4, <1>5, <1>11, <2>4 DEF WholeInv, OfRow
  <1>12. QED
    BY <1>1, <1>10, <1>11

\* The precondition of the row is there once it has been asked for.
LEMMA GatedHolds ==
  ASSUME TypeInv, ShapeInv, imp.phase = "row",
         Extends(Gated.work, imp.work),
         WorkHolds(imp.work, FileCodes, imp.op, imp.cache)
  PROVE  WorkHolds(Gated.work, FileCodes, imp.op, GateCache(Row))
  <1> DEFINE e == Gated.work
             w == imp.work
             cache == GateCache(Row)
  <1>1. /\ IsImport(imp) /\ IsDatabase(w) /\ IsNext(imp.next) /\ Sound(w)
        /\ imp.next.op \in Nat /\ imp.next.vid \in Nat
    BY DEF TypeInv, ShapeInv, OfRow
  <1>2. e = [w EXCEPT !.ops = @ \union GateOpsMade(Row),
                      !.versions = @ \union GateVersionsMade(Row)]
    BY <1>1, GateDoes DEF Gated
  <1>3. /\ e.ops = w.ops \union GateOpsMade(Row)
        /\ e.versions = w.versions \union GateVersionsMade(Row)
    BY <1>1, <1>2 DEF IsDatabase, DatabaseFields
  <1>4. ASSUME NeedsGate(Row)
        PROVE  GateThere(e, Row.gate, Row.start)
    <2>1. \E p \in e.ops : /\ p.id = GateOp(Row) /\ p.type = "precondition"
                           /\ p.code = GateCode[Row.gate]
      <3>1. CASE GateOps(Row) = {}
        <4> DEFINE p == [id |-> GateOp(Row), code |-> GateCode[Row.gate],
                         type |-> "precondition", owner |-> "ECB", group |-> None]
        <4>1. p \in GateOpsMade(Row)
          BY <1>4, <3>1 DEF GateOpsMade
        <4>2. p \in e.ops
          BY <1>3, <4>1
        <4>3. /\ p.id = GateOp(Row) /\ p.type = "precondition"
              /\ p.code = GateCode[Row.gate]
          OBVIOUS
        <4> HIDE DEF p, e
        <4>4. QED
          BY <4>2, <4>3
      <3>2. CASE GateOps(Row) # {}
        BY <1>1, <1>3, <3>2, GateIs DEF GateOps
      <3>3. QED
        BY <3>1, <3>2
    <2>2. \E g \in e.versions :
            g.op = GateOp(Row) /\ g.start = Row.start /\ g.text = Row.gate
      <3>1. CASE GateVersions(Row) = {}
        <4> DEFINE g == NewVersion(GateVid(Row), GateOp(Row), Row, None, None,
                                   Row.gate)
        <4>1. g \in GateVersionsMade(Row)
          BY <1>4, <3>1 DEF GateVersionsMade
        <4>2. g \in e.versions
          BY <1>3, <4>1
        <4>3. g.op = GateOp(Row) /\ g.start = Row.start /\ g.text = Row.gate
          BY DEF NewVersion
        <4> HIDE DEF g, e
        <4>4. QED
          BY <4>2, <4>3
      <3>2. CASE GateVersions(Row) # {}
        BY <1>3, <3>2 DEF GateVersions
      <3>3. QED
        BY <3>1, <3>2
    <2>3. QED
      BY <2>1, <2>2 DEF GateThere
  <1>5. WorkHolds(e, FileCodes, imp.op, imp.cache)
    BY HoldsOn
  <1>6. \A k \in DOMAIN cache :
          \/ k \in DOMAIN imp.cache
          \/ NeedsGate(Row) /\ k = <<Row.gate, Row.start>>
    BY CacheIs DEF CacheKey
  <1> HIDE DEF e, cache
  <1>7. \A k \in DOMAIN cache : GateThere(e, k[1], k[2])
    <2> TAKE k \in DOMAIN cache
    <2>1. CASE k \in DOMAIN imp.cache
      BY <1>5, <2>1 DEF WorkHolds
    <2>2. CASE NeedsGate(Row) /\ k = <<Row.gate, Row.start>>
      BY <1>4, <2>2
    <2>3. QED
      BY <1>6, <2>1, <2>2
  <1>8. QED
    BY <1>5, <1>7 DEF WorkHolds, e, cache

LEMMA TakeRowWhole ==
  ASSUME WholeInv, GateInv, TypeInv, ShapeInv, TakeRow, ~Raise
  PROVE  WholeInv'
  <1> DEFINE e == Gated.work
             more == imp'.work
             cache == GateCache(Row)
             key == <<Row.code, Row.start>>
             v == RowVersion
  <1>1. /\ GoesOn /\ imp.phase = "row" /\ Row.start # None
        /\ imp'.seen = imp.seen \union {key}
        /\ imp'.cache = cache /\ imp'.lost = imp.lost /\ imp'.op = imp.op
        /\ \/ AtNextRow /\ more = e /\ ExistingOfRow # {}
           \/ /\ imp'.phase = "references" /\ imp'.i = imp.i
              /\ more = [e EXCEPT !.versions = @ \union {v}]
    BY TakeRowDoes
  <1>2. Extends(e, imp.work) /\ IsDatabase(e)
    BY <1>1, GatedOwns
  <1>3. /\ imp.file \in Files /\ imp.i \in DOMAIN imp.file /\ Done = imp.i - 1
        /\ Extends(imp.work, db) /\ SeenOf(imp.seen, imp.file, imp.i - 1)
        /\ ~imp.lost => /\ WorkHolds(imp.work, FileCodes, imp.op, imp.cache)
                        /\ RowsThere(imp.work, imp.file, imp.i - 1)
    BY <1>1 DEF TypeInv, WholeInv, OfRow, Done
  <1>4. /\ DOMAIN imp.file \subseteq Nat /\ imp.i \in Nat
        /\ Row = imp.file[imp.i] /\ Row.code \in FileCodes
    BY <1>3, ImportAssumption, RowIs DEF Row
  <1>5. \A j \in DOMAIN imp.file :
          /\ j <= imp.i => j <= imp.i - 1 \/ j = imp.i
          /\ j <= imp.i - 1 => j <= imp.i
    BY <1>4
  <1>6. imp.i <= imp.i
    BY <1>4
  <1> HIDE DEF e, cache, key, v
  <1>7. SeenOf(imp'.seen, imp.file, imp.i)
    <2>1. \A j \in DOMAIN imp.file :
            j <= imp.i /\ imp.file[j].start # None =>
              <<imp.file[j].code, imp.file[j].start>> \in imp'.seen
      BY <1>1, <1>3, <1>4, <1>5 DEF SeenOf, key
    <2>2. \A k \in imp'.seen :
            \E j \in DOMAIN imp.file :
              j <= imp.i /\ k = <<imp.file[j].code, imp.file[j].start>>
      BY <1>1, <1>3, <1>4, <1>5, <1>6 DEF SeenOf, key
    <2>3. QED
      BY <2>1, <2>2 DEF SeenOf
  <1>8. Extends(more, e)
    <2>1. CASE more = e
      BY <2>1, ExtendsItself
    <2>2. CASE more = [e EXCEPT !.versions = @ \union {v}]
      <3>1. more.ops = e.ops /\ more.versions = e.versions \union {v}
        BY <1>2, <2>2 DEF IsDatabase, DatabaseFields
      <3>2. QED
        BY <3>1 DEF Extends, SameOp
    <2>3. QED
      BY <1>1, <2>1, <2>2
  <1>9. Extends(more, imp.work) /\ Extends(more, db)
    BY <1>2, <1>3, <1>8, ExtendsOn
  <1>10. ASSUME ~imp'.lost
         PROVE  /\ WorkHolds(more, FileCodes, imp.op, imp'.cache)
                /\ RowsThere(more, imp.file, imp.i)
    <2>1. WorkHolds(e, FileCodes, imp.op, cache)
      BY <1>1, <1>2, <1>3, <1>10, GatedHolds DEF e, cache
    <2>2. WorkHolds(more, FileCodes, imp.op, cache)
      BY <1>8, <2>1, HoldsOn
    <2>3. RowsThere(more, imp.file, imp.i - 1)
      BY <1>1, <1>3, <1>9, <1>10, ThereExtends
    <2>4. \E o \in more.ops : o.id = imp.op[Row.code] /\ o.code = Row.code
      BY <1>4, <2>2 DEF WorkHolds
    <2>5. \E x \in more.versions : x.op = imp.op[Row.code] /\ x.start = Row.start
      <3>1. CASE more = e /\ ExistingOfRow # {}
        BY <3>1 DEF ExistingOfRow, Existing, e
      <3>2. CASE more = [e EXCEPT !.versions = @ \union {v}]
        <4>1. v \in more.versions
          BY <1>2, <3>2 DEF IsDatabase, DatabaseFields
        <4>2. v.op = imp.op[Row.code] /\ v.start = Row.start
          BY DEF v, RowVersion, NewVersion
        <4>3. QED
          BY <4>1, <4>2
      <3>3. QED
        BY <1>1, <3>1, <3>2
    <2>6. VersionThere(more, Row)
      BY <2>4, <2>5 DEF VersionThere
    <2>7. Row.gate # None => GateThere(more, Row.gate, Row.start)
      <3>1. SUFFICES ASSUME Row.gate # None
                     PROVE  GateThere(more, Row.gate, Row.start)
        OBVIOUS
      <3>2. <<Row.gate, Row.start>> \in DOMAIN cache
        BY <3>1, CacheIs DEF cache, CacheKey
      <3>3. QED
        BY <2>2, <3>2 DEF WorkHolds
    <2>8. RowThere(more, imp.file[imp.i])
      BY <1>4, <2>6, <2>7 DEF RowThere
    <2>9. RowsThere(more, imp.file, imp.i)
      BY <1>5, <2>3, <2>8 DEF RowsThere
    <2>10. QED
      BY <1>1, <2>2, <2>9
  <1>11. CASE AtNextRow
    BY <1>1, <1>7, <1>9, <1>10, <1>11, NextRowWhole DEF OfRow
  <1>12. CASE imp'.phase = "references" /\ imp'.i = imp.i
    BY <1>1, <1>7, <1>9, <1>10, <1>12, StaysWhole
  <1>13. QED
    BY <1>1, <1>11, <1>12

\* A row that is skipped is not the first of its code and release.
LEMMA SkipsWhole ==
  ASSUME WholeInv, TypeInv, ShapeInv, SkipRow \/ EndRow
  PROVE  WholeInv'
  <1>1. /\ GoesOn /\ AtNextRow
        /\ imp'.work = imp.work /\ imp'.cache = imp.cache
        /\ imp'.seen = imp.seen /\ imp'.lost = imp.lost
        /\ \/ /\ imp.phase = "row"
              /\ Row.start = None \/ <<Row.code, Row.start>> \in imp.seen
           \/ imp.phase = "scopes"
    BY RowEndsAre, RowEndDoes
  <1>2. /\ imp.phase \in OfRow
        /\ imp.file \in Files /\ imp.i \in DOMAIN imp.file
        /\ Extends(imp.work, db) /\ SeenOf(imp.seen, imp.file, Done)
        /\ ~imp.lost => /\ WorkHolds(imp.work, FileCodes, imp.op, imp.cache)
                        /\ RowsThere(imp.work, imp.file, Done)
    BY <1>1 DEF TypeInv, WholeInv, OfRow
  <1>3. DOMAIN imp.file \subseteq Nat /\ imp.i \in Nat
    BY <1>2, ImportAssumption
  <1>4. CASE imp.phase = "scopes"
    <2>1. Done = imp.i
      BY <1>4 DEF Done
    <2>2. QED
      BY <1>1, <1>2, <2>1, NextRowWhole
  <1>5. CASE /\ imp.phase = "row"
             /\ Row.start = None \/ <<Row.code, Row.start>> \in imp.seen
    <2>1. Done = imp.i - 1 /\ Row = imp.file[imp.i]
      BY <1>5 DEF Done, Row
    <2>2. \A j \in DOMAIN imp.file :
            /\ j <= imp.i => j <= imp.i - 1 \/ j = imp.i
            /\ j <= imp.i - 1 => j <= imp.i /\ j < imp.i
      BY <1>3
    <2>3. SeenOf(imp.seen, imp.file, imp.i)
      <3>1. \A j \in DOMAIN imp.file :
              j <= imp.i /\ imp.file[j].start # None =>
                <<imp.file[j].code, imp.file[j].start>> \in imp.seen
        BY <1>2, <1>5, <2>1, <2>2 DEF SeenOf
      <3>2. \A key \in imp.seen :
              \E j \in DOMAIN imp.file :
                j <= imp.i /\ key = <<imp.file[j].code, imp.file[j].start>>
        BY <1>2, <2>1, <2>2 DEF SeenOf
      <3>3. QED
        BY <3>1, <3>2 DEF SeenOf
    <2>4. ~FirstOf(imp.file, imp.i)
      <3>1. CASE Row.start = None
        BY <2>1, <3>1 DEF FirstOf
      <3>2. CASE <<Row.code, Row.start>> \in imp.seen
        <4>1. PICK j \in DOMAIN imp.file :
                /\ j <= imp.i - 1
                /\ <<Row.code, Row.start>> = <<imp.file[j].code, imp.file[j].start>>
          BY <1>2, <2>1, <3>2 DEF SeenOf
        <4>2. j < imp.i /\ SameKey(imp.file[j], imp.file[imp.i])
          BY <2>1, <2>2, <4>1 DEF SameKey
        <4>3. QED
          BY <4>2 DEF FirstOf
      <3>3. QED
        BY <1>5, <3>1, <3>2
    <2>5. ~imp.lost => RowsThere(imp.work, imp.file, imp.i)
      BY <1>2, <2>1, <2>2, <2>4 DEF RowsThere
    <2>6. QED
      BY <1>1, <1>2, <2>3, <2>5, NextRowWhole
  <1>6. QED
    BY <1>1, <1>4, <1>5

LEMMA WholeKeeps ==
  ASSUME WholeInv, GateInv, TypeInv, ShapeInv, [Next]_vars
  PROVE  WholeInv'
  <1>1. CASE Ends
    <2>1. imp'.phase = "idle"
      BY <1>1, EndsDoes
    <2>2. \A f \in whole' : Imported(db', f)
      <3>1. CASE /\ db' = imp.work /\ imp.phase = "commit"
                 /\ whole' = IF imp.lost THEN whole ELSE whole \union {imp.file}
        BY <3>1, ThereExtends DEF WholeInv
      <3>2. CASE db' = db /\ whole' = whole
        BY <3>2 DEF WholeInv
      <3>3. QED
        BY <1>1, <3>1, <3>2 DEF Ends
    <2>3. QED
      BY <2>1, <2>2 DEF WholeInv, OfRow
  <1>2. CASE UNCHANGED vars
    <2>1. FileCodes' = FileCodes /\ Done' = Done
      BY <1>2 DEF vars, FileCodes, Done
    <2>2. QED
      BY <1>2, <2>1 DEF vars, WholeInv
  <1>3. ASSUME NEW file \in Files, Start(file)
        PROVE  WholeInv'
    BY <1>3, StartDoes, ExtendsItself DEF WholeInv, OfRow
  <1>4. CASE ~Raise /\ Organisation
    <2>1. /\ db' = db /\ whole' = whole /\ imp.phase = "organisation"
          /\ imp'.phase = "floors" /\ SameRows(imp'.work, imp.work)
      BY <1>4, OrganisationDoes
    <2>2. Extends(imp'.work, db)
      BY <2>1 DEF WholeInv, Extends, SameRows
    <2>3. QED
      BY <2>1, <2>2 DEF WholeInv, OfRow
  <1>5. CASE ~Raise /\ CheckFloors
    <2>1. /\ GoesOn /\ imp.phase = "floors" /\ imp'.phase = "operations"
          /\ imp'.work = imp.work
      BY <1>5, FloorsDo, Zenon
    <2>2. QED
      BY <2>1 DEF WholeInv, GoesOn, OfRow
  <1>6. ASSUME GoesOn, StaysAtRow, imp.phase \in {"references", "scopes"},
               imp'.phase \in {"references", "scopes"}, imp'.lost = imp.lost,
               imp'.work.ops = imp.work.ops,
               imp'.work.versions = imp.work.versions
        PROVE  WholeInv'
    <2>1. Extends(imp'.work, imp.work)
      BY <1>6 DEF Extends, SameOp
    <2>2. /\ Extends(imp.work, db) /\ SeenOf(imp.seen, imp.file, imp.i)
          /\ ~imp.lost => /\ WorkHolds(imp.work, FileCodes, imp.op, imp.cache)
                          /\ RowsThere(imp.work, imp.file, imp.i)
      BY <1>6 DEF WholeInv, OfRow, Done
    <2>3. Extends(imp'.work, db)
      BY <2>1, <2>2, ExtendsOn
    <2>4. ~imp.lost => /\ WorkHolds(imp'.work, FileCodes, imp.op, imp.cache)
                       /\ RowsThere(imp'.work, imp.file, imp.i)
      BY <2>1, <2>2, HoldsOn, ThereExtends
    <2>5. QED
      BY <1>6, <2>2, <2>3, <2>4, StaysWhole DEF StaysAtRow
  <1>7. CASE ~Raise /\ References
    <2>1. /\ imp'.work.ops = imp.work.ops
          /\ imp'.work.versions = imp.work.versions
      BY <1>7, ReferencesDo DEF ShapeInv, IsDatabase, DatabaseFields
    <2>2. QED
      BY <1>6, <1>7, <2>1, ReferencesDo
  <1>8. ASSUME ~Raise, NEW r \in imp.releases, Scope(r)
        PROVE  WholeInv'
    <2>1. /\ imp'.work.ops = imp.work.ops
          /\ imp'.work.versions = imp.work.versions
      BY <1>8, ScopeDoes DEF ShapeInv, IsDatabase, DatabaseFields
    <2>2. QED
      BY <1>6, <1>8, <2>1, ScopeDoes
  <1>9. CASE ~Raise /\ LoseTransaction
    <2>1. /\ GoesOn /\ StaysAtRow /\ imp.phase \in {"references", "scopes"}
          /\ imp'.phase = "scopes" /\ imp'.work = db /\ imp'.lost
      BY <1>9, LoseTransactionDoes
    <2>2. SeenOf(imp.seen, imp.file, imp.i)
      BY <2>1 DEF WholeInv, OfRow, Done
    <2>3. QED
      BY <2>1, <2>2, ExtendsItself, StaysWhole DEF StaysAtRow
  <1>10. CASE Commit
    <2>1. /\ db' = imp.work /\ imp.phase = "commit"
          /\ whole' = IF imp.lost THEN whole ELSE whole \union {imp.file}
          /\ imp'.phase = "verify" /\ imp'.work = imp.work
      BY <1>10, CommitDoes
    <2>2. \A f \in whole' : Imported(imp.work, f)
      BY <2>1, ThereExtends DEF WholeInv
    <2>3. QED
      BY <2>1, <2>2, ExtendsItself DEF WholeInv, OfRow
  <1>11. QED
    BY <1>1, <1>2, <1>3, <1>4, <1>5, <1>7, <1>8, <1>9, <1>10, OperationsWhole,
       TakeRowWhole, SkipsWhole, StepsAre

LEMMA WholeHolds == Spec => []WholeInv
  <1>1. Init => WholeInv
    BY ShapeIsInitial DEF Init, WholeInv, OfRow
  <1>2. QED
    BY <1>1, Shape, Typed, GatesHold, WholeKeeps, PTL DEF Spec

-----------------------------------------------------------------------------
\* A file that has been imported whole before

RepeatInv ==
  imp.phase \in OfRow \union {"commit"} /\ imp.file \in whole =>
    /\ imp.made = NothingMade
    /\ imp.phase \notin {"references", "scopes"}
    /\ imp.phase = "row" =>
         \A c \in FileCodes, o \in imp.work.ops :
           o.code = c => o.id = imp.op[c]

\* Nothing is added by a step after which there are no new rows.
LEMMA NothingAdded ==
  ASSUME NEW old, NEW new,
         \A o \in new.ops : o.id \in OpIds(old),
         new.versions = old.versions, new.nodes = old.nodes,
         new.scopes = old.scopes
  PROVE  Plus(NothingMade, Added(old, new)) = NothingMade
  BY DEF Plus, Added, NothingMade

LEMMA OperationsRepeat ==
  ASSUME WholeInv, TypeInv, ShapeInv, Operations, ~Raise
  PROVE  RepeatInv'
  <1> DEFINE made == {NewOperation(c) : c \in NewCodes}
             ops == {Grouped(o) : o \in imp.work.ops \union made}
  <1>1. /\ GoesOn /\ imp.phase = "operations"
        /\ imp'.phase \in {"row", "commit"}
        /\ imp'.op = [c \in FileCodes |-> IdOfCode(c)]
        /\ imp'.work = [imp.work EXCEPT !.ops = ops]
        /\ imp'.made = Plus(imp.made, Added(imp.work, imp'.work))
        /\ \A c \in FileCodes : AtMostOne({o \in Known : o.code = c})
    BY OperationsDo
  <1>2. SUFFICES ASSUME imp.file \in whole
                 PROVE  /\ imp'.made = NothingMade
                        /\ \A c \in FileCodes, o \in imp'.work.ops :
                             o.code = c => o.id = imp'.op[c]
    <2>1. FileCodes' = FileCodes /\ imp'.file = imp.file /\ whole' = whole
      BY <1>1 DEF GoesOn, FileCodes
    <2>2. QED
      BY <1>1, <2>1 DEF RepeatInv
  <1>3. /\ Sound(imp.work) /\ IsDatabase(imp.work) /\ imp.made = NothingMade
        /\ Extends(imp.work, db) /\ Imported(db, imp.file)
    BY <1>1, <1>2 DEF TypeInv, ShapeInv, WholeInv, OfRow, BeforeRows
  <1>4. \A c \in FileCodes : \E o \in imp.work.ops : o.code = c
    BY <1>3, FileCodesAre DEF Imported, CodesThere, Extends, SameOp
  <1>5. NewCodes = {}
    BY <1>4 DEF NewCodes, Known
  <1>6. \A o \in imp.work.ops : o \in Operation
    BY <1>3, RowsAre DEF Sound
  <1>7. \A p \in ops : \E o \in imp.work.ops : SameOp(o, p)
    BY <1>5, <1>6, GroupedIs
  <1>8. /\ imp'.work.ops = ops /\ imp'.work.versions = imp.work.versions
        /\ imp'.work.nodes = imp.work.nodes
        /\ imp'.work.scopes = imp.work.scopes
    BY <1>1, <1>3 DEF IsDatabase, DatabaseFields
  <1>9. \A c \in FileCodes, o \in imp.work.ops : o.code = c => o.id = IdOfCode(c)
    <2> TAKE c \in FileCodes, o \in imp.work.ops
    <2>1. HAVE o.code = c
    <2> DEFINE q == CHOOSE p \in Known : p.code = c
    <2>2. o \in Known
      BY <2>1 DEF Known
    <2>3. q \in Known /\ q.code = c
      BY <2>1, <2>2
    <2>4. q = o
      BY <1>1, <2>1, <2>2, <2>3 DEF AtMostOne
    <2>5. IdOfCode(c) = q.id
      BY <1>5 DEF IdOfCode
    <2>6. QED
      BY <2>4, <2>5
  <1> HIDE DEF ops, made
  <1>10. \A o \in imp'.work.ops : o.id \in OpIds(imp.work)
    BY <1>7, <1>8 DEF OpIds, SameOp
  <1>11. imp'.made = NothingMade
    <2>1. Plus(NothingMade, Added(imp.work, imp'.work)) = NothingMade
      <3> DEFINE old == imp.work
                 new == imp'.work
      <3>1. /\ \A o \in new.ops : o.id \in OpIds(old)
            /\ new.versions = old.versions /\ new.nodes = old.nodes
            /\ new.scopes = old.scopes
        BY <1>8, <1>10
      <3> HIDE DEF old, new
      <3>2. Plus(NothingMade, Added(old, new)) = NothingMade
        BY <3>1, NothingAdded
      <3>3. QED
        BY <3>2 DEF old, new
    <2>2. QED
      BY <1>1, <1>3, <2>1
  <1>12. \A c \in FileCodes, o \in imp'.work.ops : o.code = c => o.id = imp'.op[c]
    BY <1>1, <1>7, <1>8, <1>9 DEF SameOp
  <1>13. QED
    BY <1>11, <1>12

LEMMA TakeRowRepeats ==
  ASSUME RepeatInv, WholeInv, TypeInv, ShapeInv, TakeRow, ~Raise
  PROVE  RepeatInv'
  <1> DEFINE w == imp.work
             e == Gated.work
  <1>1. /\ GoesOn /\ imp.phase = "row" /\ Row.start # None
        /\ <<Row.code, Row.start>> \notin imp.seen
        /\ ~GateIsAmbiguous(Row)
        /\ imp'.made = Plus(imp.made, Added(w, imp'.work))
        /\ imp'.op = imp.op
        /\ \/ AtNextRow /\ imp'.work = e
           \/ ExistingOfRow = {}
    BY TakeRowDoes
  <1>2. FileCodes' = FileCodes /\ imp'.file = imp.file /\ whole' = whole
    BY <1>1 DEF GoesOn, FileCodes
  <1>3. SUFFICES ASSUME imp.file \in whole
                 PROVE  /\ imp'.made = NothingMade
                        /\ imp'.phase \notin {"references", "scopes"}
                        /\ \A c \in FileCodes, o \in imp'.work.ops :
                             o.code = c => o.id = imp'.op[c]
    BY <1>2 DEF RepeatInv
  <1>4. /\ imp.made = NothingMade
        /\ \A c \in FileCodes, o \in w.ops : o.code = c => o.id = imp.op[c]
        /\ imp.file \in Files /\ imp.i \in DOMAIN imp.file
        /\ IsImport(imp) /\ IsDatabase(w) /\ IsNext(imp.next)
        /\ Extends(w, db) /\ Imported(db, imp.file)
        /\ SeenOf(imp.seen, imp.file, imp.i - 1)
    BY <1>1, <1>3 DEF RepeatInv, TypeInv, ShapeInv, WholeInv, OfRow, Done
  <1>5. /\ DOMAIN imp.file = 1..Len(imp.file) /\ Len(imp.file) \in Nat
        /\ Row = imp.file[imp.i] /\ Row.code \in FileCodes
    BY <1>4, ImportAssumption, RowIs DEF Row
  <1>6. FirstOf(imp.file, imp.i)
    <2>1. ASSUME NEW j \in DOMAIN imp.file, j < imp.i,
                 SameKey(imp.file[j], imp.file[imp.i])
          PROVE  FALSE
      <3>1. j <= imp.i - 1
        BY <1>4, <1>5, <2>1
      <3>2. <<imp.file[j].code, imp.file[j].start>> = <<Row.code, Row.start>>
            /\ imp.file[j].start # None
        BY <1>1, <1>5, <2>1 DEF SameKey
      <3>3. QED
        BY <1>1, <1>4, <3>1, <3>2 DEF SeenOf
    <2>2. QED
      BY <1>1, <1>5, <2>1 DEF FirstOf
  <1>7. RowThere(w, Row)
    <2>1. Imported(w, imp.file)
      BY <1>4, ThereExtends
    <2>2. imp.i <= Len(imp.file)
      BY <1>4, <1>5
    <2>3. QED
      BY <1>4, <1>5, <1>6, <2>1, <2>2 DEF Imported, RowsThere
  <1>8. GateOpsMade(Row) = {} /\ GateVersionsMade(Row) = {}
    <2>1. CASE ~NeedsGate(Row)
      BY <2>1 DEF GateOpsMade, GateVersionsMade
    <2>2. CASE NeedsGate(Row)
      <3>1. PICK p \in w.ops, g \in w.versions :
              /\ p.type = "precondition" /\ p.code = GateCode[Row.gate]
              /\ g.op = p.id /\ g.start = Row.start /\ g.text = Row.gate
        BY <1>7, <2>2 DEF RowThere, GateThere, NeedsGate
      <3>2. p \in GateOps(Row)
        BY <3>1 DEF GateOps
      <3>3. AtMostOne(GateOps(Row))
        BY <1>1, <2>2 DEF GateIsAmbiguous
      <3>4. GateOp(Row) = p.id
        BY <3>2, <3>3 DEF GateOp, AtMostOne
      <3>5. g \in GateVersions(Row)
        BY <3>1, <3>4 DEF GateVersions
      <3>6. QED
        BY <3>2, <3>5 DEF GateOpsMade, GateVersionsMade
    <2>3. QED
      BY <2>1, <2>2
  <1>9. /\ e.ops = w.ops /\ e.versions = w.versions /\ e.nodes = w.nodes
        /\ e.scopes = w.scopes
    <2>1. e = [w EXCEPT !.ops = @ \union GateOpsMade(Row),
                        !.versions = @ \union GateVersionsMade(Row)]
      BY <1>4, GateDoes, Zenon DEF Gated
    <2> HIDE DEF e, w
    <2>2. e = [w EXCEPT !.ops = @ \union {}, !.versions = @ \union {}]
      BY <1>8, <2>1
    <2>3. QED
      BY <1>4, <2>2 DEF IsDatabase, DatabaseFields
  <1>10. ExistingOfRow # {}
    <2>1. PICK o \in w.ops, v \in w.versions :
            o.code = Row.code /\ v.op = o.id /\ v.start = Row.start
      BY <1>7 DEF RowThere, VersionThere
    <2>2. o.id = imp.op[Row.code]
      BY <1>4, <1>5, <2>1
    <2>3. v \in ExistingOfRow
      BY <1>9, <2>1, <2>2 DEF ExistingOfRow, Existing
    <2>4. QED
      BY <2>3
  <1>11. AtNextRow /\ imp'.work = e
    BY <1>1, <1>10
  <1> HIDE DEF e, w
  <1>12. imp'.made = NothingMade
    <2>1. \A o \in e.ops : o.id \in OpIds(w)
      BY <1>9 DEF OpIds
    <2>2. QED
      BY <1>1, <1>4, <1>9, <1>11, <2>1, NothingAdded
  <1>13. imp'.phase \notin {"references", "scopes"}
    BY <1>11 DEF AtNextRow
  <1>14. QED
    BY <1>1, <1>4, <1>9, <1>11, <1>12, <1>13

LEMMA RepeatKeeps ==
  ASSUME RepeatInv, WholeInv, TypeInv, ShapeInv, [Next]_vars
  PROVE  RepeatInv'
  <1>1. CASE Ends
    BY <1>1, EndsDoes DEF RepeatInv, OfRow
  <1>2. CASE UNCHANGED vars
    <2>1. FileCodes' = FileCodes
      BY <1>2 DEF vars, FileCodes
    <2>2. QED
      BY <1>2, <2>1 DEF vars, RepeatInv
  <1>3. ASSUME NEW file \in Files, Start(file)
        PROVE  RepeatInv'
    BY <1>3, StartDoes DEF RepeatInv, OfRow
  <1>4. CASE ~Raise /\ Organisation
    BY <1>4, OrganisationDoes DEF RepeatInv, OfRow
  <1>5. CASE ~Raise /\ CheckFloors
    <2>1. imp'.phase = "operations"
      BY <1>5, FloorsDo, Zenon
    <2>2. QED
      BY <2>1 DEF RepeatInv, OfRow
  <1>6. ASSUME imp.phase \in {"references", "scopes"}, GoesOn
        PROVE  RepeatInv'
    BY <1>6 DEF RepeatInv, GoesOn, OfRow
  <1>7. CASE ~Raise /\ References
    BY <1>6, <1>7, ReferencesDo
  <1>8. ASSUME ~Raise, NEW r \in imp.releases, Scope(r)
        PROVE  RepeatInv'
    BY <1>6, <1>8, ScopeDoes
  <1>9. CASE ~Raise /\ LoseTransaction
    BY <1>6, <1>9, LoseTransactionDoes
  <1>10. CASE SkipRow \/ EndRow
    <2>1. /\ GoesOn /\ AtNextRow /\ imp.phase \in {"row", "scopes"}
          /\ imp'.work = imp.work /\ imp'.made = imp.made
      BY <1>10, RowEndsAre, RowEndDoes
    <2>2. FileCodes' = FileCodes
      BY <2>1 DEF GoesOn, FileCodes
    <2>3. QED
      BY <2>1, <2>2 DEF RepeatInv, GoesOn, AtNextRow, OfRow
  <1>11. CASE Commit
    BY <1>11, CommitDoes DEF RepeatInv, OfRow
  <1>12. QED
    BY <1>1, <1>2, <1>3, <1>4, <1>5, <1>7, <1>8, <1>9, <1>10, <1>11,
       OperationsRepeat, TakeRowRepeats, StepsAre

LEMMA RepeatHolds == Spec => []RepeatInv
  <1>1. Init => RepeatInv
    BY ShapeIsInitial DEF RepeatInv, OfRow
  <1>2. QED
    BY <1>1, Shape, Typed, WholeHolds, RepeatKeeps, PTL DEF Spec

\* _get_existing_version and its like: a file that has once been committed whole
\* commits nothing when it is imported again, whatever other files, failures and
\* lost transactions there were in between, and whatever the caller was told.
THEOREM RepeatsAreEmpty == Spec => []RepeatAddsNothing
  <1>1. RepeatInv => RepeatAddsNothing
    BY DEF RepeatInv, RepeatAddsNothing
  <1>2. QED
    BY <1>1, RepeatHolds, PTL
=============================================================================
