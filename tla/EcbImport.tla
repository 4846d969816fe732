----------------------------- MODULE EcbImport -----------------------------
(***************************************************************************)
(* The import of the ECB's validations into a dictionary                   *)
(* (services/ecb_validations_import.py).                                   *)
(*                                                                         *)
(* A file of rows, each a version of an operation, becomes operations,     *)
(* operation versions, references and scopes, in one transaction.  The IDs *)
(* are of a block that starts at Base and that only the ECB may use.  An   *)
(* error inside a row can be swallowed; the session then silently begins a *)
(* new transaction, and whatever was flushed before is gone.  A check with *)
(* a session of its own after the commit is there to notice.               *)
(*                                                                         *)
(* The database enforces foreign keys, as the remote servers do that can   *)
(* lose a connection; on one that loses none, no key dangles.  Codes are   *)
(* numbers in the order of their text.  The result of the scope            *)
(* calculation (module OperationScope) is an input here.                   *)
(***************************************************************************)
EXTENDS ReleaseWindow, FiniteSets, Sequences

CONSTANTS
  Code,      \* codes of validations
  Parent,    \* the code of a validation's parent, or None
  Gate,      \* texts of preconditions
  GateCode,  \* the hashed code of each
  Text,      \* texts of expressions
  Tables,    \* the texts that refer to tables
  ScopesOf,  \* the scopes of a text at a release, numbered by their modules
  Base,      \* the first ID of the block
  Margin,    \* the distance that native IDs have to keep from it
  Files,     \* files that may be imported
  Databases, \* databases before the first import
  MaxImports \* bound on the number of imports

VARIABLES
  db,    \* what is committed
  imp,   \* the import that runs
  whole  \* history: the files committed without a loss, whoever heard of it

FileRow ==
  [code : Code, start : ReleaseId \union {None}, end : ReleaseId \union {None},
   gate : Gate \union {None}, text : Text \union {None}]

Operation ==
  [id : Nat, code : Nat, type : {"validation", "precondition"},
   owner : {"ECB", "native"}, group : Nat \union {None}]
OperationVersion ==
  [vid : Nat, op : Nat, start : ReleaseId, end : ReleaseId \union {None},
   gate : Nat \union {None}, text : Text \union Gate \union {None}]
OperationNode == [id : Nat, vid : Nat]
OperationScope == [id : Nat, vid : Nat, modules : Nat]

\* organisation: the ECB's row, another one in its place, or none.
Database ==
  [org : {"ECB", "other", "none"}, ops : SUBSET Operation,
   versions : SUBSET OperationVersion, nodes : SUBSET OperationNode,
   scopes : SUBSET OperationScope]

Phases == {"idle", "organisation", "floors", "operations", "row", "references",
           "scopes", "commit", "verify"}

ASSUME ImportAssumption ==
  /\ Base \in Nat /\ Margin \in Nat /\ MaxImports \in Nat
  /\ Code \subseteq Nat
  /\ Parent \in [Code -> Code \union {None}]
  /\ GateCode \in [Gate -> Nat]
  /\ Tables \subseteq Text
  /\ ScopesOf \in [Text \X ReleaseId -> SUBSET Nat]
  /\ \A f \in Files : f \in Seq(FileRow)
  /\ \A d \in Databases : d \in Database /\ d.org # "ECB"
  /\ None # "ok"

Idle ==
  [phase |-> "idle", runs |-> 0, file |-> <<>>, i |-> 0, work |-> None,
   next |-> None, op |-> <<>>, cache |-> <<>>, seen |-> {}, vid |-> None,
   releases |-> {}, found |-> {}, made |-> None, created |-> FALSE,
   lost |-> FALSE, outcome |-> None]

Init ==
  /\ db \in Databases
  /\ imp = Idle
  /\ whole = {}

-----------------------------------------------------------------------------
\* Helpers

Highest(S) == CHOOSE n \in S : \A m \in S : m <= n

\* Variant: max plus one over the whole table.
NextIntIdOfAll(ids) == IF ids = {} THEN Base ELSE Highest(ids) + 1

\* _next_int_id with the floor Base
NextIntId(ids) ==
  LET block == {n \in ids : n >= Base}
  IN IF block = {} THEN Base ELSE Highest(block) + 1

OpIds(d) == {o.id : o \in d.ops}
Vids(d) == {v.vid : v \in d.versions}

\* Do all foreign keys refer to rows that are there?
KeysHold(d) ==
  /\ \A o \in d.ops : o.owner = "ECB" => d.org = "ECB"
  /\ \A v \in d.versions : v.op \in OpIds(d) /\ v.gate \in Vids(d) \union {None}
  /\ \A n \in d.nodes : n.vid \in Vids(d)
  /\ \A s \in d.scopes : s.vid \in Vids(d)

\* The tables are finite and their keys hold.  Nobody else's version in the
\* block has a precondition: with any version of theirs in it, every import is
\* refused (CheckFloors).
ASSUME DataAssumption ==
  /\ \A d \in Databases :
       /\ KeysHold(d)
       /\ IsFiniteSet(d.ops) /\ IsFiniteSet(d.versions)
       /\ IsFiniteSet(d.nodes) /\ IsFiniteSet(d.scopes)
       /\ \A v \in d.versions : v.gate # None => v.vid < Base
  /\ \A p \in Text \X ReleaseId : IsFiniteSet(ScopesOf[p])

\* one_or_none: the query raises when it finds two rows.
AtMostOne(rows) == \A x, y \in rows : x = y

NothingMade == [ops |-> {}, versions |-> {}, nodes |-> {}, scopes |-> {}]

\* What a step has added to a database.
Added(old, new) ==
  [ops |-> {o \in new.ops : o.id \notin OpIds(old)},
   versions |-> new.versions \ old.versions,
   nodes |-> new.nodes \ old.nodes, scopes |-> new.scopes \ old.scopes]
Plus(m, a) ==
  [ops |-> m.ops \union a.ops, versions |-> m.versions \union a.versions,
   nodes |-> m.nodes \union a.nodes, scopes |-> m.scopes \union a.scopes]

\* The import goes on with fields changed, or ends, its work rolled back.
Continue(new) == imp' = new /\ UNCHANGED <<db, whole>>
End(outcome) ==
  [Idle EXCEPT !.runs = imp.runs, !.file = imp.file, !.made = imp.made,
               !.created = imp.created, !.outcome = outcome]
Raise == Continue(End("error"))

\* The session flushes: the keys hold, or the database refuses the rows.
Flush(new) ==
  IF KeysHold(new.work)
  THEN Continue([new EXCEPT !.made = Plus(imp.made, Added(imp.work, new.work))])
  ELSE Raise

-----------------------------------------------------------------------------
\* _import_ecb_validations_df, before the rows

Start(file) ==
  /\ imp.phase = "idle"
  /\ imp.runs < MaxImports
  /\ Continue([Idle EXCEPT !.phase = "organisation", !.runs = imp.runs + 1,
                           !.file = file, !.work = db, !.made = NothingMade])

\* _get_or_create_ecb_organisation
Organisation ==
  /\ imp.phase = "organisation"
  /\ IF imp.work.org = "other"
     THEN Raise
     ELSE Continue([imp EXCEPT !.phase = "floors", !.work.org = "ECB",
                               !.created = imp.work.org = "none"])

\* _assert_id_floor_margin: native IDs are well below the block.
OwnerOf(d, vid) ==
  CHOOSE owner \in {"ECB", "native"} :
    \E v \in d.versions, o \in d.ops :
      v.vid = vid /\ o.id = v.op /\ o.owner = owner
MarginHolds(ids, foreign) ==
  /\ \A n \in ids : n < Base => Base - n >= Margin
  /\ \A n \in foreign : n < Base

CheckFloors ==
  LET w == imp.work
      native == {v \in Vids(w) : OwnerOf(w, v) = "native"}
  IN /\ imp.phase = "floors"
     /\ IF /\ MarginHolds(OpIds(w),
                          {o.id : o \in {p \in w.ops : p.owner = "native"}})
           /\ MarginHolds(Vids(w), native)
           /\ MarginHolds({n.id : n \in w.nodes},
                          {n.id : n \in {m \in w.nodes : m.vid \in native}})
           /\ MarginHolds({s.id : s \in w.scopes},
                          {s.id : s \in {t \in w.scopes : t.vid \in native}})
        THEN Continue([imp EXCEPT
               !.phase = "operations",
               !.next = [op |-> NextIntId(OpIds(w)),
                         vid |-> NextIntId(Vids(w)),
                         scope |-> NextIntId({s.id : s \in w.scopes})]])
        ELSE Raise

\* The codes of the file and their parents, and the operations there are of
\* them, whoever owns those.
FileCodes ==
  LET own == {imp.file[i].code : i \in DOMAIN imp.file}
  IN own \union ({Parent[c] : c \in own} \ {None})
Known == {o \in imp.work.ops : o.code \in FileCodes}
NewCodes == FileCodes \ {o.code : o \in Known}
IdOfCode(c) ==
  IF c \in NewCodes
  THEN imp.next.op + Cardinality({d \in NewCodes : d < c})
  ELSE (CHOOSE o \in Known : o.code = c).id
NewOperation(c) ==
  [id |-> IdOfCode(c), code |-> c, type |-> "validation", owner |-> "ECB",
   group |-> None]
Grouped(o) ==
  IF o.code \in FileCodes /\ Parent[o.code] \in FileCodes
  THEN [o EXCEPT !.group = IdOfCode(Parent[o.code])]
  ELSE o

\* One operation for each code, then the groups.
Operations ==
  /\ imp.phase = "operations"
  /\ IF \E c \in FileCodes : ~AtMostOne({o \in Known : o.code = c})
     THEN Raise
     ELSE Flush([imp EXCEPT
            !.phase = IF imp.file = <<>> THEN "commit" ELSE "row",
            !.i = 1, !.op = [c \in FileCodes |-> IdOfCode(c)],
            !.work.ops =
              {Grouped(o) : o \in @ \union {NewOperation(c) : c \in NewCodes}},
            !.next.op = @ + Cardinality(NewCodes)])

-----------------------------------------------------------------------------
\* Its rows

Row == imp.file[imp.i]

\* Variant: the end of the file is noticed one row late.
NextRowLate(new) ==
  [new EXCEPT !.phase = IF imp.i > Len(imp.file) THEN "commit" ELSE "row",
              !.i = @ + 1, !.vid = None, !.releases = {}, !.found = {}]

NextRow(new) ==
  [new EXCEPT !.phase = IF imp.i = Len(imp.file) THEN "commit" ELSE "row",
              !.i = @ + 1, !.vid = None, !.releases = {}, !.found = {}]

\* Variant: a precondition is cached without the release of its row.
CacheKeyOfText(row) == <<row.gate, None>>

CacheKey(row) == <<row.gate, row.start>>

NewVersion(vid, op, row, end, gate, text) ==
  [vid |-> vid, op |-> op, start |-> row.start, end |-> end, gate |-> gate,
   text |-> text]

\* _get_or_create_precondition_version: the import with the precondition of
\* the row in its cache.
GateOps(row) ==
  {o \in imp.work.ops : o.type = "precondition" /\ o.code = GateCode[row.gate]}
GateOp(row) ==
  IF GateOps(row) = {} THEN imp.next.op
  ELSE (CHOOSE o \in GateOps(row) : TRUE).id
GateVersions(row) ==
  {v \in imp.work.versions :
     v.op = GateOp(row) /\ v.start = row.start /\ v.text = row.gate}
GateVid(row) ==
  IF GateVersions(row) = {} THEN imp.next.vid
  ELSE (CHOOSE v \in GateVersions(row) : TRUE).vid
NeedsGate(row) == row.gate # None /\ CacheKey(row) \notin DOMAIN imp.cache
GateIsAmbiguous(row) ==
  NeedsGate(row) /\ ~(AtMostOne(GateOps(row)) /\ AtMostOne(GateVersions(row)))

Cached(key, vid) ==
  [k \in DOMAIN imp.cache \union {key} |->
     IF k = key THEN vid ELSE imp.cache[k]]

WithGate(row) ==
  IF ~NeedsGate(row) THEN imp
  ELSE [imp EXCEPT
         !.work.ops = IF GateOps(row) # {} THEN @ ELSE @ \union
           {[id |-> GateOp(row), code |-> GateCode[row.gate],
             type |-> "precondition", owner |-> "ECB", group |-> None]},
         !.next.op = IF GateOps(row) = {} THEN @ + 1 ELSE @,
         !.work.versions = IF GateVersions(row) # {} THEN @ ELSE @ \union
           {NewVersion(GateVid(row), GateOp(row), row, None, None, row.gate)},
         !.next.vid = IF GateVersions(row) = {} THEN @ + 1 ELSE @,
         !.cache = Cached(CacheKey(row), GateVid(row))]

\* Variant: only what this import has created counts as there.
ExistingOfThisImport(d, op, start) == {}

\* The versions of an operation that start at a release.
Existing(d, op, start) == {v \in d.versions : v.op = op /\ v.start = start}

\* A row with an unknown release, or like one before it, is skipped.
SkipRow ==
  /\ imp.phase = "row"
  /\ Row.start = None \/ <<Row.code, Row.start>> \in imp.seen
  /\ Continue(NextRow(imp))

TakeRow ==
  LET new == WithGate(Row)
      op == imp.op[Row.code]
      existing == Existing(new.work, op, Row.start)
      gate == IF Row.gate = None THEN None ELSE new.cache[CacheKey(Row)]
      key == <<Row.code, Row.start>>
  IN /\ imp.phase = "row"
     /\ Row.start # None /\ key \notin imp.seen
     /\ IF GateIsAmbiguous(Row) \/ ~AtMostOne(existing)
        THEN Raise
        ELSE IF existing # {}
        THEN Flush(NextRow([new EXCEPT !.seen = @ \union {key}]))
        ELSE Flush([new EXCEPT
               !.phase = "references", !.seen = @ \union {key},
               !.vid = new.next.vid, !.next.vid = @ + 1,
               !.work.versions = @ \union
                 {NewVersion(new.next.vid, op, Row, Row.end, gate, Row.text)}])

\* Where the scopes of the row are asked for.
RowReleases ==
  IF Row.text = None THEN {} ELSE ValidReleaseIds(Row.start, Row.end)

\* _extract_table_codes_for_expression and _create_table_references: a second
\* release is tried when the first gave no tables, perhaps for an error.
References ==
  /\ imp.phase = "references"
  /\ \E tables \in {Row.text \in Tables} :
       Flush([imp EXCEPT
         !.phase = "scopes", !.releases = RowReleases,
         !.work.nodes = IF ~tables THEN @ ELSE @ \union
           {[id |-> NextIntId({n.id : n \in @}), vid |-> imp.vid]}])

\* The scopes at one release, but for those that an earlier one had.
Scope(r) ==
  LET new == ScopesOf[Row.text, r] \ imp.found
      Id(s) == imp.next.scope + Cardinality({t \in new : t < s})
  IN /\ imp.phase = "scopes"
     /\ Flush([imp EXCEPT
          !.releases = @ \ {r}, !.found = @ \union new,
          !.next.scope = @ + Cardinality(new),
          !.work.scopes = @ \union
            {[id |-> Id(s), vid |-> imp.vid, modules |-> s] : s \in new}])

EndRow ==
  /\ imp.phase = "scopes"
  /\ imp.releases = {}
  /\ Continue(NextRow(imp))

-----------------------------------------------------------------------------
\* The end of the transaction, and what can go wrong

\* session.commit()
Committed ==
  /\ imp.phase = "commit"
  /\ db' = imp.work
  /\ whole' = IF imp.lost THEN whole ELSE whole \union {imp.file}

Commit ==
  /\ Committed
  /\ imp' = [imp EXCEPT !.phase = "verify"]

\* The commit succeeds, and the caller never hears of it.
LoseReply ==
  /\ Committed
  /\ imp' = End("error")

\* Variant: the check asks the session that has made the commit.
PersistedInSession == imp.created \/ db.org = "ECB"

\* _verify_persisted
Persisted == db.org = "ECB"

Verify ==
  /\ imp.phase = "verify"
  /\ imp' = End(IF Persisted THEN "ok" ELSE "error")
  /\ UNCHANGED <<db, whole>>

\* A swallowed error of the database: the transaction is gone, the session
\* goes on in a new one, and the query that failed has found nothing.  The
\* tables may be found by the second try all the same.
LoseTransaction ==
  /\ imp.work # db
  /\ \/ /\ imp.phase = "references"
        /\ \E tables \in {FALSE} \union {Row.text \in Tables} :
             IF tables THEN Raise
             ELSE Continue([imp EXCEPT !.phase = "scopes", !.work = db,
                                       !.releases = RowReleases, !.lost = TRUE])
     \/ /\ imp.phase = "scopes"
        /\ \E r \in imp.releases :
             Continue([imp EXCEPT !.releases = @ \ {r}, !.work = db,
                                  !.lost = TRUE])

\* Any other error is not swallowed: the import is rolled back.  The death of
\* the process does the same, but that nothing is reported.
Fail ==
  /\ imp.phase \notin {"idle", "verify"}
  /\ \E outcome \in {"error", "died"} : Continue(End(outcome))

\* The new session of the check has no answer.
FailToVerify ==
  /\ imp.phase = "verify"
  /\ \E outcome \in {"error", "died"} : Continue(End(outcome))

Next ==
  \/ \E file \in Files : Start(file)
  \/ Organisation \/ CheckFloors \/ Operations
  \/ SkipRow \/ TakeRow \/ References
  \/ \E r \in imp.releases : Scope(r)
  \/ EndRow \/ Commit \/ LoseReply \/ Verify
  \/ LoseTransaction \/ Fail \/ FailToVerify

vars == <<db, imp, whole>>

Spec == Init /\ [][Next]_vars

-----------------------------------------------------------------------------
\* Properties

\* The rows of the database and of the session are well-formed, their keys hold
\* in the database, and the import is at a row of its file while it has one.
TypeOK ==
  /\ db \in Database
  /\ KeysHold(db)
  /\ whole \subseteq Files
  /\ imp.phase \in Phases
  /\ imp.phase # "idle" => imp.work \in Database /\ imp.file \in Files
  /\ imp.phase \in {"row", "references", "scopes"} => imp.i \in DOMAIN imp.file

\* _verify_persisted: "catches that hollow success instead of reporting it as
\* one".  A run that made the organisation and reports success has all that it
\* counted in the database, whatever was swallowed on the way.
OkMeansPersisted ==
  imp.outcome = "ok" /\ imp.created =>
    /\ imp.made.ops \subseteq db.ops
    /\ imp.made.versions \subseteq db.versions
    /\ imp.made.nodes \subseteq db.nodes
    /\ imp.made.scopes \subseteq db.scopes

\* A file that has once been committed whole commits nothing when it is imported
\* again: whatever other files and failures there were in between, and also if
\* its reply was lost or its check failed, so that the first import was reported
\* as a failure and the caller repeats it.
RepeatAddsNothing ==
  imp.phase = "commit" /\ imp.file \in whole => imp.made = NothingMade

\* _next_int_id: the first ID handed out "stays the same regardless of how
\* large the rest of the table has become".  What an import adds to a database
\* without the ECB's rows has the IDs from Base on, without a gap, and those of
\* the operations of the file follow the order of their codes.
Consecutive(ids) == ids = Base..(Base + Cardinality(ids) - 1)
IdsDoNotDrift ==
  imp.outcome = "ok" /\ imp.created =>
    LET validations == {o \in imp.made.ops : o.type = "validation"}
    IN /\ Consecutive({o.id : o \in imp.made.ops})
       /\ Consecutive({v.vid : v \in imp.made.versions})
       /\ Consecutive({n.id : n \in imp.made.nodes})
       /\ Consecutive({s.id : s \in imp.made.scopes})
       /\ \A o, p \in validations : o.code < p.code => o.id < p.id

\* _get_or_create_precondition_version: the gate of a version that an import has
\* made is a precondition with the text of the row that the version comes from,
\* and starts at the release at which the version starts.
GateIsRowsOwn ==
  \A v \in db.versions :
    v.vid >= Base /\ v.gate # None =>
      \E g \in db.versions, o \in db.ops, p \in db.ops, f \in Files :
        \E i \in DOMAIN f :
          /\ g.vid = v.gate /\ g.start = v.start
          /\ o.id = v.op /\ p.id = g.op /\ p.type = "precondition"
          /\ f[i].code = o.code /\ f[i].start = v.start
          /\ f[i].text = v.text /\ f[i].gate = g.text
=============================================================================
