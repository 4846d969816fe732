--------------------------- MODULE OperationScope ---------------------------
(***************************************************************************)
(* Which module versions an operation is evaluated in                      *)
(* (services/scope_calculator.py, dpm_xl/utils/scopes_calculator.py).      *)
(*                                                                         *)
(* An operation refers to tables, and its precondition to filing           *)
(* indicators.  A scope is a set of module versions that together report   *)
(* all of them.  A version that does so alone is a scope of its own; the   *)
(* others are combined, one for each table.  The versions are resolved at  *)
(* a release with the fallback for ghosts, per table or indicator asked    *)
(* for and apart from the fallback that an export goes by, so the two are  *)
(* composed here: the scopes have to name versions that are exported.      *)
(*                                                                         *)
(* The tables and indicators of the expression and of its gate (a          *)
(* precondition given with it) are inputs: the parser finds them.  Scopes  *)
(* are sets here: what is emitted twice counts once.                       *)
(***************************************************************************)
EXTENDS GhostFallback

CONSTANTS
  Indicator, \* codes of filing indicators
  Queries    \* calculations: [tables, items, gate], the gate [tables, items]

VARIABLES
  result     \* the last calculation, or NoResult

Operands == [tables : SUBSET Code, items : SUBSET Code]

ASSUME QueryAssumption ==
  \A q \in Queries :
    /\ q.tables \subseteq Code \ Indicator /\ q.tables # {}
    /\ q.items \subseteq Code
    /\ q.gate = None \/ q.gate \in Operands

ASSUME SourceAssumption == None \notin {"expression", "precondition"}

-----------------------------------------------------------------------------
\* dpm_xl/model_queries.py: the versions that have tables or indicators

Hosting(vids, codes) == {v \in vids : version[v].hosts \intersect codes # {}}

\* Variant: _resolve_covering, which takes ghosts as they are.
ResolveCovering(codes, r) ==
  Hosting({v \in Vid : r = None \/ Covers(v, r)}, codes)

\* _resolve_with_ghost_fallback: a release of None is any.
Resolve(codes, r) ==
  LET covering == Hosting({v \in Vid : r = None \/ Covers(v, r)}, codes)
      kept == {v \in covering : ~IsGhost(v)}
      bereft == IF r = None THEN {} ELSE ModulesOf(covering) \ ModulesOf(kept)
  IN kept \union Hosting(LatestPrior(bereft, r), codes)

\* get_from_table_codes, get_precondition_module_versions
Info(codes, r) ==
  {row \in Resolve(codes, r) \X codes : row[2] \in version[row[1]].hosts}

CodesIn(rows) == {row[2] : row \in rows}
Has(rows, v) == CodesIn({row \in rows : row[1] = v})

-----------------------------------------------------------------------------
\* OperationScopeService: the scopes of some tables and indicators

\* The versions that provide each table, where there are any.
Pool(rows, vids, tables) ==
  [t \in {u \in tables : \E v \in vids : <<v, u>> \in rows} |->
     {v \in vids : <<v, t>> \in rows}]

\* A pool with the tables that it lacks taken from another one.
Completed(p, q) ==
  [t \in DOMAIN p \union DOMAIN q |-> IF t \in DOMAIN p THEN p[t] ELSE q[t]]

\* Of the versions that have a part of the tables: where a table is in a
\* version that starts at r and in one that does not, the two generations are
\* kept apart, each completed by the other for the tables it lacks.
Pools(rows, partial, tables, r) ==
  LET starting == Pool(rows, {v \in partial : version[v].start = r}, tables)
      ending == Pool(rows, {v \in partial : version[v].start # r}, tables)
      pools == IF DOMAIN starting \intersect DOMAIN ending # {}
               THEN {Completed(starting, ending), Completed(ending, starting)}
               ELSE {Completed(starting, ending)}
  IN pools \ {<<>>}

\* _supplement_missing_codes
Supplement(pool, rows, tables) == Completed(pool, Pool(rows, Vid, tables))

\* May the versions all be reported at one date?
ShareAWindow(vids) ==
  \A v, w \in vids : version[v].to = None \/ version[w].from <= version[v].to

\* The products of the distinct lists of providers, as sets.
Combinations(pool) ==
  LET lists == {pool[t] : t \in DOMAIN pool}
  IN {{pick[l] : l \in lists} :
        pick \in {f \in [lists -> UNION lists] : \A l \in lists : f[l] \in l}}

Minimal(sets, others) == {s \in sets : ~\E o \in sets \union others :
                                         o \subseteq s /\ o # s}

\* Variant: the versions that suffice alone do not rule out wider sets.
ProcessCrossAlone(pool, rows, tables, items, alone) ==
  IF DOMAIN pool # tables THEN {}
  ELSE Minimal({s \in Combinations(pool) :
                  /\ ShareAWindow(s)
                  /\ items \subseteq UNION {Has(rows, v) : v \in s}}, {})

\* process_cross_module
ProcessCross(pool, rows, tables, items, alone) ==
  IF DOMAIN pool # tables THEN {}
  ELSE Minimal({s \in Combinations(pool) :
                  /\ ShareAWindow(s)
                  /\ items \subseteq UNION {Has(rows, v) : v \in s}}, alone)

\* The scopes of the rows that tables and indicators have at r.
Scopes(rows, tables, items, r) ==
  LET vids == {row[1] : row \in rows}
      sufficient == {v \in vids : Has(rows, v) = tables \union items}
      alone == {{v} : v \in sufficient}
      pools == Pools(rows, vids \ sufficient, tables, r)
  IN IF Cardinality(rows) = 1 THEN {vids}
     ELSE alone \union UNION {ProcessCross(Supplement(p, rows, tables),
                                           rows, tables, items, alone) :
                                p \in pools}

\* calculate_operation_scope with extract_module_info: None for an error,
\* 1-13 for tables nobody has, 1-14 for an indicator that nobody reports.
CalculateOperationScope(tables, precondition, release) ==
  LET r == IF release = None THEN LastRelease ELSE release
      items == precondition \intersect Indicator
      rows == Info(tables, r) \union Info(items, r)
  IN IF Info(tables, r) = {} \/ ~(items \subseteq CodesIn(rows)) THEN None
     ELSE Scopes(rows, tables, items, r)

-----------------------------------------------------------------------------
\* ScopeCalculatorService.calculate_from_expression

\* Variant: an unhosted table of the gate is left to the scopes to find.
CheckNothing(tables, r) == TRUE

\* _check_tables_hosted: each table must be in some version.
TablesHosted(tables, r) == tables \subseteq CodesIn(Info(tables, r))

NoResult == [query |-> None, release |-> None, source |-> None,
             scopes |-> {}, warning |-> FALSE]

\* The outcome, where scopes of None stand for an error of that source.
Outcome(q, r, scopes, source, warning) ==
  [query |-> q, release |-> r,
   source |-> IF scopes = None THEN source ELSE None,
   scopes |-> IF scopes = None THEN {} ELSE scopes,
   warning |-> warning]

WithoutGate(q, r) ==
  LET scopes == CalculateOperationScope(q.tables, q.items, r)
  IN Outcome(q, r, scopes, "expression", FALSE)

\* All the tables and all the items that the query needs.
NeededTables(q) == q.tables \union IF q.gate = None THEN {} ELSE q.gate.tables
NeededItems(q) == q.items \union IF q.gate = None THEN {} ELSE q.gate.items

WithGate(q, r) ==
  LET baseline == CalculateOperationScope(q.tables, q.items, r)
      combined == CalculateOperationScope(NeededTables(q), NeededItems(q), r)
      before == IF baseline = None THEN {} ELSE baseline
  IN CASE ~TablesHosted(q.gate.tables, r) ->
            Outcome(q, r, None, "precondition", FALSE)
       [] /\ TablesHosted(q.gate.tables, r)
          /\ NeededTables(q) = q.tables /\ NeededItems(q) = q.items ->
            WithoutGate(q, r)
       [] OTHER ->
            Outcome(q, r, combined,
                    IF baseline = None THEN "expression" ELSE "precondition",
                    combined # None /\ combined # before)

CalculateFromExpression(q, r) ==
  /\ result' = IF q.gate = None THEN WithoutGate(q, r) ELSE WithGate(q, r)
  /\ UNCHANGED sweepVars

ScopeInit == SweepInit /\ result = NoResult

\* The dictionary is either swept or asked for the scopes of an operation.
ScopeNext ==
  \/ result = NoResult /\ SweepNext /\ UNCHANGED result
  \/ /\ sweep = NoSweep
     /\ result = NoResult
     /\ \E q \in Queries, r \in ReleaseId \union {None} :
          CalculateFromExpression(q, r)

scopeVars == <<version, sweep, result>>

ScopeSpec == ScopeInit /\ [][ScopeNext]_scopeVars

-----------------------------------------------------------------------------
\* Properties

NeededCodes(q) == NeededTables(q) \union (NeededItems(q) \intersect Indicator)
HasScopes == result.query # None /\ result.source = None

\* process_cross_module: "a combination is emitted only if its modules
\* collectively report all of them"; _check_tables_hosted: a scope "that cannot
\* in fact evaluate the pair" is an error.  At a dated release, the members of
\* a scope have between them every table and indicator that the expression and
\* its gate need, and can be reported at one date, unless the expression has a
\* table that no version has.
ScopesSupplyEveryOperand ==
  LET q == result.query
      r == result.release
  IN /\ HasScopes /\ r \in ReleaseId \ Perpetual
     /\ q.tables \subseteq CodesIn(Info(q.tables, r))
     => \A s \in result.scopes :
          /\ NeededCodes(q) \subseteq UNION {version[v].hosts : v \in s}
          /\ (\E v \in s : s = {v}) \/ ShareAWindow(s)

\* The fallback that scopes go by and the one that an export goes by agree: at
\* a dated release, a scope names only versions that the export goes through.
ScopesNameTargets ==
  HasScopes /\ result.release \in ReleaseId \ Perpetual =>
    UNION result.scopes \subseteq ListModuleVersions(result.release)

\* process_cross_module: "they cover every key on their own".  A version that
\* the export goes through and that has every operand, as have the ghosts that
\* it stands for, is a scope of its own, and no scope wraps partners around it.
SelfSufficientStandsAlone ==
  LET r == result.release
      Suffices(v) == NeededCodes(result.query) \subseteq version[v].hosts
  IN HasScopes /\ r \in ReleaseId \ Perpetual =>
       \A v \in ListModuleVersions(r) :
         (\A w \in {v} \union StandsFor(v, r) : Suffices(w)) =>
           {s \in result.scopes : v \in s} = {{v}}
=============================================================================
