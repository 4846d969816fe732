--------------------------- MODULE GhostFallback ---------------------------
(***************************************************************************)
(* Which module version stands for a module at a release, and what is read *)
(* through it.                                                             *)
(*                                                                         *)
(* A module version whose reference dates span a single day is a ghost: it *)
(* covers releases but cannot be reported.  A release that only ghosts of  *)
(* a module cover is represented by the latest prior version that is none. *)
(* The code answers that question in two ways, which have to agree: per    *)
(* release (ModuleVersionQuery.ghost_fallbacks, which an export sweeps)    *)
(* and per version, by a walk along the ghosts that follow it              *)
(* (ASTGeneratorService._siblings_past_end and its callers, by which the   *)
(* export of one version is window-checked and its validations are found). *)
(***************************************************************************)
EXTENDS ReleaseWindow, Sequences, FiniteSets

CONSTANTS
  Module,       \* module ids
  Code,         \* codes of tables and of filing indicators
  Dictionaries, \* contents of the ModuleVersion table that are considered
  Released,     \* releases with status "released"
  IsCurrent     \* releases marked is_current

VARIABLES
  version,      \* ModuleVersion with its composition, by module_vid
  sweep         \* an export of every module at a release, or None

ModuleVersion ==
  [module : Module,
   start : ReleaseId, end : ReleaseId \union {None},
   from : Nat, to : Nat \union {None},  \* reference dates
   hosts : SUBSET Code]                 \* its tables and its parameters

\* Two versions of one module do not overlap: one ends where, or before, the
\* other starts.
Precedes(v, w) == v.end # None /\ SortOrder(v.end) <= SortOrder(w.start)
Disjoint(d) ==
  \A x, y \in DOMAIN d :
    x # y /\ d[x].module = d[y].module =>
      Precedes(d[x], d[y]) \/ Precedes(d[y], d[x])

IsDictionary(d) ==
  /\ DOMAIN d \subseteq Nat /\ IsFiniteSet(DOMAIN d)
  /\ \A v \in DOMAIN d :
       /\ d[v] \in ModuleVersion
       /\ \/ d[v].end \in {None} \union Perpetual
          \/ SortOrder(d[v].start) < SortOrder(d[v].end)
  /\ Disjoint(d)

ASSUME CodeAssumption == IsFiniteSet(Code)

ASSUME ReleasesAssumption == IsFiniteSet(ReleaseId)

ASSUME DictionaryAssumption == \A d \in Dictionaries : IsDictionary(d)

Vid == DOMAIN version

-----------------------------------------------------------------------------
\* dpm_xl/model_queries.py: the fallback per release

IsGhost(v) == version[v].to # None /\ version[v].from = version[v].to

Covers(v, r) == InWindow(version[v].start, version[v].end, r)

\* Of two versions of a module, the later one.
Supersedes(v, w) ==
  LET Order(x) == SortOrder(version[x].start)
  IN Order(v) > Order(w) \/ (Order(v) = Order(w) /\ v > w)

\* _latest_prior_non_collapsed_vids, for the modules that have such a version.
Prior(m, r) ==
  {v \in Vid : /\ version[v].module = m
               /\ version[v].start \in UpTo(SortOrder(r))
               /\ ~IsGhost(v)}
LatestPrior(modules, r) ==
  UNION {{v \in Prior(m, r) :
            \A w \in Prior(m, r) \ {v} : Supersedes(v, w)} : m \in modules}

ModulesOf(S) == {version[v].module : v \in S}

\* ghost_fallbacks: the version that stands in |-> the ghosts it stands for.
GhostFallbacks(r) ==
  LET covering == {v \in Vid : Covers(v, r)}
      ghosts == {v \in covering : IsGhost(v)}
      bereft == ModulesOf(ghosts) \ ModulesOf(covering \ ghosts)
  IN [v \in LatestPrior(bereft, r) |->
        {g \in ghosts : version[g].module = version[v].module}]

\* list_module_versions: the versions that an export at r goes through.
ListModuleVersions(r) ==
  {v \in Vid : Covers(v, r) /\ ~IsGhost(v)} \union DOMAIN GhostFallbacks(r)

-----------------------------------------------------------------------------
\* services/ast_generator.py: the ghosts that follow a version

\* None ends after every release, but is no release.
EndsAfter(end, order) == end = None \/ SortOrder(end) > order

\* Where a sibling begins, seen from a version that ends at that order.
EffectiveStart(w, order) ==
  IF SortOrder(version[w].start) > order THEN SortOrder(version[w].start)
                                         ELSE order

\* _siblings_past_end: the versions that go on after v has ended, by start.
SiblingsPastEnd(v) ==
  LET order == SortOrder(version[v].end)
      past == {w \in Vid \ {v} : /\ version[w].module = version[v].module
                                 /\ EndsAfter(version[w].end, order)}
      Start(w) == EffectiveStart(w, order)
  IN CHOOSE s \in [1..Cardinality(past) -> past] :
       \A i, j \in DOMAIN s :
         i < j => \/ Start(s[i]) < Start(s[j])
                  \/ Start(s[i]) = Start(s[j]) /\ s[i] < s[j]

\* How far the ghosts before the i-th sibling reach.
Reaches(v, s, i, order) ==
  \/ order <= SortOrder(version[v].end)
  \/ \E j \in 1..(i - 1) : /\ version[s[j]].end # None
                           /\ order <= SortOrder(version[s[j]].end)

\* Is the i-th sibling met by a walk along the ghosts that follow v?
Met(v, s, i) ==
  \A j \in 1..i :
    /\ Reaches(v, s, j, EffectiveStart(s[j], SortOrder(version[v].end)))
    /\ j < i => IsGhost(s[j]) /\ version[s[j]].end # None

\* The ghosts of that walk, as indices in the siblings.
Chain(v, s) == {i \in DOMAIN s : Met(v, s, i) /\ IsGhost(s[i])}

\* Variant: only the first ghost of the chain.
FirstGhost(v) ==
  IF version[v].end = None THEN {}
  ELSE LET s == SiblingsPastEnd(v) IN {s[i] : i \in Chain(v, s) \intersect {1}}

\* _ghosts_represented_by
GhostsRepresentedBy(v) ==
  IF version[v].end = None THEN {}
  ELSE LET s == SiblingsPastEnd(v) IN {s[i] : i \in Chain(v, s)}

\* Variant: the end of the version itself, whatever ghosts follow.
OwnEnd(v) == version[v].end

\* _effective_end_release_id with _walk_ghost_chain
EffectiveEnd(v) ==
  LET s == SiblingsPastEnd(v)
      chain == Chain(v, s)
      ends == {version[s[i]].end : i \in chain}
      next == Cardinality(chain) + 1
  IN IF version[v].end = None \/ chain = {} THEN version[v].end
     ELSE CASE None \in ends -> None
            [] None \notin ends /\ next \in DOMAIN s /\ Met(v, s, next) ->
                 version[s[next]].start
            [] OTHER -> CHOOSE e \in ends : \A f \in ends \ {e} :
                                              SortOrder(f) <= SortOrder(e)

\* Is release r before that end, as an upper bound of v's window?
BeforeEnd(r, end) ==
  end = None \/ end \in Perpetual \/ SortOrder(r) < SortOrder(end)

\* _resolve_explicit_release: may v be exported at r?
Accepts(v, r) ==
  /\ SortOrder(r) >= SortOrder(version[v].start)
  /\ version[v].end = None \/ BeforeEnd(r, EffectiveEnd(v))

\* _latest_release_in_window: the release v is exported at when none is given.
LatestReleaseInWindow(v) ==
  LET candidates == {r \in ReleaseId :
                       /\ SortOrder(r) >= SortOrder(version[v].start)
                       /\ BeforeEnd(r, EffectiveEnd(v))}
      current == candidates \intersect IsCurrent
      released == candidates \intersect Released
      pool == IF current # {} THEN current
              ELSE IF released # {} THEN released ELSE candidates
  IN {r \in pool : IsLast(r, pool)}

-----------------------------------------------------------------------------
\* _discover_module_validations: which persisted scopes are read for v at r.
\* A scope is for a version of an operation, with its window, and names the module
\* versions that this is evaluated in: [operation, vid, start, end, modules].

\* An open end is taken for the place of the perpetual releases.
EndSort(end) == IF end = None THEN UndatedSortOrder ELSE SortOrder(end)

\* _overlapping_operation_version_rows, for one window
Overlap(a, b) ==
  /\ EndSort(a.end) > SortOrder(b.start)
  /\ EndSort(b.end) > SortOrder(a.start)

\* Is r a release that v does not cover in its own right?
NeedsGhosts(v, r) ==
  ~ /\ SortOrder(version[v].start) <= SortOrder(r)
    /\ SortOrder(r) < EndSort(version[v].end)

\* _ghost_fallback_map: for each ghost, the version that stands in for it at r.
GhostFallbackMap(r) ==
  LET fallbacks == GhostFallbacks(r)
  IN [g \in UNION {fallbacks[x] : x \in DOMAIN fallbacks} |->
        CHOOSE x \in DOMAIN fallbacks : g \in fallbacks[x]]

\* _phantom_paired_scope_ids: are the partners of v ghosts that nothing rescues?
PhantomPaired(s, v, rescued) ==
  LET others == s.modules \ {v}
  IN others # {} /\ \A w \in others : IsGhost(w) /\ w \notin rescued

\* _latest_operation_by_code: the newest version of an operation is read, and
\* through v itself rather than through a ghost.
Outranks(s, t, v) ==
  /\ s.vid > t.vid \/ (s.vid = t.vid /\ v \in s.modules /\ v \notin t.modules)
  /\ s.operation = t.operation

\* Of the given scopes, those that are read.  Where none of several outranks the
\* others, the order of the rows decides which of them it is.
DiscoverModuleValidations(v, r, scopes) ==
  LET needs == NeedsGhosts(v, r)
      fallbacks == GhostFallbacks(r)
      ghosts == IF needs THEN GhostsRepresentedBy(v) ELSE {}
      here == {v} \union IF needs /\ v \in DOMAIN fallbacks
                         THEN fallbacks[v] ELSE {}
      rescued == DOMAIN GhostFallbackMap(r) \union ghosts
      kept == {s \in scopes : /\ s.modules \intersect ({v} \union ghosts) # {}
                              /\ \E w \in here : Overlap(version[w], s)
                              /\ ~PhantomPaired(s, v, rescued)}
  IN {s \in kept : ~\E t \in kept : Outranks(t, s, v)}

\* The version that each ghost is replaced by in what is written for v at r.
FallbackFor(v, r) ==
  LET chain == GhostsRepresentedBy(v)
      map == GhostFallbackMap(r)
  IN [g \in chain \union DOMAIN map |-> IF g \in chain THEN v ELSE map[g]]

\* build_scope_result_from_db: the module versions of each scope of an operation
\* version, as written for v at r; none are left for UnsupportedDbScope.
BuildScopeResultFromDb(v, r, scopes) ==
  LET fallback == FallbackFor(v, r)
      kept == {s \in scopes : ~PhantomPaired(s, v, DOMAIN fallback)}
  IN {{IF w \in DOMAIN fallback THEN fallback[w] ELSE w : w \in s.modules} :
        s \in kept}

-----------------------------------------------------------------------------
\* cli/main.py export-script --all-modules: every module at one release, or
\* (--all-versions) every version at the latest release of its own.

NoSweep == [release |-> None, todo |-> {}, written |-> {}, failed |-> {}]

SweepInit ==
  /\ version \in Dictionaries
  /\ sweep = NoSweep

Sweep(r) ==
  /\ sweep = NoSweep
  /\ sweep' = [NoSweep EXCEPT !.release = r,
                              !.todo = IF r = None
                                       THEN {v \in Vid : ~IsGhost(v)}
                                       ELSE ListModuleVersions(r)]
  /\ UNCHANGED version

\* script_for_module: a version is written at the release it is resolved to.
ScriptForModule(v) ==
  LET at == IF sweep.release = None THEN LatestReleaseInWindow(v)
            ELSE {r \in {sweep.release} : Accepts(v, r)}
  IN /\ v \in sweep.todo
     /\ sweep' = [sweep EXCEPT
          !.todo = @ \ {v},
          !.written = @ \union ({v} \X at),
          !.failed = IF at = {} THEN @ \union {v} ELSE @]
     /\ UNCHANGED version

SweepNext ==
  \/ \E r \in ReleaseId \union {None} : Sweep(r)
  \/ \E v \in sweep.todo : ScriptForModule(v)

sweepVars == <<version, sweep>>

SweepSpec == SweepInit /\ [][SweepNext]_sweepVars

-----------------------------------------------------------------------------
\* Properties

\* The dictionary stays one, and a sweep is about versions and releases it has.
TypeOK ==
  /\ IsDictionary(version)
  /\ sweep.release \in ReleaseId \union {None}
  /\ sweep.todo \subseteq Vid
  /\ sweep.failed \subseteq Vid
  /\ sweep.written \subseteq Vid \X ReleaseId

\* list_module_versions: at a dated release an export goes through at most one
\* version of a module, its own or the one that stands in for its ghosts.
OneVersionPerModule ==
  \A r \in ReleaseId \ Perpetual : \A v, w \in ListModuleVersions(r) :
    version[v].module = version[w].module => v = w

\* Does every version of the module of v that ends and is followed end where
\* the next one starts?
GapFree(v) ==
  \A x, y \in Vid :
    /\ version[x].module = version[v].module
    /\ version[y].module = version[v].module
    /\ version[x].end # None
    /\ SortOrder(version[x].end) < SortOrder(version[y].start)
    => \E z \in Vid : /\ version[z].module = version[v].module
                      /\ version[z].start = version[x].end

\* _ghost_fallback_versions: "_resolve_explicit_release accepts it anyway".
\* What a sweep lists is not refused when its turn comes.
SweepLeavesNoneOut == \A v \in sweep.failed : ~GapFree(v)

\* The scopes there may be over a set of versions and in force at r, each for an
\* operation of its own.
ScopesInForce(vids, r) ==
  {[operation |-> <<modules, w>>, vid |-> 0,
    start |-> w[1], end |-> w[2], modules |-> modules] :
     modules \in (SUBSET vids) \ {{}},
     w \in {u \in ReleaseId \X (ReleaseId \union {None}) :
              /\ \/ u[2] \in {None} \union Perpetual
                 \/ SortOrder(u[1]) < SortOrder(u[2])
              /\ InWindow(u[1], u[2], r)}}

\* The versions whose validations hold for v at r: itself, or its ghosts.
StandsFor(v, r) ==
  (IF Covers(v, r) THEN {v} ELSE {})
    \union (IF v \in DOMAIN GhostFallbacks(r) THEN GhostFallbacks(r)[v] ELSE {})

\* What an export at r writes in place of each version that it reports.
ExportedFor(r) ==
  LET targets == ListModuleVersions(r)
      stands == [v \in targets |-> StandsFor(v, r)]
  IN [w \in UNION {stands[v] : v \in targets} |->
        {v \in targets : w \in stands[v]}]

\* _discover_module_validations, build_scope_result_from_db, "this fallback must
\* apply consistently on every path": a validation that is in force at the
\* (dated) release of a script, and is shared by what the script stands for and
\* by versions that are reported at that release, is read; and the modules
\* written for it are those that the export goes through.  "Folding
\* primary_module_vid's own ghost chain in directly closes that gap": a script that
\* stands for a ghost has the validations of every ghost of the chain, those that
\* cover other releases included, and they are written for the script's version.
\* (Scripts do not change once written: a sweep is judged when it is done.)
ValidationsAreRead ==
  \A script \in sweep.written :
    LET v == script[1]
        r == script[2]
        exported == ExportedFor(r)
        represented == StandsFor(v, r)
        shared == {s \in ScopesInForce(DOMAIN exported, r) :
                     s.modules \intersect represented # {}}
        chained == IF v \in represented THEN {}
                   ELSE ScopesInForce({v} \union GhostsRepresentedBy(v), r)
        scopes == shared \union chained
    IN sweep.todo = {} /\ r \notin Perpetual =>
         /\ scopes \subseteq DiscoverModuleValidations(v, r, scopes)
         /\ BuildScopeResultFromDb(v, r, shared)
              = {UNION {exported[w] : w \in s.modules} : s \in shared}
         /\ BuildScopeResultFromDb(v, r, chained) \subseteq {{v}}

\* The validations of a version are read at every release that it covers, the
\* perpetual ones included.
ValidationsAreReadAlways ==
  \A script \in sweep.written :
    LET v == script[1]
        r == script[2]
        own == ScopesInForce({v}, r)
    IN Covers(v, r) => own \subseteq DiscoverModuleValidations(v, r, own)
=============================================================================
