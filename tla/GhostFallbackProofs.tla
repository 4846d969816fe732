------------------------ MODULE GhostFallbackProofs ------------------------
(***************************************************************************)
(* Proofs about GhostFallback, for any dictionaries over any releases.     *)
(***************************************************************************)
EXTENDS GhostFallback, ReleaseWindowProofs

LEMMA VersionsAre ==
  ASSUME IsDictionary(version), NEW v \in Vid
  PROVE  /\ v \in Nat
         /\ version[v].module \in Module
         /\ version[v].start \in ReleaseId
         /\ version[v].end \in ReleaseId \union {None}
         /\ SortOrder(version[v].start) \in Nat
  BY OrderIs DEF IsDictionary, Vid, ModuleVersion

-----------------------------------------------------------------------------
\* At a dated release, a module has one version at most.

\* Two versions that follow each other do not both cover a dated release.
LEMMA CoversOne ==
  ASSUME IsDictionary(version), NEW r \in ReleaseId \ Perpetual,
         NEW v \in Vid, NEW w \in Vid, Precedes(version[v], version[w]),
         Covers(v, r), Covers(w, r)
  PROVE  FALSE
  <1>1. version[v].end \in ReleaseId
    BY VersionsAre DEF Precedes
  <1>2. SortOrder(version[v].end) <= SortOrder(version[w].start)
    BY DEF Precedes
  <1>3. SortOrder(version[w].start) <= SortOrder(r)
    BY VersionsAre, WindowIs DEF Covers
  <1>4. version[v].end \in Perpetual \/ SortOrder(version[v].end) > SortOrder(r)
    BY <1>1, VersionsAre, WindowIs, ReleaseAssumption DEF Covers
  <1>5. SortOrder(version[v].end) > SortOrder(r)
    BY <1>1, <1>4, OrderIs DEF UndatedSortOrder
  <1>6. QED
    BY <1>1, <1>2, <1>3, <1>5, OrderIs, VersionsAre

LEMMA CoveringIsOne ==
  ASSUME IsDictionary(version), NEW r \in ReleaseId \ Perpetual,
         NEW v \in Vid, NEW w \in Vid, Covers(v, r), Covers(w, r),
         version[v].module = version[w].module
  PROVE  v = w
  <1>1. SUFFICES ASSUME v # w PROVE FALSE
    OBVIOUS
  <1>2. Precedes(version[v], version[w]) \/ Precedes(version[w], version[v])
    BY <1>1 DEF IsDictionary, Disjoint, Vid
  <1>3. QED
    BY <1>2, CoversOne

LEMMA LatestPriorIs ==
  ASSUME NEW modules, NEW r, NEW v \in LatestPrior(modules, r)
  PROVE  /\ v \in Vid
         /\ ~IsGhost(v)
         /\ version[v].module \in modules
         /\ v \in Prior(version[v].module, r)
         /\ \A w \in Prior(version[v].module, r) \ {v} : Supersedes(v, w)
  BY DEF LatestPrior, Prior

LEMMA LatestPriorIsOne ==
  ASSUME IsDictionary(version), NEW modules, NEW r,
         NEW v \in LatestPrior(modules, r), NEW w \in LatestPrior(modules, r),
         version[v].module = version[w].module
  PROVE  v = w
  <1>1. SUFFICES ASSUME v # w PROVE FALSE
    OBVIOUS
  <1>2. Supersedes(v, w) /\ Supersedes(w, v)
    BY <1>1, LatestPriorIs
  <1>3. v \in Vid /\ w \in Vid
    BY LatestPriorIs
  <1>4. QED
    BY <1>2, <1>3, VersionsAre DEF Supersedes

\* What stands in at r stands in for a module that only ghosts cover.
LEMMA FallbackIs ==
  ASSUME NEW r, NEW v \in DOMAIN GhostFallbacks(r)
  PROVE  /\ v \in Vid
         /\ ~IsGhost(v)
         /\ \A w \in Vid : Covers(w, r) /\ ~IsGhost(w) =>
              version[w].module # version[v].module
  <1> DEFINE covering == {w \in Vid : Covers(w, r)}
             ghosts == {w \in covering : IsGhost(w)}
             bereft == ModulesOf(ghosts) \ ModulesOf(covering \ ghosts)
  <1>1. v \in LatestPrior(bereft, r)
    BY DEF GhostFallbacks
  <1>2. v \in Vid /\ ~IsGhost(v) /\ version[v].module \in bereft
    <2> HIDE DEF bereft
    <2> QED BY <1>1, LatestPriorIs
  <1>3. QED
    BY <1>2 DEF ModulesOf

LEMMA FallbackIsOne ==
  ASSUME IsDictionary(version), NEW r, NEW v \in DOMAIN GhostFallbacks(r),
         NEW w \in DOMAIN GhostFallbacks(r),
         version[v].module = version[w].module
  PROVE  v = w
  <1> DEFINE covering == {x \in Vid : Covers(x, r)}
             ghosts == {x \in covering : IsGhost(x)}
             bereft == ModulesOf(ghosts) \ ModulesOf(covering \ ghosts)
  <1>1. v \in LatestPrior(bereft, r) /\ w \in LatestPrior(bereft, r)
    BY DEF GhostFallbacks
  <1>2. QED
    <2> HIDE DEF bereft
    <2> QED BY <1>1, LatestPriorIsOne

LEMMA ListedIsOne ==
  ASSUME IsDictionary(version)
  PROVE  OneVersionPerModule
  <1>1. SUFFICES ASSUME NEW r \in ReleaseId \ Perpetual,
                        NEW v \in ListModuleVersions(r),
                        NEW w \in ListModuleVersions(r),
                        version[v].module = version[w].module
                 PROVE  v = w
    BY DEF OneVersionPerModule
  <1> DEFINE Own(x) == x \in Vid /\ Covers(x, r) /\ ~IsGhost(x)
             StandsIn(x) == x \in DOMAIN GhostFallbacks(r)
  <1>2. (Own(v) \/ StandsIn(v)) /\ (Own(w) \/ StandsIn(w))
    BY DEF ListModuleVersions
  <1>3. CASE Own(v) /\ Own(w)
    BY <1>1, <1>3, CoveringIsOne
  <1>4. CASE StandsIn(v) /\ StandsIn(w)
    BY <1>1, <1>4, FallbackIsOne
  <1>5. CASE Own(v) /\ StandsIn(w)
    BY <1>1, <1>5, FallbackIs
  <1>6. CASE StandsIn(v) /\ Own(w)
    BY <1>1, <1>6, FallbackIs
  <1>7. QED
    BY <1>2, <1>3, <1>4, <1>5, <1>6

-----------------------------------------------------------------------------
\* Sweeps

LEMMA ListedAreVersions ==
  ASSUME NEW r
  PROVE  ListModuleVersions(r) \subseteq Vid
  BY FallbackIs DEF ListModuleVersions

LEMMA InitTypeOK == SweepInit => TypeOK
  BY DictionaryAssumption DEF SweepInit, NoSweep, TypeOK

LEMMA StepTypeOK == TypeOK /\ [SweepNext]_sweepVars => TypeOK'
  <1>1. SUFFICES ASSUME TypeOK, [SweepNext]_sweepVars PROVE TypeOK'
    OBVIOUS
  <1>2. ASSUME NEW r \in ReleaseId \union {None}, Sweep(r)
        PROVE  TypeOK'
    BY <1>1, <1>2, ListedAreVersions
    DEF Sweep, NoSweep, TypeOK, IsDictionary, Vid
  <1>3. ASSUME NEW v \in sweep.todo, ScriptForModule(v)
        PROVE  TypeOK'
    <2> DEFINE at == IF sweep.release = None THEN LatestReleaseInWindow(v)
                     ELSE {r \in {sweep.release} : Accepts(v, r)}
    <2>1. at \subseteq ReleaseId
      BY <1>1 DEF TypeOK, LatestReleaseInWindow
    <2>2. sweep' = [sweep EXCEPT !.todo = @ \ {v},
                      !.written = @ \union ({v} \X at),
                      !.failed = IF at = {} THEN @ \union {v} ELSE @]
      BY <1>3 DEF ScriptForModule
    <2>3. version' = version /\ v \in Vid
      BY <1>1, <1>3 DEF ScriptForModule, TypeOK
    <2>4. QED
      BY <1>1, <2>1, <2>2, <2>3 DEF TypeOK, IsDictionary, Vid
  <1>4. CASE UNCHANGED sweepVars
    BY <1>1, <1>4 DEF sweepVars, TypeOK, Vid, IsDictionary
  <1>5. QED
    BY <1>1, <1>2, <1>3, <1>4 DEF SweepNext

\* The dictionary stays one, and a sweep is about versions and releases it has.
THEOREM SweepTypeCorrect == SweepSpec => []TypeOK
  BY InitTypeOK, StepTypeOK, PTL DEF SweepSpec

\* At a dated release an export goes through at most one version of a module.
THEOREM SweepIsUnambiguous == SweepSpec => []OneVersionPerModule
  <1>1. TypeOK => OneVersionPerModule
    BY ListedIsOne DEF TypeOK
  <1>2. QED
    BY <1>1, SweepTypeCorrect, PTL

-----------------------------------------------------------------------------
\* The versions that go on after a version has ended

\* Is w one of them?
Follows(w, v) == /\ w \in Vid \ {v}
                 /\ version[w].module = version[v].module
                 /\ EndsAfter(version[w].end, SortOrder(version[v].end))

StartFrom(w, v) == EffectiveStart(w, SortOrder(version[v].end))

\* SiblingsPastEnd has each of them once, in the order of their starts.
LEMMA SiblingsAre ==
  ASSUME IsDictionary(version), NEW v \in Vid, version[v].end # None,
         NEW s, s = SiblingsPastEnd(v)
  PROVE  /\ \E n \in Nat : s \in [1..n -> Vid]
         /\ \A i \in DOMAIN s : i \in Nat \ {0} /\ Follows(s[i], v)
         /\ \A i, j \in DOMAIN s : i < j =>
              s[i] # s[j] /\ StartFrom(s[i], v) <= StartFrom(s[j], v)
         /\ \A w : Follows(w, v) => \E i \in DOMAIN s : s[i] = w
  <1> DEFINE order == SortOrder(version[v].end)
             past == {w \in Vid \ {v} : /\ version[w].module = version[v].module
                                        /\ EndsAfter(version[w].end, order)}
             Start(w) == EffectiveStart(w, order)
             Sooner(x, y) == \/ Start(x) < Start(y)
                             \/ Start(x) = Start(y) /\ x < y
             R == {p \in past \X past : Sooner(p[1], p[2])}
  <1>1. IsFiniteSet(past)
    BY FS_Subset DEF IsDictionary, Vid
  <1>2. order \in Nat
    BY VersionsAre, OrderIs
  <1>3. \A w \in past : Start(w) \in Nat /\ w \in Nat
    BY <1>2, VersionsAre DEF EffectiveStart
  <1>4. \A x, y \in past : <<x, y>> \in R <=> Sooner(x, y)
    OBVIOUS
  <1>5. Orders(R, past)
    <2> HIDE DEF past, R, Start
    <2>1. \A x \in past : ~Sooner(x, x)
      BY <1>3
    <2>2. ASSUME NEW x \in past, NEW y \in past, NEW z \in past,
                 Sooner(x, y), Sooner(y, z)
          PROVE  Sooner(x, z)
      BY <1>3, <2>2
    <2>3. \A x, y \in past : x # y => Sooner(x, y) \/ Sooner(y, x)
      BY <1>3
    <2> HIDE DEF Sooner
    <2>4. QED
      BY <1>4, <2>1, <2>2, <2>3 DEF Orders
  <1> DEFINE IsSorted(t) == \A i, j \in DOMAIN t : i < j => Sooner(t[i], t[j])
  <1>6. \E t \in [1..Cardinality(past) -> past] : IsSorted(t)
    <2> HIDE DEF past, R, Sooner
    <2>1. PICK t \in [1..Cardinality(past) -> past] :
                 \A i, j \in DOMAIN t : i < j => <<t[i], t[j]>> \in R
      BY <1>1, <1>5, SortedExists
    <2>2. QED
      BY <1>4, <2>1
  <1>7. s = CHOOSE t \in [1..Cardinality(past) -> past] : IsSorted(t)
    BY DEF SiblingsPastEnd
  <1> HIDE DEF past, R, Sooner
  <1>8. s \in [1..Cardinality(past) -> past] /\ IsSorted(s)
    BY <1>6, <1>7
  <1>9. \A x \in past : \E i \in DOMAIN s : s[i] = x
    <2>1. \A i, j \in DOMAIN s : i < j => <<s[i], s[j]>> \in R
      BY <1>4, <1>8
    <2>2. s \in [1..Cardinality(past) -> past]
      BY <1>8
    <2>3. QED
      BY <1>1, <1>5, <2>1, <2>2, SortedIsOnto, ZenonT(60)
  <1>10. Cardinality(past) \in Nat
    BY <1>1, FS_CardinalityType
  <1>11. \A w : w \in past <=> Follows(w, v)
    BY DEF past, Follows
  <1>12. \A x, y \in past : Sooner(x, y) =>
           x # y /\ StartFrom(x, v) <= StartFrom(y, v)
    BY <1>3 DEF Sooner, StartFrom
  <1>13. \A i \in DOMAIN s : i \in Nat \ {0} /\ s[i] \in past
    BY <1>8, <1>10
  <1>14. s \in [1..Cardinality(past) -> Vid]
    BY <1>8, <1>11 DEF Follows
  <1>15. QED
    BY <1>8, <1>9, <1>10, <1>11, <1>12, <1>13, <1>14

\* Versions of a module do not overlap: what goes on after a version that ends
\* at a dated release starts where that ends, or later.
LEMMA FollowersStartLater ==
  ASSUME IsDictionary(version), NEW v \in Vid,
         version[v].end \in ReleaseId \ Perpetual, NEW w, Follows(w, v)
  PROVE  /\ SortOrder(version[v].end) <= SortOrder(version[w].start)
         /\ StartFrom(w, v) = SortOrder(version[w].start)
  <1> DEFINE order == SortOrder(version[v].end)
  <1>1. /\ w \in Vid /\ w # v /\ order \in Nat
        /\ SortOrder(version[w].start) \in Nat
        /\ SortOrder(version[v].start) \in Nat
    BY VersionsAre, OrderIs DEF Follows
  <1>2. SortOrder(version[v].start) < order
    BY ReleaseAssumption DEF IsDictionary, Vid
  <1>3. Precedes(version[v], version[w]) \/ Precedes(version[w], version[v])
    BY <1>1 DEF Follows, IsDictionary, Disjoint, Vid
  <1>4. CASE Precedes(version[w], version[v])
    <2>1. version[w].end \in ReleaseId /\ SortOrder(version[w].end) > order
      BY <1>1, <1>4, VersionsAre DEF Precedes, Follows, EndsAfter
    <2>2. SortOrder(version[w].end) <= SortOrder(version[v].start)
      BY <1>4 DEF Precedes
    <2>3. QED
      BY <1>1, <1>2, <2>1, <2>2, OrderIs
  <1>5. order <= SortOrder(version[w].start)
    BY <1>3, <1>4 DEF Precedes
  <1>6. QED
    BY <1>1, <1>5 DEF StartFrom, EffectiveStart

\* The windows that follow a version that ends at a perpetual release are open.
LEMMA FollowersOfPerpetual ==
  ASSUME IsDictionary(version), NEW v \in Vid, version[v].end \in Perpetual,
         NEW w, Follows(w, v)
  PROVE  version[w].end = None
  <1>1. SUFFICES ASSUME version[w].end # None PROVE FALSE
    OBVIOUS
  <1>2. version[v].end \in ReleaseId /\ version[w].end \in ReleaseId
    BY <1>1, VersionsAre DEF Follows, Perpetual, From
  <1>3. SortOrder(version[w].end) > SortOrder(version[v].end)
    BY <1>1 DEF Follows, EndsAfter
  <1>4. QED
    BY <1>2, <1>3, OrderIs DEF UndatedSortOrder

\* A walk that meets a sibling has met all before it, and they are ghosts.
LEMMA MetBefore ==
  ASSUME NEW v, NEW s, NEW j \in Nat, Met(v, s, j), NEW i \in 1..(j - 1)
  PROVE  Met(v, s, i) /\ IsGhost(s[i]) /\ version[s[i]].end # None
  <1>1. i \in 1..j /\ i < j
    OBVIOUS
  <1>2. ASSUME NEW k \in 1..i
        PROVE  /\ Reaches(v, s, k, StartFrom(s[k], v))
               /\ k < i => IsGhost(s[k]) /\ version[s[k]].end # None
    <2>1. k \in 1..j /\ (k < i => k < j)
      BY <1>1
    <2>2. QED
      BY <2>1 DEF Met, StartFrom
  <1>3. QED
    BY <1>1, <1>2 DEF Met, StartFrom

\* _effective_end_release_id: what the window of a version is extended to.
LEMMA EffectiveEndIs ==
  ASSUME IsDictionary(version), NEW v \in Vid, version[v].end # None,
         NEW s, s = SiblingsPastEnd(v), NEW E, E = EffectiveEnd(v)
  PROVE  LET chain == Chain(v, s)
             next == Cardinality(chain) + 1
         IN /\ chain \subseteq DOMAIN s
            /\ \/ chain = {} /\ E = version[v].end
               \/ E = None /\ \E i \in chain : version[s[i]].end = None
               \/ /\ \A i \in chain : version[s[i]].end # None
                  /\ chain # {}
                  /\ next \in DOMAIN s /\ Met(v, s, next)
                  /\ chain = 1..(next - 1)
                  /\ E = version[s[next]].start
               \/ /\ \A i \in chain : version[s[i]].end # None
                  /\ chain # {}
                  /\ \E i \in chain : E = version[s[i]].end
                  /\ \A i \in chain : SortOrder(version[s[i]].end) <= SortOrder(E)
  <1> DEFINE chain == Chain(v, s)
             ends == {version[s[i]].end : i \in chain}
             next == Cardinality(chain) + 1
             Last == CHOOSE e \in ends : \A f \in ends \ {e} :
                                           SortOrder(f) <= SortOrder(e)
  <1>1. PICK n \in Nat : s \in [1..n -> Vid]
    BY SiblingsAre
  <1>2. chain \subseteq 1..n
    BY <1>1 DEF Chain
  <1>3. IsFiniteSet(chain) /\ Cardinality(chain) \in Nat
    <2>1. IsFiniteSet(1..n)
      BY FS_Interval
    <2> HIDE DEF chain
    <2>2. QED
      BY <1>2, <2>1, FS_Subset, FS_CardinalityType
  <1>4. E = IF chain = {} THEN version[v].end
            ELSE CASE None \in ends -> None
                   [] None \notin ends /\ next \in DOMAIN s /\ Met(v, s, next) ->
                        version[s[next]].start
                   [] OTHER -> Last
    BY DEF EffectiveEnd
  <1>5. CASE chain = {}
    BY <1>1, <1>2, <1>4, <1>5
  <1>6. CASE None \in ends
    <2>1. chain # {}
      BY <1>6
    <2>2. \E i \in chain : version[s[i]].end = None
      BY <1>6
    <2> HIDE DEF ends, chain
    <2>3. E = None
      BY <1>4, <1>6, <2>1
    <2>4. QED
      BY <1>1, <1>2, <2>2, <2>3 DEF chain
  <1>7. CASE chain # {} /\ None \notin ends /\ next \in DOMAIN s /\ Met(v, s, next)
    <2>1. E = version[s[next]].start
      <3> HIDE DEF ends, chain, next
      <3> QED BY <1>4, <1>7
    <2>2. next \in 1..n /\ next - 1 = Cardinality(chain)
      BY <1>1, <1>3, <1>7
    <2>3. 1..(next - 1) \subseteq chain
      <3>1. ASSUME NEW i \in 1..(next - 1) PROVE i \in chain
        <4>1. i \in 1..n
          BY <2>2
        <4>2. Met(v, s, i) /\ IsGhost(s[i])
          BY <1>7, <2>2, MetBefore
        <4>3. QED
          BY <1>1, <4>1, <4>2 DEF Chain
      <3>2. QED
        BY <3>1
    <2>4. Cardinality(1..(next - 1)) = Cardinality(chain)
      BY <1>3, FS_Interval
    <2>5. chain = 1..(next - 1)
      BY <1>3, <2>3, <2>4, FS_Subset
    <2>6. QED
      BY <1>1, <1>2, <1>7, <2>1, <2>5
  <1>8. CASE chain # {} /\ None \notin ends /\ ~(next \in DOMAIN s /\ Met(v, s, next))
    <2>1. E = Last
      <3> HIDE DEF ends, chain, next, Last
      <3> QED BY <1>4, <1>8
    <2>2. \A i \in chain : version[s[i]].end \in ReleaseId
      BY <1>1, <1>2, <1>8, VersionsAre
    <2>3. ends \subseteq ReleaseId /\ ends # {}
      BY <1>8, <2>2
    <2>4. \E e \in ends : \A f \in ends \ {e} : SortOrder(f) <= SortOrder(e)
      <3> DEFINE T == {SortOrder(e) : e \in ends}
      <3> HIDE DEF ends
      <3>1. T \in SUBSET Nat /\ T # {} /\ \A m \in T : m <= UndatedSortOrder
        BY <2>3, OrderIs
      <3>2. UndatedSortOrder \in Nat
        BY ReleaseAssumption DEF UndatedSortOrder
      <3>3. PICK m \in T : \A k \in T : k <= m
        <4> HIDE DEF T
        <4> QED BY <3>1, <3>2, GreatestOfNat
      <3>4. QED
        BY <3>3
    <2>5. E \in ends /\ \A f \in ends : SortOrder(f) <= SortOrder(E)
      <3> HIDE DEF ends
      <3>1. E \in ends /\ \A f \in ends \ {E} : SortOrder(f) <= SortOrder(E)
        BY <2>1, <2>4
      <3>2. SortOrder(E) <= SortOrder(E)
        BY <2>3, <3>1, OrderIs
      <3>3. QED
        BY <3>1, <3>2
    <2>6. QED
      BY <1>1, <1>2, <1>8, <2>5
  <1>9. QED
    BY <1>5, <1>6, <1>7, <1>8

-----------------------------------------------------------------------------
\* What is listed is accepted

\* _resolve_explicit_release: a version may be exported where it covers.
LEMMA OwnIsAccepted ==
  ASSUME IsDictionary(version), NEW v \in Vid, NEW r \in ReleaseId, Covers(v, r)
  PROVE  Accepts(v, r)
  <1>1. /\ SortOrder(version[v].start) <= SortOrder(r)
        /\ \/ version[v].end = None
           \/ version[v].end \in ReleaseId /\ SortOrder(version[v].end) > SortOrder(r)
           \/ version[v].end \in Perpetual
    BY VersionsAre, WindowIs DEF Covers
  <1>2. SortOrder(version[v].start) \in Nat /\ SortOrder(r) \in Nat
    BY VersionsAre, OrderIs
  <1>3. SUFFICES ASSUME version[v].end # None
                 PROVE  BeforeEnd(r, EffectiveEnd(v))
    BY <1>1, <1>2 DEF Accepts
  <1> DEFINE s == SiblingsPastEnd(v)
             chain == Chain(v, s)
             next == Cardinality(chain) + 1
             E == EffectiveEnd(v)
  <1>4. version[v].end \in ReleaseId
    BY <1>3, VersionsAre
  <1>5. chain \subseteq DOMAIN s
    BY <1>3, EffectiveEndIs
  <1>6. \A i \in DOMAIN s : Follows(s[i], v)
    BY <1>3, SiblingsAre
  <1>7. CASE E = version[v].end
    BY <1>1, <1>2, <1>4, <1>7, OrderIs DEF BeforeEnd
  <1>8. CASE E = None
    BY <1>8 DEF BeforeEnd
  <1>9. ASSUME \A i \in chain : version[s[i]].end # None, chain # {}
        PROVE  /\ version[v].end \in ReleaseId \ Perpetual
               /\ SortOrder(r) < SortOrder(version[v].end)
    <2>1. PICK i \in chain : version[s[i]].end # None
      BY <1>9
    <2>2. version[v].end \notin Perpetual
      BY <1>5, <1>6, <2>1, FollowersOfPerpetual
    <2>3. QED
      BY <1>1, <1>2, <1>3, <1>4, <2>2, OrderIs
  <1>10. CASE /\ \A i \in chain : version[s[i]].end # None
              /\ chain # {}
              /\ next \in DOMAIN s
              /\ E = version[s[next]].start
    <2>1. SortOrder(version[v].end) <= SortOrder(E)
      BY <1>6, <1>9, <1>10, FollowersStartLater
    <2>2. E \in ReleaseId
      BY <1>6, <1>10, VersionsAre DEF Follows
    <2>3. QED
      BY <1>2, <1>4, <1>9, <1>10, <2>1, <2>2, OrderIs DEF BeforeEnd
  <1>11. CASE /\ \A i \in chain : version[s[i]].end # None
              /\ chain # {}
              /\ \E i \in chain : E = version[s[i]].end
    <2>1. PICK i \in chain : E = version[s[i]].end
      BY <1>11
    <2>2. E \in ReleaseId /\ SortOrder(E) > SortOrder(version[v].end)
      BY <1>5, <1>6, <1>11, <2>1, VersionsAre DEF Follows, EndsAfter
    <2>3. QED
      BY <1>2, <1>4, <1>9, <1>11, <2>2, OrderIs DEF BeforeEnd
  <1>12. QED
    <2>1. \/ E = version[v].end
          \/ E = None
          \/ /\ \A i \in chain : version[s[i]].end # None
             /\ chain # {}
             /\ next \in DOMAIN s
             /\ E = version[s[next]].start
          \/ /\ \A i \in chain : version[s[i]].end # None
             /\ chain # {}
             /\ \E i \in chain : E = version[s[i]].end
      BY <1>3, EffectiveEndIs
    <2> HIDE DEF s, chain, next
    <2>2. QED
      BY <1>7, <1>8, <1>10, <1>11, <2>1

\* A version that stands in at r ends before, and ghosts of its module cover r.
LEMMA StandInIs ==
  ASSUME IsDictionary(version), NEW r \in ReleaseId,
         NEW v \in DOMAIN GhostFallbacks(r)
  PROVE  /\ version[v].end \in ReleaseId \ Perpetual
         /\ SortOrder(version[v].start) < SortOrder(version[v].end)
         /\ SortOrder(version[v].end) <= SortOrder(r)
         /\ \E g \in Vid : /\ version[g].module = version[v].module
                           /\ Covers(g, r)
         /\ \A w \in Vid : /\ version[w].module = version[v].module
                           /\ SortOrder(version[w].start) <= SortOrder(r)
                           /\ ~IsGhost(w)
                           => SortOrder(version[w].start)
                                <= SortOrder(version[v].start)
  <1> DEFINE covering == {w \in Vid : Covers(w, r)}
             ghosts == {w \in covering : IsGhost(w)}
             bereft == ModulesOf(ghosts) \ ModulesOf(covering \ ghosts)
             m == version[v].module
  <1>1. v \in LatestPrior(bereft, r)
    BY DEF GhostFallbacks
  <1>2. /\ v \in Vid /\ ~IsGhost(v) /\ m \in bereft
        /\ v \in Prior(m, r)
        /\ \A w \in Prior(m, r) \ {v} : Supersedes(v, w)
    <2> HIDE DEF bereft
    <2> QED BY <1>1, LatestPriorIs
  <1>3. \E g \in Vid : version[g].module = m /\ Covers(g, r)
    BY <1>2 DEF ModulesOf
  <1>4. ~Covers(v, r)
    BY <1>2 DEF ModulesOf
  <1>5. SortOrder(version[v].start) <= SortOrder(r)
    BY <1>2 DEF Prior, UpTo
  <1>6. version[v].end \in ReleaseId \ Perpetual
    BY <1>2, <1>4, <1>5, VersionsAre, WindowIs DEF Covers
  <1>7. ~(SortOrder(version[v].end) > SortOrder(r))
    BY <1>2, <1>4, <1>5, <1>6, VersionsAre, WindowIs DEF Covers
  <1>8. SortOrder(version[v].start) < SortOrder(version[v].end)
    BY <1>2, <1>6, ReleaseAssumption DEF IsDictionary, Vid
  <1>9. ASSUME NEW w \in Vid, version[w].module = m, ~IsGhost(w),
               SortOrder(version[w].start) <= SortOrder(r)
        PROVE  SortOrder(version[w].start) <= SortOrder(version[v].start)
    <2>1. w \in Prior(m, r)
      BY <1>9, VersionsAre DEF Prior, UpTo
    <2>2. w = v \/ Supersedes(v, w)
      BY <1>2, <2>1
    <2>3. QED
      BY <1>2, <2>2, VersionsAre DEF Supersedes
  <1>10. QED
    BY <1>2, <1>3, <1>6, <1>7, <1>8, <1>9, OrderIs

\* _effective_end_release_id agrees with ghost_fallbacks: without a gap, the chain
\* of ghosts that follow a version that stands in at r gets to one that covers r.
LEMMA ChainGetsThere ==
  ASSUME IsDictionary(version), NEW r \in ReleaseId,
         NEW v \in DOMAIN GhostFallbacks(r), GapFree(v),
         NEW s, s = SiblingsPastEnd(v)
  PROVE  \E k \in Chain(v, s) : Covers(s[k], r)
  <1> DEFINE order == SortOrder(version[v].end)
             Start(i) == SortOrder(version[s[i]].start)
             End(i) == SortOrder(version[s[i]].end)
             K == {i \in DOMAIN s : Covers(s[i], r)}
  <1>1. /\ v \in Vid
        /\ version[v].end \in ReleaseId \ Perpetual
        /\ SortOrder(version[v].start) < order
        /\ order <= SortOrder(r)
        /\ SortOrder(version[v].start) \in Nat /\ order \in Nat
        /\ SortOrder(r) \in Nat
        /\ version[v].end # None
    BY FallbackIs, StandInIs, VersionsAre, OrderIs, ReleaseAssumption
  <1>2. /\ \E n \in Nat : s \in [1..n -> Vid]
        /\ \A i \in DOMAIN s : i \in Nat \ {0} /\ Follows(s[i], v)
        /\ \A i, j \in DOMAIN s : i < j =>
             s[i] # s[j] /\ StartFrom(s[i], v) <= StartFrom(s[j], v)
        /\ \A w : Follows(w, v) => \E i \in DOMAIN s : s[i] = w
    BY <1>1, SiblingsAre
  <1>3. \A i \in DOMAIN s :
          /\ s[i] \in Vid /\ s[i] # v /\ version[s[i]].module = version[v].module
          /\ Start(i) \in Nat
          /\ order <= Start(i) /\ StartFrom(s[i], v) = Start(i)
    BY <1>1, <1>2, FollowersStartLater, VersionsAre DEF Follows
  <1>4. \A i, j \in DOMAIN s : i < j => Start(i) <= Start(j)
    BY <1>2, <1>3
  <1>5. PICK k \in K : \A i \in K : k <= i
    <2>1. PICK g \in Vid : version[g].module = version[v].module /\ Covers(g, r)
      BY StandInIs
    <2>2. g # v
      BY <1>1, <2>1, WindowIs, VersionsAre DEF Covers
    <2>3. EndsAfter(version[g].end, order)
      <3>1. SUFFICES ASSUME version[g].end # None
                     PROVE  SortOrder(version[g].end) > order
        BY DEF EndsAfter
      <3>2. version[g].end \in ReleaseId
        BY <2>1, <3>1, VersionsAre
      <3>3. version[g].end \in Perpetual \/ SortOrder(version[g].end) > SortOrder(r)
        BY <2>1, <3>1, <3>2, VersionsAre, WindowIs DEF Covers
      <3>4. version[g].end \in Perpetual => SortOrder(version[g].end) > order
        BY <1>1, <3>2, OrderIs
      <3>5. QED
        BY <1>1, <3>2, <3>3, <3>4, OrderIs
    <2>4. Follows(g, v)
      BY <2>1, <2>2, <2>3 DEF Follows
    <2>5. K \in SUBSET Nat /\ K # {}
      BY <1>2, <2>1, <2>4
    <2> HIDE DEF K
    <2>6. QED
      BY <2>5, LeastOfNat
  <1>6. k \in DOMAIN s /\ k \in Nat /\ Covers(s[k], r) /\ Start(k) <= SortOrder(r)
    BY <1>2, <1>3, WindowIs, VersionsAre DEF Covers
  \* What comes before has ended, and is a ghost.
  <1>7. ASSUME NEW i \in DOMAIN s, i < k
        PROVE  /\ version[s[i]].end \in ReleaseId
               /\ Start(i) < End(i)
               /\ End(i) \in Nat
               /\ IsGhost(s[i])
    <2>1. i \notin K
      BY <1>2, <1>5, <1>6, <1>7
    <2>2. Start(i) <= SortOrder(r)
      BY <1>1, <1>3, <1>4, <1>6, <1>7
    <2>3. version[s[i]].end \in ReleaseId \ Perpetual
      BY <1>3, <2>1, <2>2, VersionsAre, WindowIs DEF Covers
    <2>4. Start(i) < End(i)
      BY <1>3, <2>3, ReleaseAssumption DEF IsDictionary, Vid
    <2>5. IsGhost(s[i])
      <3>1. ~(Start(i) <= SortOrder(version[v].start))
        BY <1>1, <1>3
      <3>2. QED
        BY <1>3, <2>2, <3>1, StandInIs
    <2>6. QED
      BY <2>3, <2>4, <2>5, OrderIs
  \* It gets as far as the next one starts.
  <1>8. ASSUME NEW j \in DOMAIN s, j <= k, ~Reaches(v, s, j, Start(j))
        PROVE  FALSE
    <2> DEFINE X == {i \in DOMAIN s : i < j}
               T == {order} \union {End(i) : i \in X}
    <2>1. \A i \in X : /\ i < k /\ i \in 1..(j - 1) /\ version[s[i]].end # None
                       /\ End(i) \in Nat
      <3> TAKE i \in X
      <3>1. i \in DOMAIN s /\ i \in Nat \ {0} /\ j \in Nat /\ i < j /\ j <= k
        BY <1>2, <1>8
      <3>2. i < k /\ i \in 1..(j - 1)
        BY <1>6, <3>1
      <3>3. QED
        BY <1>7, <3>1, <3>2, ReleaseAssumption
    <2>2. order < Start(j)
      BY <1>1, <1>3, <1>8 DEF Reaches
    <2>3. \A i \in X : End(i) < Start(j)
      <3> TAKE i \in X
      <3>1. ~(Start(j) <= End(i))
        BY <1>8, <2>1 DEF Reaches
      <3>2. QED
        BY <1>3, <2>1, <3>1
    <2>4. T \in SUBSET Nat /\ T # {} /\ \A m \in T : m <= Start(j)
      BY <1>1, <1>3, <2>1, <2>2, <2>3
    <2>5. PICK m \in T : \A n \in T : n <= m
      <3>1. Start(j) \in Nat
        BY <1>3
      <3> HIDE DEF T, Start
      <3> QED BY <2>4, <3>1, GreatestOfNat
    <2>6. PICK x \in Vid : /\ version[x].module = version[v].module
                           /\ version[x].end # None
                           /\ SortOrder(version[x].end) = m
      <3>1. m = order \/ \E i \in X : m = End(i)
        BY <2>5
      <3>2. CASE m = order
        BY <1>1, <3>2
      <3>3. CASE \E i \in X : m = End(i)
        BY <1>3, <2>1, <3>3
      <3>4. QED
        BY <3>1, <3>2, <3>3
    <2>7. m \in Nat /\ order <= m /\ m < Start(j)
      <3>1. order \in T
        OBVIOUS
      <3>2. m = order \/ \E i \in X : m = End(i)
        BY <2>5
      <3> HIDE DEF T
      <3>3. QED
        BY <2>2, <2>3, <2>4, <2>5, <3>1, <3>2
    <2>8. PICK z \in Vid : /\ version[z].module = version[v].module
                           /\ version[z].start = version[x].end
      BY <1>3, <2>6, <2>7 DEF GapFree
    <2>9. SortOrder(version[z].start) = m
      BY <2>6, <2>8
    <2>10. Follows(z, v)
      <3>1. z # v
        BY <1>1, <2>7, <2>9
      <3>2. EndsAfter(version[z].end, order)
        <4>1. SUFFICES ASSUME version[z].end # None
                       PROVE  SortOrder(version[z].end) > order
          BY DEF EndsAfter
        <4>2. version[z].end \in ReleaseId
          BY <4>1, VersionsAre
        <4>3. version[z].end \in Perpetual => SortOrder(version[z].end) > order
          BY <1>1, <4>2, OrderIs
        <4>4. version[z].end \notin Perpetual => m < SortOrder(version[z].end)
          BY <2>9, <4>1 DEF IsDictionary, Vid
        <4>5. QED
          BY <1>1, <2>7, <4>2, <4>3, <4>4, OrderIs
      <3>3. QED
        BY <2>8, <3>1, <3>2 DEF Follows
    <2>11. PICK l \in DOMAIN s : s[l] = z
      BY <1>2, <2>10
    <2>12. l < j
      <3>1. Start(l) < Start(j)
        BY <2>7, <2>9, <2>11
      <3>2. CASE l = j
        BY <1>3, <3>1, <3>2
      <3>3. CASE j < l
        BY <1>3, <1>4, <3>1, <3>3
      <3>4. QED
        BY <1>2, <3>2, <3>3
    <2>13. l < k
      BY <1>2, <1>6, <1>8, <2>12
    <2>14. Start(l) < End(l) /\ End(l) \in T /\ End(l) \in Nat
      BY <1>7, <2>12, <2>13
    <2> HIDE DEF T
    <2>15. End(l) <= m
      BY <2>5, <2>14
    <2>16. QED
      BY <2>7, <2>9, <2>11, <2>14, <2>15
  <1>9. Met(v, s, k)
    <2>1. ASSUME NEW j \in 1..k
          PROVE  /\ Reaches(v, s, j, StartFrom(s[j], v))
                 /\ j < k => IsGhost(s[j]) /\ version[s[j]].end # None
      <3>1. j \in DOMAIN s /\ j <= k
        BY <1>2, <1>6
      <3>2. Reaches(v, s, j, StartFrom(s[j], v))
        BY <1>3, <1>8, <3>1
      <3>3. QED
        BY <1>7, <3>1, <3>2, ReleaseAssumption
    <2>2. QED
      BY <2>1 DEF Met, StartFrom
  <1>10. IsGhost(s[k])
    BY <1>3, <1>6, FallbackIs
  <1>11. QED
    BY <1>6, <1>9, <1>10 DEF Chain

\* _ghost_fallback_versions: "_resolve_explicit_release accepts it anyway".
LEMMA StandInIsAccepted ==
  ASSUME IsDictionary(version), NEW r \in ReleaseId,
         NEW v \in DOMAIN GhostFallbacks(r), GapFree(v)
  PROVE  Accepts(v, r)
  <1> DEFINE s == SiblingsPastEnd(v)
             chain == Chain(v, s)
             next == Cardinality(chain) + 1
             E == EffectiveEnd(v)
  <1>1. /\ v \in Vid /\ version[v].end \in ReleaseId \ Perpetual
        /\ version[v].end # None
        /\ SortOrder(version[v].start) < SortOrder(version[v].end)
        /\ SortOrder(version[v].end) <= SortOrder(r)
    BY FallbackIs, StandInIs, ReleaseAssumption
  <1>2. SortOrder(version[v].start) <= SortOrder(r)
    BY <1>1, VersionsAre, OrderIs
  <1>0. SUFFICES BeforeEnd(r, EffectiveEnd(v))
    BY <1>1, <1>2, VersionsAre, OrderIs DEF Accepts
  <1>3. PICK k \in chain : Covers(s[k], r)
    BY ChainGetsThere
  <1>4. /\ \E n \in Nat : s \in [1..n -> Vid]
        /\ \A i \in DOMAIN s : i \in Nat \ {0} /\ Follows(s[i], v)
        /\ \A i, j \in DOMAIN s : i < j =>
             s[i] # s[j] /\ StartFrom(s[i], v) <= StartFrom(s[j], v)
    BY <1>1, SiblingsAre
  <1>5. k \in DOMAIN s /\ s[k] \in Vid
    <2>1. chain \subseteq DOMAIN s
      BY <1>1, EffectiveEndIs
    <2>2. QED
      BY <1>4, <2>1 DEF Follows
  <1> DEFINE end == version[s[k]].end
  <1>6. /\ end \in ReleaseId \union {None}
        /\ \/ end = None
           \/ SortOrder(end) > SortOrder(r)
           \/ end \in Perpetual
    BY <1>3, <1>5, VersionsAre, WindowIs DEF Covers
  <1>7. CASE E = None
    BY <1>7 DEF BeforeEnd
  <1>8. CASE /\ end # None
             /\ next \in DOMAIN s
             /\ chain = 1..(next - 1)
             /\ E = version[s[next]].start
    <2> DEFINE x == s[next]
    <2>1. /\ k < next /\ x \in Vid /\ x # s[k]
          /\ version[x].module = version[s[k]].module
      BY <1>4, <1>5, <1>8 DEF Follows
    <2>2. SortOrder(version[s[k]].start) <= SortOrder(version[x].start)
      BY <1>1, <1>4, <1>5, <1>8, <2>1, FollowersStartLater
    <2>3. E \in ReleaseId /\ SortOrder(E) \in Nat
      BY <1>8, <2>1, VersionsAre
    <2>4. CASE Precedes(version[s[k]], version[x])
      <3>1. end \in ReleaseId /\ SortOrder(end) <= SortOrder(E)
        BY <1>6, <1>8, <2>4 DEF Precedes
      <3>2. end \in Perpetual => E \in Perpetual
        BY <2>3, <3>1, OrderIs
      <3>3. SortOrder(end) > SortOrder(r) => SortOrder(r) < SortOrder(E)
        BY <2>3, <3>1, OrderIs
      <3>4. QED
        BY <1>6, <1>8, <3>2, <3>3 DEF BeforeEnd
    <2>5. CASE Precedes(version[x], version[s[k]])
      <3>1. /\ version[x].end \in ReleaseId
            /\ SortOrder(version[x].end) <= SortOrder(E)
        BY <1>5, <1>8, <2>1, <2>2, <2>3, <2>5, VersionsAre, OrderIs DEF Precedes
      <3>2. version[x].end \in Perpetual
        BY <1>8, <2>1, <2>3, <3>1, OrderIs, ReleaseAssumption DEF IsDictionary, Vid
      <3>3. E \in Perpetual
        BY <2>3, <3>1, <3>2, OrderIs
      <3>4. QED
        BY <3>3 DEF BeforeEnd
    <2>6. QED
      BY <1>5, <2>1, <2>4, <2>5 DEF IsDictionary, Disjoint, Vid
  <1>9. CASE /\ end # None
             /\ E \in ReleaseId
             /\ SortOrder(end) <= SortOrder(E)
    <2>1. SortOrder(E) > SortOrder(r) \/ E \in Perpetual
      BY <1>6, <1>9, OrderIs
    <2>2. QED
      BY <2>1, <1>9, OrderIs DEF BeforeEnd
  <1>10. BeforeEnd(r, E)
    <2>1. \/ chain = {}
          \/ E = None
          \/ /\ \A i \in chain : version[s[i]].end # None
             /\ next \in DOMAIN s
             /\ chain = 1..(next - 1)
             /\ E = version[s[next]].start
          \/ /\ \A i \in chain : version[s[i]].end # None
             /\ \E i \in chain : E = version[s[i]].end
             /\ \A i \in chain : SortOrder(version[s[i]].end) <= SortOrder(E)
      BY <1>1, EffectiveEndIs
    <2>2. ASSUME \A i \in chain : version[s[i]].end # None,
                 \E i \in chain : E = version[s[i]].end
          PROVE  E \in ReleaseId
      <3>1. chain \subseteq DOMAIN s
        BY <1>1, EffectiveEndIs
      <3>2. QED
        BY <1>4, <2>2, <3>1, VersionsAre DEF Follows
    <2> HIDE DEF s, chain, next
    <2>3. QED
      BY <1>3, <1>7, <1>8, <1>9, <2>1, <2>2
  <1>11. QED
    BY <1>10

\* A version may be exported from its start on.
LEMMA HasARelease ==
  ASSUME IsDictionary(version), NEW v \in Vid
  PROVE  LatestReleaseInWindow(v) # {}
  <1> DEFINE candidates == {r \in ReleaseId :
                              /\ SortOrder(r) >= SortOrder(version[v].start)
                              /\ BeforeEnd(r, EffectiveEnd(v))}
             current == candidates \intersect IsCurrent
             released == candidates \intersect Released
             pool == IF current # {} THEN current
                     ELSE IF released # {} THEN released ELSE candidates
             first == version[v].start
  <1>1. first \in candidates
    <2>1. first \in ReleaseId /\ SortOrder(first) \in Nat
      BY VersionsAre
    <2>2. Covers(v, first)
      <3>1. \/ version[v].end \in {None} \union Perpetual
            \/ SortOrder(first) < SortOrder(version[v].end)
        BY DEF IsDictionary, Vid
      <3>2. SortOrder(first) <= SortOrder(first)
        BY <2>1
      <3>3. QED
        BY <2>1, <3>1, VersionsAre, WindowIs DEF Covers
    <2>3. Accepts(v, first)
      BY <2>1, <2>2, OwnIsAccepted
    <2>4. version[v].end = None => EffectiveEnd(v) = None
      BY DEF EffectiveEnd
    <2>5. BeforeEnd(first, EffectiveEnd(v))
      BY <2>3, <2>4 DEF Accepts, BeforeEnd
    <2>6. QED
      BY <2>1, <2>5
  <1>2. pool # {} /\ pool \subseteq ReleaseId
    BY <1>1
  <1>3. LatestReleaseInWindow(v) = {r \in pool : IsLast(r, pool)}
    BY DEF LatestReleaseInWindow
  <1> HIDE DEF pool
  <1> DEFINE R == {p \in pool \X pool : Later(p[2], p[1])}
  <1>4. \A x, y \in pool : <<x, y>> \in R <=> Later(y, x)
    OBVIOUS
  <1>5. \A x \in pool : x \in Nat /\ SortOrder(x) \in Nat
    BY <1>2, OrderIs, ReleaseAssumption
  <1>6. Orders(R, pool)
    <2> HIDE DEF R
    <2>1. /\ \A x \in pool : ~Later(x, x)
          /\ \A x, y \in pool : x # y => Later(y, x) \/ Later(x, y)
      BY <1>5 DEF Later
    <2>2. ASSUME NEW x \in pool, NEW y \in pool, NEW z \in pool,
                 Later(y, x), Later(z, y)
          PROVE  Later(z, x)
      BY <1>5, <2>2 DEF Later
    <2>3. QED
      BY <1>4, <2>1, <2>2 DEF Orders
  <1>7. IsFiniteSet(pool)
    BY <1>2, ReleasesAssumption, FS_Subset
  <1> HIDE DEF R
  <1>8. PICK x \in pool : \A y \in pool \ {x} : <<y, x>> \in R
    BY <1>2, <1>6, <1>7, LastOfOrder
  <1>9. IsLast(x, pool)
    BY <1>4, <1>8 DEF IsLast
  <1>10. QED
    BY <1>3, <1>8, <1>9

-----------------------------------------------------------------------------
\* A sweep leaves none out

\* What is still to be written was listed for the release of the sweep.
ListedInv ==
  /\ TypeOK
  /\ sweep.release # None => sweep.todo \subseteq ListModuleVersions(sweep.release)
  /\ SweepLeavesNoneOut

LEMMA StepListedInv == ListedInv /\ [SweepNext]_sweepVars => ListedInv'
  <1> SUFFICES ASSUME ListedInv, [SweepNext]_sweepVars PROVE ListedInv'
    OBVIOUS
  <1>1. TypeOK'
    BY StepTypeOK DEF ListedInv
  <1>2. ASSUME NEW r \in ReleaseId \union {None}, Sweep(r)
        PROVE  ListedInv'
    <2>1. /\ version' = version /\ sweep'.release = r /\ sweep'.failed = {}
          /\ r # None => sweep'.todo = ListModuleVersions(r)
      BY <1>2 DEF Sweep, NoSweep
    <2>2. ListModuleVersions(r)' = ListModuleVersions(r)
      BY <2>1 DEF ListModuleVersions, GhostFallbacks, LatestPrior, Prior, Covers,
                  IsGhost, Supersedes, ModulesOf, Vid
    <2>3. QED
      BY <1>1, <2>1, <2>2 DEF ListedInv, SweepLeavesNoneOut
  <1>3. ASSUME NEW v \in sweep.todo, ScriptForModule(v)
        PROVE  ListedInv'
    <2> DEFINE at == IF sweep.release = None THEN LatestReleaseInWindow(v)
                     ELSE {r \in {sweep.release} : Accepts(v, r)}
    <2>1. /\ version' = version /\ sweep'.release = sweep.release
          /\ sweep'.todo = sweep.todo \ {v}
          /\ sweep'.failed = IF at = {} THEN sweep.failed \union {v}
                             ELSE sweep.failed
      BY <1>3 DEF ScriptForModule, ListedInv, TypeOK
    <2>2. v \in Vid /\ IsDictionary(version)
      BY DEF ListedInv, TypeOK
    <2>3. at = {} => ~GapFree(v)
      <3>1. CASE sweep.release = None
        BY <2>2, <3>1, HasARelease
      <3>2. CASE sweep.release # None
        <4>1. v \in ListModuleVersions(sweep.release) /\ sweep.release \in ReleaseId
          BY <1>3, <3>2 DEF ListedInv, TypeOK
        <4>2. GapFree(v) => Accepts(v, sweep.release)
          BY <2>2, <4>1, OwnIsAccepted, StandInIsAccepted DEF ListModuleVersions
        <4>3. QED
          BY <3>2, <4>2
      <3>3. QED
        BY <3>1, <3>2
    <2>4. \A w : GapFree(w)' <=> GapFree(w)
      BY <2>1 DEF GapFree, Vid
    <2>5. ListModuleVersions(sweep.release)' = ListModuleVersions(sweep.release)
      BY <2>1 DEF ListModuleVersions, GhostFallbacks, LatestPrior, Prior, Covers,
                  IsGhost, Supersedes, ModulesOf, Vid
    <2>6. QED
      BY <1>1, <2>1, <2>3, <2>4, <2>5 DEF ListedInv, SweepLeavesNoneOut
  <1>4. CASE UNCHANGED sweepVars
    <2>1. version' = version /\ sweep' = sweep
      BY <1>4 DEF sweepVars
    <2>2. QED
      BY <1>1, <2>1 DEF ListedInv, SweepLeavesNoneOut, GapFree, Vid,
           ListModuleVersions, GhostFallbacks, LatestPrior, Prior, Covers,
           IsGhost, Supersedes, ModulesOf
  <1>5. QED
    BY <1>2, <1>3, <1>4 DEF SweepNext

\* list_module_versions and _resolve_explicit_release agree: a version that a sweep
\* lists is not refused when its turn comes, unless its module has a gap.
THEOREM SweepIsComplete == SweepSpec => []SweepLeavesNoneOut
  <1>1. SweepInit => ListedInv
    BY InitTypeOK DEF SweepInit, NoSweep, ListedInv, SweepLeavesNoneOut
  <1>2. ListedInv => SweepLeavesNoneOut
    BY DEF ListedInv
  <1>3. QED
    BY <1>1, <1>2, StepListedInv, PTL DEF SweepSpec

-----------------------------------------------------------------------------
\* What is accepted is listed

\* A dated release comes before every perpetual one.
LEMMA DatedIs ==
  ASSUME NEW r \in ReleaseId \ Perpetual
  PROVE  /\ r # None
         /\ SortOrder(r) \in Nat
         /\ \A q \in Perpetual : /\ q \in ReleaseId
                                 /\ SortOrder(q) \in Nat
                                 /\ SortOrder(r) < SortOrder(q)
  <1>1. r # None
    BY ReleaseAssumption
  <1>2. SortOrder(r) \in Nat /\ SortOrder(r) < UndatedSortOrder
    <2>1. /\ SortOrder(r) \in Nat /\ SortOrder(r) <= UndatedSortOrder
          /\ SortOrder(r) # UndatedSortOrder
      BY OrderIs
    <2>2. UndatedSortOrder \in Nat
      BY ReleaseAssumption DEF UndatedSortOrder
    <2>3. QED
      BY <2>1, <2>2
  <1>3. \A q \in Perpetual : q \in ReleaseId /\ SortOrder(q) = UndatedSortOrder
    BY OrderIs DEF Perpetual, From
  <1>4. QED
    BY <1>1, <1>2, <1>3, OrderIs

\* _resolve_explicit_release, _latest_release_in_window
MayBeAt(v, r) ==
  SortOrder(version[v].start) <= SortOrder(r) /\ BeforeEnd(r, EffectiveEnd(v))

\* Where a version may be exported after its own end, a ghost of the chain after
\* it covers the release.
LEMMA ChainCovers ==
  ASSUME IsDictionary(version), NEW v \in Vid, NEW r \in ReleaseId \ Perpetual,
         version[v].end \in ReleaseId \ Perpetual,
         SortOrder(version[v].end) <= SortOrder(r), MayBeAt(v, r),
         NEW s, s = SiblingsPastEnd(v)
  PROVE  \E i \in Chain(v, s) : Covers(s[i], r)
  <1> DEFINE chain == Chain(v, s)
             next == Cardinality(chain) + 1
             E == EffectiveEnd(v)
             Start(i) == SortOrder(version[s[i]].start)
             End(i) == SortOrder(version[s[i]].end)
  <1>1. /\ version[v].end # None
        /\ SortOrder(version[v].end) \in Nat /\ SortOrder(r) \in Nat
        /\ \A q \in Perpetual : SortOrder(r) < SortOrder(q)
    BY DatedIs
  <1>2. /\ \E n \in Nat : s \in [1..n -> Vid]
        /\ \A i \in DOMAIN s : i \in Nat \ {0} /\ Follows(s[i], v)
    BY <1>1, SiblingsAre
  <1>3. \A i \in DOMAIN s : /\ s[i] \in Vid
                            /\ version[s[i]].start \in ReleaseId
                            /\ Start(i) \in Nat /\ StartFrom(s[i], v) = Start(i)
    BY <1>2, FollowersStartLater, VersionsAre DEF Follows
  <1>4. SUFFICES ASSUME \A i \in chain : ~Covers(s[i], r) PROVE FALSE
    OBVIOUS
  <1>5. chain \subseteq DOMAIN s /\ \A i \in chain : Met(v, s, i)
    BY <1>2 DEF Chain
  <1>6. ASSUME NEW i \in chain, Start(i) <= SortOrder(r)
        PROVE  version[s[i]].end \in ReleaseId /\ End(i) <= SortOrder(r)
    <2>1. i \in DOMAIN s /\ ~Covers(s[i], r)
      BY <1>4, <1>5
    <2>2. /\ version[s[i]].end \in ReleaseId
          /\ ~(End(i) > SortOrder(r))
      BY <1>3, <1>6, <2>1, VersionsAre, WindowIs DEF Covers
    <2>3. QED
      BY <1>1, <2>2, OrderIs
  <1>7. \A j \in DOMAIN s : Met(v, s, j) => Start(j) <= SortOrder(r)
    <2> DEFINE B == {j \in DOMAIN s : Met(v, s, j) /\ Start(j) > SortOrder(r)}
    <2>1. SUFFICES ASSUME B # {} PROVE FALSE
      BY <1>1, <1>3
    <2>2. PICK j \in B : \A i \in B : j <= i
      <3>1. B \in SUBSET Nat
        BY <1>2
      <3> HIDE DEF B
      <3>2. QED
        BY <2>1, <3>1, LeastOfNat
    <2>3. Reaches(v, s, j, Start(j))
      <3>1. j \in 1..j
        BY <1>2
      <3>2. QED
        BY <1>3, <3>1 DEF Met, StartFrom
    <2>4. ~(Start(j) <= SortOrder(version[v].end))
      BY <1>1, <1>3
    <2>5. PICK i \in 1..(j - 1) : Start(j) <= End(i)
      BY <2>3, <2>4 DEF Reaches
    <2>6. i \in DOMAIN s /\ i < j /\ Met(v, s, i) /\ IsGhost(s[i])
      BY <1>2, <2>5, MetBefore
    <2>7. i \in chain
      BY <2>6 DEF Chain
    <2>8. ~(j <= i)
      BY <1>2, <2>6
    <2>9. Start(i) <= SortOrder(r)
      BY <1>1, <1>3, <2>2, <2>6, <2>8
    <2>10. version[s[i]].end \in ReleaseId /\ End(i) <= SortOrder(r)
      BY <1>6, <2>7, <2>9
    <2>11. QED
      BY <1>1, <1>3, <2>5, <2>10, OrderIs
  <1>8. \A i \in chain : version[s[i]].end \in ReleaseId /\ End(i) <= SortOrder(r)
    BY <1>5, <1>6, <1>7
  <1>9. E \in ReleaseId /\ SortOrder(E) <= SortOrder(r)
    <2>1. CASE E = version[v].end
      BY <2>1
    <2>2. CASE \E i \in chain : version[s[i]].end = None
      BY <1>8, <2>2, ReleaseAssumption
    <2>3. CASE next \in DOMAIN s /\ Met(v, s, next) /\ E = version[s[next]].start
      BY <1>3, <1>7, <2>3
    <2>4. CASE \E i \in chain : E = version[s[i]].end
      BY <1>8, <2>4
    <2>5. \/ E = version[v].end
          \/ \E i \in chain : version[s[i]].end = None
          \/ next \in DOMAIN s /\ Met(v, s, next) /\ E = version[s[next]].start
          \/ \E i \in chain : E = version[s[i]].end
      BY <1>1, EffectiveEndIs
    <2> HIDE DEF chain, next, E
    <2>6. QED
      BY <2>1, <2>2, <2>3, <2>4, <2>5
  <1>10. E = None \/ SortOrder(r) < SortOrder(E)
    BY <1>1 DEF MayBeAt, BeforeEnd
  <1>11. E # None /\ SortOrder(E) \in Nat
    BY <1>9, OrderIs, ReleaseAssumption
  <1>12. QED
    BY <1>1, <1>9, <1>10, <1>11

\* What follows a version, and is none of its chain, comes after the chain.
LEMMA ChainComesFirst ==
  ASSUME IsDictionary(version), NEW v \in Vid, version[v].end # None,
         NEW s, s = SiblingsPastEnd(v),
         NEW i \in Chain(v, s), NEW l \in DOMAIN s, ~IsGhost(s[l])
  PROVE  i < l
  <1>1. i \in Nat \ {0} /\ l \in Nat \ {0} /\ Met(v, s, i) /\ IsGhost(s[i])
    BY SiblingsAre DEF Chain
  <1>2. CASE l < i
    BY <1>1, <1>2, MetBefore
  <1>3. QED
    BY <1>1, <1>2

\* _resolve_explicit_release and _latest_release_in_window agree with
\* list_module_versions: where a version may be exported, it covers the release or
\* stands in for the ghosts that do.
LEMMA AcceptedIsListed ==
  ASSUME IsDictionary(version), NEW v \in Vid, ~IsGhost(v),
         NEW r \in ReleaseId \ Perpetual, MayBeAt(v, r), ~Covers(v, r)
  PROVE  v \in DOMAIN GhostFallbacks(r)
  <1> DEFINE m == version[v].module
             s == SiblingsPastEnd(v)
             Start(w) == SortOrder(version[w].start)
             End(w) == SortOrder(version[w].end)
  <1>1. /\ version[v].start \in ReleaseId /\ Start(v) \in Nat
        /\ SortOrder(r) \in Nat /\ Start(v) <= SortOrder(r)
        /\ \A q \in Perpetual : q \in ReleaseId /\ SortOrder(r) < SortOrder(q)
    BY VersionsAre, DatedIs DEF MayBeAt
  <1>2. version[v].end \in ReleaseId \ Perpetual /\ ~(End(v) > SortOrder(r))
    BY <1>1, VersionsAre, WindowIs DEF Covers
  <1>3. End(v) \in Nat /\ End(v) <= SortOrder(r) /\ version[v].end # None
    <2>1. End(v) \in Nat /\ version[v].end # None
      BY <1>2, DatedIs
    <2>2. QED
      BY <1>1, <1>2, <2>1
  <1>4. Start(v) < End(v)
    BY <1>2, <1>3 DEF IsDictionary, Vid
  <1>5. PICK i \in Chain(v, s) : Covers(s[i], r)
    BY <1>2, <1>3, ChainCovers
  <1> DEFINE g == s[i]
  <1>6. /\ i \in DOMAIN s /\ IsGhost(g) /\ g \in Vid /\ Follows(g, v)
        /\ version[g].module = m
    BY <1>3, SiblingsAre DEF Chain, Follows
  <1>7. \A w \in Vid : Covers(w, r) /\ version[w].module = m => w = g
    BY <1>5, <1>6, CoveringIsOne
  <1>8. ASSUME NEW w \in Prior(m, r) \ {v}
        PROVE  Supersedes(v, w)
    <2>1. /\ w \in Vid /\ w # v /\ version[w].module = m /\ ~IsGhost(w)
          /\ Start(w) \in Nat /\ Start(w) <= SortOrder(r)
      BY VersionsAre DEF Prior, UpTo
    <2>2. ASSUME version[w].end \in ReleaseId, End(w) <= Start(w)
          PROVE  Start(w) > SortOrder(r)
      <3>1. version[w].end \in Perpetual
        BY <2>1, <2>2, OrderIs, ReleaseAssumption DEF IsDictionary, Vid
      <3>2. SortOrder(r) < End(w) /\ End(w) \in Nat
        BY <2>2, <3>1, DatedIs
      <3>3. QED
        BY <1>1, <2>1, <2>2, <3>2
    <2>3. ~Precedes(version[v], version[w])
      <3>1. SUFFICES ASSUME Precedes(version[v], version[w]) PROVE FALSE
        OBVIOUS
      <3>2. End(v) <= Start(w)
        BY <3>1 DEF Precedes
      <3>3. Follows(w, v)
        <4>1. EndsAfter(version[w].end, End(v))
          <5>1. SUFFICES ASSUME version[w].end # None, ~(End(w) > End(v))
                         PROVE  FALSE
            BY DEF EndsAfter
          <5>2. version[w].end \in ReleaseId /\ End(w) \in Nat
            BY <2>1, <5>1, VersionsAre, OrderIs
          <5>3. QED
            BY <1>1, <1>3, <2>1, <2>2, <3>2, <5>1, <5>2
        <4>2. QED
          BY <2>1, <4>1 DEF Follows
      <3>4. PICK l \in DOMAIN s : s[l] = w
        BY <1>3, <3>3, SiblingsAre
      <3>5. i < l
        BY <1>3, <2>1, <3>4, ChainComesFirst
      <3>6. Start(g) <= Start(w) /\ g # w
        <4>1. StartFrom(g, v) <= StartFrom(w, v) /\ g # w
          BY <1>3, <1>6, <3>4, <3>5, SiblingsAre
        <4>2. QED
          BY <1>2, <1>6, <3>3, <4>1, FollowersStartLater
      <3>7. CASE Precedes(version[g], version[w])
        <4>1. version[g].end \in ReleaseId /\ End(g) <= Start(w)
          BY <1>6, <3>7, VersionsAre DEF Precedes
        <4>2. SortOrder(r) < End(g)
          BY <1>1, <1>5, <1>6, <4>1, VersionsAre, WindowIs, OrderIs,
             ReleaseAssumption DEF Covers
        <4>3. QED
          BY <1>1, <2>1, <4>1, <4>2, OrderIs
      <3>8. CASE Precedes(version[w], version[g])
        <4>1. version[w].end \in ReleaseId /\ End(w) <= Start(g)
          BY <2>1, <3>8, VersionsAre DEF Precedes
        <4>2. End(w) <= Start(w)
          BY <1>6, <2>1, <3>6, <4>1, VersionsAre, OrderIs
        <4>3. QED
          BY <1>1, <2>1, <2>2, <4>1, <4>2
      <3>9. QED
        BY <1>6, <2>1, <3>6, <3>7, <3>8 DEF IsDictionary, Disjoint, Vid
    <2>4. Precedes(version[w], version[v])
      BY <2>1, <2>3 DEF IsDictionary, Disjoint, Vid
    <2>5. version[w].end \in ReleaseId /\ End(w) <= Start(v)
      BY <2>1, <2>4, VersionsAre DEF Precedes
    <2>6. ~(End(w) <= Start(w))
      BY <1>1, <2>1, <2>2, <2>5
    <2>7. Start(v) > Start(w)
      BY <1>1, <2>1, <2>5, <2>6, OrderIs
    <2>8. QED
      BY <2>7 DEF Supersedes
  <1> DEFINE covering == {w \in Vid : Covers(w, r)}
             ghosts == {w \in covering : IsGhost(w)}
             bereft == ModulesOf(ghosts) \ ModulesOf(covering \ ghosts)
  <1>9. m \in bereft
    BY <1>5, <1>6, <1>7 DEF ModulesOf
  <1>10. v \in Prior(m, r)
    BY <1>1 DEF Prior, UpTo
  <1>11. v \in LatestPrior(bereft, r)
    <2> HIDE DEF bereft, m
    <2>1. QED
      BY <1>8, <1>9, <1>10 DEF LatestPrior
  <1>12. QED
    BY <1>11 DEF GhostFallbacks
-----------------------------------------------------------------------------
\* What is read for a version

\* The ghosts that a version stands in for at r.
LEMMA FallbackMembers ==
  ASSUME NEW r, NEW x \in DOMAIN GhostFallbacks(r)
  PROVE  GhostFallbacks(r)[x] =
           {g \in Vid : /\ Covers(g, r) /\ IsGhost(g)
                        /\ version[g].module = version[x].module}
  BY DEF GhostFallbacks

\* _ghost_fallback_map: a ghost is stood in for by one version.
LEMMA MapIs ==
  ASSUME IsDictionary(version), NEW r, NEW x \in DOMAIN GhostFallbacks(r),
         NEW g \in GhostFallbacks(r)[x]
  PROVE  g \in DOMAIN GhostFallbackMap(r) /\ GhostFallbackMap(r)[g] = x
  <1> DEFINE fallbacks == GhostFallbacks(r)
  <1>1. g \in UNION {fallbacks[y] : y \in DOMAIN fallbacks}
    OBVIOUS
  <1>2. ASSUME NEW y \in DOMAIN fallbacks, g \in fallbacks[y]
        PROVE  y = x
    BY <1>2, FallbackMembers, FallbackIsOne
  <1>3. (CHOOSE y \in DOMAIN fallbacks : g \in fallbacks[y]) = x
    <2> HIDE DEF fallbacks
    <2> QED BY <1>1, <1>2
  <1>4. QED
    BY <1>1, <1>3 DEF GhostFallbackMap

LEMMA MappedAre ==
  ASSUME NEW r, NEW g \in DOMAIN GhostFallbackMap(r)
  PROVE  /\ g \in Vid /\ Covers(g, r) /\ IsGhost(g)
         /\ \E x \in DOMAIN GhostFallbacks(r) : g \in GhostFallbacks(r)[x]
  <1>1. PICK x \in DOMAIN GhostFallbacks(r) : g \in GhostFallbacks(r)[x]
    BY DEF GhostFallbackMap
  <1>2. QED
    BY <1>1, FallbackMembers

LEMMA RepresentedAre ==
  ASSUME IsDictionary(version), NEW v \in Vid, NEW w \in GhostsRepresentedBy(v)
  PROVE  /\ w \in Vid /\ IsGhost(w) /\ w # v
         /\ version[w].module = version[v].module
  <1>1. /\ version[v].end # None
        /\ \E i \in Chain(v, SiblingsPastEnd(v)) : w = SiblingsPastEnd(v)[i]
    BY DEF GhostsRepresentedBy
  <1>2. QED
    BY <1>1, SiblingsAre DEF Chain, Follows

\* What a version stands for: itself, or the ghosts that cover the release.
LEMMA StandsForIs ==
  ASSUME NEW r, NEW v \in Vid, ~IsGhost(v)
  PROVE  /\ Covers(v, r) => StandsFor(v, r) = {v}
         /\ v \in DOMAIN GhostFallbacks(r) =>
              ~Covers(v, r) /\ StandsFor(v, r) = GhostFallbacks(r)[v]
  BY FallbackIs DEF StandsFor

\* What is exported at r covers r, and is written as one version.
LEMMA ExportedIs ==
  ASSUME IsDictionary(version), NEW r, NEW w \in DOMAIN ExportedFor(r)
  PROVE  /\ w \in Vid /\ Covers(w, r)
         /\ ~IsGhost(w) => ExportedFor(r)[w] = {w}
         /\ IsGhost(w) => /\ w \in DOMAIN GhostFallbackMap(r)
                          /\ ExportedFor(r)[w] = {GhostFallbackMap(r)[w]}
  <1> DEFINE targets == ListModuleVersions(r)
             by == {x \in targets : w \in StandsFor(x, r)}
  <1>1. /\ \E x \in targets : w \in StandsFor(x, r)
        /\ ExportedFor(r)[w] = by
    BY DEF ExportedFor
  <1>2. \A x \in targets : /\ x \in Vid /\ ~IsGhost(x)
                           /\ Covers(x, r) \/ x \in DOMAIN GhostFallbacks(r)
    BY FallbackIs DEF ListModuleVersions
  <1>3. ASSUME NEW x \in targets, w \in StandsFor(x, r)
        PROVE  \/ Covers(w, r) /\ ~IsGhost(w) /\ w \in Vid /\ x = w
               \/ /\ Covers(w, r) /\ IsGhost(w) /\ w \in Vid
                  /\ w \in DOMAIN GhostFallbackMap(r)
                  /\ GhostFallbackMap(r)[w] = x
    <2>1. CASE Covers(x, r)
      BY <1>2, <1>3, <2>1, StandsForIs
    <2>2. CASE x \in DOMAIN GhostFallbacks(r)
      <3>1. w \in GhostFallbacks(r)[x]
        BY <1>2, <1>3, <2>2, StandsForIs
      <3>2. QED
        BY <2>2, <3>1, FallbackMembers, MapIs
    <2>3. QED
      BY <1>2, <2>1, <2>2
  <1> HIDE DEF targets
  <1>4. PICK x \in targets : w \in StandsFor(x, r)
    BY <1>1
  <1>5. by = {x}
    BY <1>3, <1>4
  <1>6. QED
    BY <1>1, <1>3, <1>4, <1>5

\* A window that contains a dated release, as _overlapping_operation_version_rows
\* compares it.
LEMMA WindowHolds ==
  ASSUME NEW r \in ReleaseId \ Perpetual, NEW start \in ReleaseId,
         NEW end \in ReleaseId \union {None}, InWindow(start, end, r)
  PROVE  /\ SortOrder(start) \in Nat /\ EndSort(end) \in Nat
         /\ SortOrder(r) \in Nat
         /\ SortOrder(start) <= SortOrder(r)
         /\ SortOrder(r) < EndSort(end)
  <1>1. /\ SortOrder(start) <= SortOrder(r)
        /\ \/ end = None
           \/ end \in ReleaseId /\ SortOrder(end) > SortOrder(r)
           \/ end \in Perpetual
    BY WindowIs
  <1>2. SortOrder(start) \in Nat /\ SortOrder(r) \in Nat
    BY OrderIs
  <1>3. CASE end = None
    <2>1. EndSort(end) = UndatedSortOrder /\ UndatedSortOrder \in Nat
      BY <1>3, ReleaseAssumption DEF EndSort, UndatedSortOrder
    <2>2. SortOrder(r) <= UndatedSortOrder /\ SortOrder(r) # UndatedSortOrder
      BY OrderIs
    <2>3. QED
      BY <1>1, <1>2, <2>1, <2>2
  <1>4. CASE end # None
    <2>1. EndSort(end) = SortOrder(end) /\ end \in ReleaseId
      BY <1>4 DEF EndSort
    <2>2. SortOrder(end) \in Nat /\ (end \in Perpetual => SortOrder(r) < SortOrder(end))
      BY <2>1, OrderIs, DatedIs
    <2>3. QED
      BY <1>1, <1>2, <1>4, <2>1, <2>2
  <1>5. QED
    BY <1>3, <1>4

LEMMA ScopeIs ==
  ASSUME NEW vids, NEW r, NEW s \in ScopesInForce(vids, r)
  PROVE  /\ s.modules \subseteq vids /\ s.modules # {}
         /\ s.start \in ReleaseId /\ s.end \in ReleaseId \union {None}
         /\ InWindow(s.start, s.end, r)
         /\ s.vid = 0
         /\ s.operation[1] = s.modules
  BY DEF ScopesInForce

\* A version that covers a dated release overlaps what is in force there.
LEMMA OverlapAt ==
  ASSUME IsDictionary(version), NEW r \in ReleaseId \ Perpetual, NEW w \in Vid,
         Covers(w, r), NEW vids, NEW s \in ScopesInForce(vids, r)
  PROVE  Overlap(version[w], s)
  <1>1. /\ SortOrder(version[w].start) \in Nat /\ EndSort(version[w].end) \in Nat
        /\ SortOrder(r) \in Nat
        /\ SortOrder(version[w].start) <= SortOrder(r)
        /\ SortOrder(r) < EndSort(version[w].end)
    BY VersionsAre, WindowHolds DEF Covers
  <1>2. /\ SortOrder(s.start) \in Nat /\ EndSort(s.end) \in Nat
        /\ SortOrder(s.start) <= SortOrder(r)
        /\ SortOrder(r) < EndSort(s.end)
    BY ScopeIs, WindowHolds
  <1>3. QED
    BY <1>1, <1>2 DEF Overlap

\* Of scopes that are each for an operation of its own, none outranks another.
LEMMA NoneOutranks ==
  ASSUME NEW a, NEW b, NEW r, NEW v,
         NEW s \in ScopesInForce(a, r), NEW t \in ScopesInForce(b, r)
  PROVE  ~Outranks(t, s, v)
  <1>1. s.vid = 0 /\ t.vid = 0
    BY ScopeIs
  <1>2. t.operation = s.operation => t.modules = s.modules
    BY ScopeIs
  <1>3. QED
    BY <1>1, <1>2 DEF Outranks

\* The two ways in which a version may be exported at a dated release: it covers the
\* release, or a ghost of its chain does and it stands in for that one.
LEMMA StandingIs ==
  ASSUME IsDictionary(version), NEW v \in Vid, ~IsGhost(v),
         NEW r \in ReleaseId \ Perpetual, MayBeAt(v, r)
  PROVE  \/ /\ Covers(v, r) /\ ~NeedsGhosts(v, r) /\ StandsFor(v, r) = {v}
         \/ /\ ~Covers(v, r) /\ NeedsGhosts(v, r)
            /\ v \in DOMAIN GhostFallbacks(r)
            /\ \E g \in GhostsRepresentedBy(v) :
                 /\ Covers(g, r) /\ StandsFor(v, r) = {g}
                 /\ GhostFallbacks(r)[v] = {g}
  <1>1. CASE Covers(v, r)
    <2>1. ~NeedsGhosts(v, r)
      BY <1>1, VersionsAre, WindowHolds DEF Covers, NeedsGhosts
    <2>2. QED
      BY <1>1, <2>1, StandsForIs
  <1>2. CASE ~Covers(v, r)
    <2> DEFINE s == SiblingsPastEnd(v)
    <2>1. /\ SortOrder(version[v].start) <= SortOrder(r)
          /\ SortOrder(r) \in Nat /\ version[v].start \in ReleaseId
      BY VersionsAre, DatedIs DEF MayBeAt
    <2>2. /\ version[v].end \in ReleaseId \ Perpetual
          /\ ~(SortOrder(version[v].end) > SortOrder(r))
      BY <1>2, <2>1, VersionsAre, WindowIs DEF Covers
    <2>3. version[v].end # None /\ SortOrder(version[v].end) \in Nat
      BY <2>2, DatedIs
    <2>4. SortOrder(version[v].end) <= SortOrder(r)
      BY <2>1, <2>2, <2>3
    <2>5. NeedsGhosts(v, r)
      BY <2>1, <2>2, <2>3 DEF NeedsGhosts, EndSort
    <2>6. v \in DOMAIN GhostFallbacks(r)
      BY <1>2, AcceptedIsListed
    <2>7. PICK i \in Chain(v, s) : Covers(s[i], r)
      BY <2>2, <2>4, ChainCovers
    <2> DEFINE g == s[i]
    <2>8. g \in GhostsRepresentedBy(v)
      BY <2>3 DEF GhostsRepresentedBy
    <2>9. g \in Vid /\ IsGhost(g) /\ version[g].module = version[v].module
      BY <2>8, RepresentedAre
    <2>10. GhostFallbacks(r)[v] = {g}
      <3>1. g \in GhostFallbacks(r)[v]
        BY <2>6, <2>7, <2>9, FallbackMembers
      <3>2. \A x \in GhostFallbacks(r)[v] : x = g
        BY <2>6, <2>7, <2>9, FallbackMembers, CoveringIsOne
      <3>3. QED
        BY <3>1, <3>2
    <2>11. QED
      BY <1>2, <2>5, <2>6, <2>7, <2>8, <2>10, StandsForIs
  <1>3. QED
    BY <1>1, <1>2

\* _discover_module_validations, the scopes that what is represented at a release
\* shares with versions that are reported there: each is kept.
LEMMA SharedIsKept ==
  ASSUME IsDictionary(version), NEW v \in Vid, ~IsGhost(v),
         NEW r \in ReleaseId \ Perpetual, MayBeAt(v, r),
         NEW s \in ScopesInForce(DOMAIN ExportedFor(r), r),
         s.modules \intersect StandsFor(v, r) # {},
         NEW ghosts, ghosts = IF NeedsGhosts(v, r) THEN GhostsRepresentedBy(v)
                              ELSE {}
  PROVE  /\ s.modules \intersect ({v} \union ghosts) # {}
         /\ \E w \in {v} \union IF NeedsGhosts(v, r) /\ v \in DOMAIN GhostFallbacks(r)
                                THEN GhostFallbacks(r)[v] ELSE {} :
              Overlap(version[w], s)
         /\ \A w \in s.modules : IsGhost(w) => w \in DOMAIN GhostFallbackMap(r)
  <1>1. \A w \in s.modules : w \in Vid /\ Covers(w, r)
    BY ScopeIs, ExportedIs
  <1>2. \A w \in s.modules : IsGhost(w) => w \in DOMAIN GhostFallbackMap(r)
    BY ScopeIs, ExportedIs
  <1>3. \A w \in s.modules : Overlap(version[w], s)
    BY <1>1, OverlapAt
  <1>4. QED
    BY <1>2, <1>3, StandingIs

\* The scopes of its chain of ghosts, those of other releases included.
LEMMA ChainedIsKept ==
  ASSUME IsDictionary(version), NEW v \in Vid, ~IsGhost(v),
         NEW r \in ReleaseId \ Perpetual, MayBeAt(v, r), v \notin StandsFor(v, r),
         NEW s \in ScopesInForce({v} \union GhostsRepresentedBy(v), r)
  PROVE  /\ NeedsGhosts(v, r) /\ v \in DOMAIN GhostFallbacks(r)
         /\ s.modules \subseteq {v} \union GhostsRepresentedBy(v)
         /\ s.modules # {}
         /\ \E w \in GhostFallbacks(r)[v] : Overlap(version[w], s)
  <1>1. s.modules \subseteq {v} \union GhostsRepresentedBy(v) /\ s.modules # {}
    BY ScopeIs
  <1>2. NeedsGhosts(v, r) /\ v \in DOMAIN GhostFallbacks(r)
    BY StandingIs
  <1>3. PICK g \in GhostsRepresentedBy(v) :
               Covers(g, r) /\ GhostFallbacks(r)[v] = {g}
    BY StandingIs
  <1>4. Overlap(version[g], s)
    BY <1>3, RepresentedAre, OverlapAt
  <1>5. QED
    BY <1>1, <1>2, <1>3, <1>4

\* What replaces each version that is exported at r, for v: what the export goes
\* through.
LEMMA ReplacedIs ==
  ASSUME IsDictionary(version), NEW v \in Vid, ~IsGhost(v),
         NEW r \in ReleaseId \ Perpetual, MayBeAt(v, r),
         NEW w \in DOMAIN ExportedFor(r), NEW fallback, fallback = FallbackFor(v, r)
  PROVE  /\ ExportedFor(r)[w] = {IF w \in DOMAIN fallback THEN fallback[w] ELSE w}
         /\ IsGhost(w) => w \in DOMAIN fallback
  <1> DEFINE chain == GhostsRepresentedBy(v)
             map == GhostFallbackMap(r)
  <1>1. w \in Vid /\ Covers(w, r)
    BY ExportedIs
  <1>2. /\ DOMAIN fallback = chain \union DOMAIN map
        /\ \A g \in DOMAIN fallback :
             fallback[g] = IF g \in chain THEN v ELSE map[g]
    BY DEF FallbackFor
  <1>3. CASE ~IsGhost(w)
    <2>1. w \notin chain /\ w \notin DOMAIN map
      BY <1>3, RepresentedAre, MappedAre
    <2>2. QED
      BY <1>2, <1>3, <2>1, ExportedIs
  <1>4. CASE IsGhost(w)
    <2>1. w \in DOMAIN map /\ ExportedFor(r)[w] = {map[w]}
      BY <1>4, ExportedIs
    <2>2. ASSUME w \in chain PROVE map[w] = v
      <3>1. version[w].module = version[v].module
        BY <2>2, RepresentedAre
      <3>2. ~Covers(v, r)
        BY <1>1, <1>4, <3>1, CoveringIsOne
      <3>3. v \in DOMAIN GhostFallbacks(r)
        BY <3>2, StandingIs
      <3>4. w \in GhostFallbacks(r)[v]
        BY <1>1, <1>4, <3>1, <3>3, FallbackMembers
      <3>5. QED
        BY <3>3, <3>4, MapIs
    <2>3. QED
      BY <1>2, <2>1, <2>2
  <1>5. QED
    BY <1>3, <1>4

\* _discover_module_validations and build_scope_result_from_db: what is in force at
\* a dated release where a version may be exported is read for it, and written
\* for what the export goes through.
LEMMA AllAreRead ==
  ASSUME IsDictionary(version), NEW v \in Vid, ~IsGhost(v),
         NEW r \in ReleaseId \ Perpetual, MayBeAt(v, r),
         NEW shared,
         shared = {s \in ScopesInForce(DOMAIN ExportedFor(r), r) :
                     s.modules \intersect StandsFor(v, r) # {}},
         NEW chained,
         chained = IF v \in StandsFor(v, r) THEN {}
                   ELSE ScopesInForce({v} \union GhostsRepresentedBy(v), r)
  PROVE  /\ shared \union chained
              \subseteq DiscoverModuleValidations(v, r, shared \union chained)
         /\ BuildScopeResultFromDb(v, r, shared)
              = {UNION {ExportedFor(r)[w] : w \in s.modules} : s \in shared}
         /\ BuildScopeResultFromDb(v, r, chained) \subseteq {{v}}
  <1> DEFINE scopes == shared \union chained
             needs == NeedsGhosts(v, r)
             fallbacks == GhostFallbacks(r)
             map == GhostFallbackMap(r)
             chain == GhostsRepresentedBy(v)
             fallback == FallbackFor(v, r)
             ghosts == IF needs THEN chain ELSE {}
             here == {v} \union IF needs /\ v \in DOMAIN fallbacks
                                THEN fallbacks[v] ELSE {}
             rescued == DOMAIN map \union ghosts
             Written(s) == {IF w \in DOMAIN fallback THEN fallback[w] ELSE w :
                              w \in s.modules}
  <1>1. DOMAIN fallback = chain \union DOMAIN map
    BY DEF FallbackFor
  <1>2. ASSUME NEW s \in scopes
        PROVE  /\ s.modules \intersect ({v} \union ghosts) # {}
               /\ \E w \in here : Overlap(version[w], s)
               /\ ~PhantomPaired(s, v, rescued)
               /\ ~PhantomPaired(s, v, DOMAIN fallback)
    <2>1. CASE s \in shared
      BY <1>1, <2>1, SharedIsKept DEF PhantomPaired
    <2>2. CASE s \in chained
      <3>1. /\ v \notin StandsFor(v, r)
            /\ s \in ScopesInForce({v} \union chain, r)
        BY <2>2
      <3>2. /\ needs /\ v \in DOMAIN fallbacks
            /\ s.modules \subseteq {v} \union chain /\ s.modules # {}
            /\ \E w \in fallbacks[v] : Overlap(version[w], s)
        <4> HIDE DEF scopes
        <4>1. QED
          BY <3>1, ChainedIsKept
      <3>3. ghosts = chain /\ fallbacks[v] \subseteq here
        BY <3>2
      <3>4. ghosts \subseteq rescued /\ ghosts \subseteq DOMAIN fallback
        BY <1>1
      <3> HIDE DEF ghosts, rescued, here, chain, needs, fallbacks
      <3>5. QED
        BY <3>2, <3>3, <3>4 DEF PhantomPaired
    <2>3. QED
      BY <2>1, <2>2
  <1>3. \A s, t \in scopes : ~Outranks(t, s, v)
    BY NoneOutranks
  <1>4. scopes \subseteq DiscoverModuleValidations(v, r, scopes)
    <2> DEFINE kept == {s \in scopes :
                          /\ s.modules \intersect ({v} \union ghosts) # {}
                          /\ \E w \in here : Overlap(version[w], s)
                          /\ ~PhantomPaired(s, v, rescued)}
    <2>1. DiscoverModuleValidations(v, r, scopes)
            = {s \in kept : ~\E t \in kept : Outranks(t, s, v)}
      BY DEF DiscoverModuleValidations
    <2>2. kept = scopes
      BY <1>2
    <2> HIDE DEF kept, scopes
    <2>3. QED
      BY <1>3, <2>1, <2>2
  <1>5. ASSUME NEW S \in SUBSET scopes
        PROVE  BuildScopeResultFromDb(v, r, S) = {Written(s) : s \in S}
    <2>1. {s \in S : ~PhantomPaired(s, v, DOMAIN fallback)} = S
      BY <1>2
    <2>2. BuildScopeResultFromDb(v, r, S)
            = {Written(s) : s \in {t \in S : ~PhantomPaired(t, v, DOMAIN fallback)}}
      BY DEF BuildScopeResultFromDb
    <2>3. QED
      BY <2>1, <2>2
  <1>6. ASSUME NEW s \in shared
        PROVE  Written(s) = UNION {ExportedFor(r)[w] : w \in s.modules}
    <2>1. \A w \in s.modules :
            ExportedFor(r)[w] = {IF w \in DOMAIN fallback THEN fallback[w] ELSE w}
      BY ReplacedIs, ScopeIs
    <2> HIDE DEF fallback
    <2>2. QED
      BY <2>1
  <1>7. ASSUME NEW s \in chained
        PROVE  Written(s) = {v}
    <2>1. s.modules \subseteq {v} \union chain /\ s.modules # {}
      BY <1>7, ScopeIs
    <2>2. \A w \in chain : w \in DOMAIN fallback /\ fallback[w] = v
      BY DEF FallbackFor
    <2>3. v \notin DOMAIN fallback
      BY <1>1, RepresentedAre, MappedAre
    <2> HIDE DEF fallback, chain
    <2>4. QED
      BY <2>1, <2>2, <2>3
  <1>8. BuildScopeResultFromDb(v, r, shared)
          = {UNION {ExportedFor(r)[w] : w \in s.modules} : s \in shared}
    <2>1. BuildScopeResultFromDb(v, r, shared) = {Written(s) : s \in shared}
      BY <1>5
    <2> HIDE DEF Written
    <2>2. QED
      BY <1>6, <2>1
  <1>9. BuildScopeResultFromDb(v, r, chained) \subseteq {{v}}
    <2>1. BuildScopeResultFromDb(v, r, chained) = {Written(s) : s \in chained}
      BY <1>5
    <2> HIDE DEF Written
    <2>2. QED
      BY <1>7, <2>1
  <1>10. QED
    BY <1>4, <1>8, <1>9

-----------------------------------------------------------------------------
\* What is written has all of its validations

\* A version is written where it may be exported.
ReadInv ==
  /\ TypeOK
  /\ \A v \in sweep.todo : ~IsGhost(v)
  /\ \A script \in sweep.written :
       ~IsGhost(script[1]) /\ MayBeAt(script[1], script[2])

\* EffectiveEnd, of what it is computed from.
EffectiveEndOf(end, chain, ends, next, s, met, start) ==
  IF end = None \/ chain = {} THEN end
  ELSE IF None \in ends THEN None
  ELSE IF next \in DOMAIN s /\ met THEN start
  ELSE CHOOSE e \in ends : \A f \in ends \ {e} : SortOrder(f) <= SortOrder(e)

LEMMA StepReadInv == ReadInv /\ [SweepNext]_sweepVars => ReadInv'
  <1> SUFFICES ASSUME ReadInv, [SweepNext]_sweepVars PROVE ReadInv'
    OBVIOUS
  <1>1. TypeOK'
    BY StepTypeOK DEF ReadInv
  <1>2. version' = version
    BY DEF SweepNext, Sweep, ScriptForModule, sweepVars
  <1>3. \A v, r : /\ IsGhost(v)' <=> IsGhost(v)
                  /\ MayBeAt(v, r)' <=> MayBeAt(v, r)
    <2>1. \A v : SiblingsPastEnd(v)' = SiblingsPastEnd(v)
      BY <1>2 DEF SiblingsPastEnd, EffectiveStart, EndsAfter, Vid
    <2>2. \A v, s : Chain(v, s)' = Chain(v, s)
      BY <1>2 DEF Chain, Met, Reaches, EffectiveStart, IsGhost
    <2>3. \A v, s, i : Met(v, s, i)' <=> Met(v, s, i)
      BY <1>2 DEF Met, Reaches, EffectiveStart, IsGhost
    <2>4. \A v : EffectiveEnd(v)' = EffectiveEnd(v)
      <3> TAKE v
      <3> DEFINE s == SiblingsPastEnd(v)
                 chain == Chain(v, s)
                 ends == {version[s[i]].end : i \in chain}
                 next == Cardinality(chain) + 1
                 met == Met(v, s, next)
                 value == EffectiveEndOf(version[v].end, chain, ends, next, s, met,
                                         version[s[next]].start)
      <3>1. EffectiveEnd(v) = value
        BY DEF EffectiveEnd, EffectiveEndOf
      <3>2. EffectiveEnd(v)' = value'
        BY DEF EffectiveEnd, EffectiveEndOf
      <3>3. s' = s /\ chain' = chain
        BY <2>1, <2>2
      <3>4. next' = next /\ ends' = ends /\ met' = met
        BY <1>2, <2>3, <3>3
      <3>5. value' = value
        <4> HIDE DEF s, chain, ends, next, met
        <4>1. QED
          BY <1>2, <3>3, <3>4
      <3>6. QED
        BY <3>1, <3>2, <3>5
    <2>5. QED
      BY <1>2, <2>4 DEF IsGhost, MayBeAt, BeforeEnd
  <1>4. ASSUME NEW r \in ReleaseId \union {None}, Sweep(r)
        PROVE  ReadInv'
    <2>1. sweep'.written = {}
      BY <1>4 DEF Sweep, NoSweep
    <2>2. \A v \in sweep'.todo : ~IsGhost(v)
      BY <1>4, FallbackIs DEF Sweep, NoSweep, ListModuleVersions
    <2>3. QED
      BY <1>1, <1>3, <2>1, <2>2 DEF ReadInv
  <1>5. ASSUME NEW v \in sweep.todo, ScriptForModule(v)
        PROVE  ReadInv'
    <2> DEFINE at == IF sweep.release = None THEN LatestReleaseInWindow(v)
                     ELSE {r \in {sweep.release} : Accepts(v, r)}
    <2>1. /\ sweep'.todo = sweep.todo \ {v}
          /\ sweep'.written = sweep.written \union ({v} \X at)
      BY <1>5 DEF ScriptForModule, ReadInv, TypeOK
    <2>2. v \in Vid /\ IsDictionary(version) /\ ~IsGhost(v)
      BY DEF ReadInv, TypeOK
    <2>3. \A r \in at : MayBeAt(v, r)
      <3> TAKE r \in at
      <3>1. CASE sweep.release = None
        BY <3>1 DEF LatestReleaseInWindow, MayBeAt
      <3>2. CASE sweep.release # None
        <4>1. Accepts(v, r) /\ r \in ReleaseId
          BY <3>2 DEF ReadInv, TypeOK
        <4>2. SortOrder(version[v].start) <= SortOrder(r)
          BY <2>2, <4>1, VersionsAre, OrderIs DEF Accepts
        <4>3. version[v].end = None => EffectiveEnd(v) = None
          BY DEF EffectiveEnd
        <4>4. BeforeEnd(r, EffectiveEnd(v))
          BY <4>1, <4>3 DEF Accepts, BeforeEnd
        <4>5. QED
          BY <4>2, <4>4 DEF MayBeAt
      <3>3. QED
        BY <3>1, <3>2
    <2> HIDE DEF at
    <2>4. QED
      BY <1>1, <1>3, <2>1, <2>2, <2>3 DEF ReadInv
  <1>6. CASE UNCHANGED sweepVars
    BY <1>1, <1>3, <1>6 DEF sweepVars, ReadInv
  <1>7. QED
    BY <1>4, <1>5, <1>6 DEF SweepNext

\* A validation that is in force at the (dated) release of a script is read, and
\* written for the versions that the export goes through; a script that stands for
\* a ghost has those of every ghost of its chain.
THEOREM SweepReadsAll == SweepSpec => []ValidationsAreRead
  <1>1. SweepInit => ReadInv
    BY InitTypeOK DEF SweepInit, NoSweep, ReadInv
  <1>2. ReadInv => ValidationsAreRead
    <2>1. SUFFICES ASSUME ReadInv PROVE ValidationsAreRead
      OBVIOUS
    <2>2. ASSUME NEW script \in sweep.written, script[2] \notin Perpetual
          PROVE  /\ IsDictionary(version)
                 /\ script[1] \in Vid /\ ~IsGhost(script[1])
                 /\ script[2] \in ReleaseId \ Perpetual
                 /\ MayBeAt(script[1], script[2])
      BY <2>1, <2>2 DEF ReadInv, TypeOK
    <2>3. ASSUME NEW script \in sweep.written, script[2] \notin Perpetual,
                 NEW shared, NEW chained,
                 shared = {s \in ScopesInForce(DOMAIN ExportedFor(script[2]), script[2]) :
                             s.modules \intersect StandsFor(script[1], script[2]) # {}},
                 chained = IF script[1] \in StandsFor(script[1], script[2]) THEN {}
                           ELSE ScopesInForce({script[1]}
                                  \union GhostsRepresentedBy(script[1]), script[2])
          PROVE  /\ shared \union chained \subseteq
                      DiscoverModuleValidations(script[1], script[2],
                                                shared \union chained)
                 /\ BuildScopeResultFromDb(script[1], script[2], shared)
                      = {UNION {ExportedFor(script[2])[w] : w \in s.modules} :
                           s \in shared}
                 /\ BuildScopeResultFromDb(script[1], script[2], chained)
                      \subseteq {{script[1]}}
      <3> DEFINE v == script[1]
                 r == script[2]
      <3>1. /\ IsDictionary(version) /\ v \in Vid /\ ~IsGhost(v)
            /\ r \in ReleaseId \ Perpetual /\ MayBeAt(v, r)
        BY <2>2, <2>3
      <3>2. /\ shared = {s \in ScopesInForce(DOMAIN ExportedFor(r), r) :
                           s.modules \intersect StandsFor(v, r) # {}}
            /\ chained = IF v \in StandsFor(v, r) THEN {}
                         ELSE ScopesInForce({v} \union GhostsRepresentedBy(v), r)
        BY <2>3
      <3> HIDE DEF v, r
      <3>3. /\ shared \union chained
                 \subseteq DiscoverModuleValidations(v, r, shared \union chained)
            /\ BuildScopeResultFromDb(v, r, shared)
                 = {UNION {ExportedFor(r)[w] : w \in s.modules} : s \in shared}
            /\ BuildScopeResultFromDb(v, r, chained) \subseteq {{v}}
        BY <3>1, <3>2, AllAreRead
      <3>4. QED
        BY <3>3 DEF v, r
    <2>4. QED
      BY <2>3, Zenon DEF ValidationsAreRead
  <1>3. QED
    BY <1>1, <1>2, StepReadInv, PTL DEF SweepSpec
=============================================================================
