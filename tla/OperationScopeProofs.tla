------------------------ MODULE OperationScopeProofs ------------------------
(***************************************************************************)
(* Proofs about OperationScope, for any dictionaries over any releases and *)
(* any calculations.                                                       *)
(***************************************************************************)
EXTENDS OperationScope, GhostFallbackProofs

-----------------------------------------------------------------------------
\* The versions that tables and indicators resolve to are exported ones.

LEMMA LatestPriorOf ==
  ASSUME NEW S, NEW T, NEW r, NEW v \in LatestPrior(S, r),
         version[v].module \in T
  PROVE  v \in LatestPrior(T, r)
  <1>1. PICK m \in S : v \in {u \in Prior(m, r) :
                                \A w \in Prior(m, r) \ {u} : Supersedes(u, w)}
    BY DEF LatestPrior
  <1>2. m = version[v].module
    BY <1>1 DEF Prior
  <1>3. QED
    BY <1>1, <1>2 DEF LatestPrior

\* A module that has a ghost with one of the codes, and no other version with
\* one, has no version at r but that ghost.
LEMMA ResolvedAreListed ==
  ASSUME IsDictionary(version), NEW r \in ReleaseId \ Perpetual, NEW codes
  PROVE  Resolve(codes, r) \subseteq ListModuleVersions(r)
  <1> DEFINE hosting == Hosting({v \in Vid : r = None \/ Covers(v, r)}, codes)
             kept == {v \in hosting : ~IsGhost(v)}
             lack == ModulesOf(hosting) \ ModulesOf(kept)
             covering == {v \in Vid : Covers(v, r)}
             ghosts == {v \in covering : IsGhost(v)}
             bereft == ModulesOf(ghosts) \ ModulesOf(covering \ ghosts)
  <1>1. r # None
    BY ReleaseAssumption
  <1>2. hosting \subseteq covering
    BY <1>1 DEF Hosting
  <1>3. lack \subseteq bereft
    <2>1. SUFFICES ASSUME NEW m \in lack PROVE m \in bereft
      OBVIOUS
    <2>2. PICK g \in hosting : m = version[g].module
      BY <2>1 DEF ModulesOf
    <2>3. IsGhost(g)
      BY <2>1, <2>2 DEF ModulesOf
    <2>4. ASSUME NEW w \in covering \ ghosts, m = version[w].module
          PROVE  FALSE
      <3>1. g = w
        BY <1>2, <2>2, <2>4, CoveringIsOne
      <3>2. QED
        BY <2>3, <2>4, <3>1
    <2>5. QED
      BY <1>2, <2>2, <2>3, <2>4 DEF ModulesOf
  <1>4. kept \subseteq ListModuleVersions(r)
    BY <1>2 DEF ListModuleVersions
  <1>5. LatestPrior(lack, r) \subseteq DOMAIN GhostFallbacks(r)
    <2>1. SUFFICES ASSUME NEW v \in LatestPrior(lack, r)
                   PROVE  v \in LatestPrior(bereft, r)
      BY DEF GhostFallbacks
    <2>2. version[v].module \in bereft
      <3> HIDE DEF lack, bereft
      <3> QED BY <1>3, LatestPriorIs
    <2>3. QED
      <3> HIDE DEF lack, bereft
      <3> QED BY <2>2, LatestPriorOf
  <1>6. Resolve(codes, r) = kept \union Hosting(LatestPrior(lack, r), codes)
    BY <1>1 DEF Resolve
  <1>7. QED
    BY <1>4, <1>5, <1>6 DEF Hosting, ListModuleVersions

-----------------------------------------------------------------------------
\* A scope has no other versions than those.

RowVids(rows) == {row[1] : row \in rows}
Within(pool, rows) == \A t \in DOMAIN pool : pool[t] \subseteq RowVids(rows)

LEMMA PoolIsWithin ==
  ASSUME NEW rows, NEW vids, NEW tables
  PROVE  Within(Pool(rows, vids, tables), rows)
  <1>1. SUFFICES ASSUME NEW t \in DOMAIN Pool(rows, vids, tables),
                        NEW v \in Pool(rows, vids, tables)[t]
                 PROVE  v \in RowVids(rows)
    BY DEF Within
  <1>2. <<v, t>> \in rows
    BY <1>1 DEF Pool
  <1>3. <<v, t>>[1] = v
    OBVIOUS
  <1>4. QED
    BY <1>2, <1>3 DEF RowVids

LEMMA UnionIsWithin ==
  ASSUME NEW rows, NEW p, NEW q, Within(p, rows), Within(q, rows)
  PROVE  Within(Completed(p, q), rows)
  BY DEF Within, Completed

LEMMA PoolsAreWithin ==
  ASSUME NEW rows, NEW partial, NEW tables, NEW r,
         NEW pool \in Pools(rows, partial, tables, r)
  PROVE  Within(Supplement(pool, rows, tables), rows)
  <1> DEFINE starting == Pool(rows, {v \in partial : version[v].start = r}, tables)
             ending == Pool(rows, {v \in partial : version[v].start # r}, tables)
  <1>1. Within(starting, rows) /\ Within(ending, rows)
    BY PoolIsWithin
  <1>2. \/ pool = Completed(starting, ending)
        \/ pool = Completed(ending, starting)
    BY DEF Pools
  <1>3. Within(pool, rows)
    <2> HIDE DEF starting, ending
    <2> QED BY <1>1, <1>2, UnionIsWithin
  <1>4. QED
    BY <1>3, PoolIsWithin, UnionIsWithin DEF Supplement

LEMMA CombinationsAreWithin ==
  ASSUME NEW rows, NEW pool, Within(pool, rows), NEW s \in Combinations(pool)
  PROVE  s \subseteq RowVids(rows)
  <1> DEFINE lists == {pool[t] : t \in DOMAIN pool}
  <1>1. PICK f \in [lists -> UNION lists] : /\ \A l \in lists : f[l] \in l
                                            /\ s = {f[l] : l \in lists}
    BY DEF Combinations
  <1>2. \A l \in lists : l \subseteq RowVids(rows)
    BY DEF Within
  <1>3. QED
    BY <1>1, <1>2

LEMMA CrossIsWithin ==
  ASSUME NEW rows, NEW pool, Within(pool, rows), NEW tables, NEW items,
         NEW alone, NEW s \in ProcessCross(pool, rows, tables, items, alone)
  PROVE  s \subseteq RowVids(rows)
  <1>1. s \in Combinations(pool)
    BY DEF ProcessCross, Minimal
  <1>2. QED
    BY <1>1, CombinationsAreWithin

LEMMA InfoIsListed ==
  ASSUME IsDictionary(version), NEW r \in ReleaseId \ Perpetual, NEW codes
  PROVE  RowVids(Info(codes, r)) \subseteq ListModuleVersions(r)
  <1>1. ASSUME NEW row \in Info(codes, r)
        PROVE  row[1] \in Resolve(codes, r)
    BY DEF Info
  <1>2. QED
    BY <1>1, ResolvedAreListed DEF RowVids

LEMMA ScopesAreWithin ==
  ASSUME NEW rows, NEW tables, NEW items, NEW r,
         NEW s \in Scopes(rows, tables, items, r)
  PROVE  s \subseteq RowVids(rows)
  <1> DEFINE vids == RowVids(rows)
             sufficient == {v \in vids : Has(rows, v) = tables \union items}
             alone == {{v} : v \in sufficient}
             pools == Pools(rows, vids \ sufficient, tables, r)
             Cross(p) == ProcessCross(Supplement(p, rows, tables),
                                      rows, tables, items, alone)
  <1>1. \/ s = vids
        \/ s \in alone
        \/ \E p \in pools : s \in Cross(p)
    BY DEF Scopes, RowVids
  <1>2. s \in alone => s \subseteq vids
    OBVIOUS
  <1>3. ASSUME NEW p \in pools, s \in Cross(p)
        PROVE  s \subseteq vids
    <2>1. Within(Supplement(p, rows, tables), rows)
      <3> HIDE DEF sufficient, vids
      <3> QED BY PoolsAreWithin
    <2>2. QED
      <3> HIDE DEF alone
      <3> QED BY <1>3, <2>1, CrossIsWithin
  <1>4. QED
    BY <1>1, <1>2, <1>3

LEMMA ScopesAreListed ==
  ASSUME IsDictionary(version), NEW r \in ReleaseId \ Perpetual,
         NEW tables, NEW precondition,
         CalculateOperationScope(tables, precondition, r) # None
  PROVE  UNION CalculateOperationScope(tables, precondition, r)
           \subseteq ListModuleVersions(r)
  <1> DEFINE items == precondition \intersect Indicator
             rows == Info(tables, r) \union Info(items, r)
  <1>1. r # None
    BY ReleaseAssumption
  <1>2. RowVids(rows) \subseteq ListModuleVersions(r)
    <2>1. RowVids(rows) = RowVids(Info(tables, r)) \union RowVids(Info(items, r))
      BY DEF RowVids
    <2>2. QED
      BY <2>1, InfoIsListed
  <1>3. CalculateOperationScope(tables, precondition, r)
          = Scopes(rows, tables, items, r)
    BY <1>1 DEF CalculateOperationScope
  <1>4. QED
    <2> HIDE DEF rows, items
    <2> QED BY <1>2, <1>3, ScopesAreWithin

-----------------------------------------------------------------------------
\* A scope has every operand.

Provides(pool, rows) ==
  \A t \in DOMAIN pool : \A v \in pool[t] : <<v, t>> \in rows

LEMMA PoolsProvide ==
  ASSUME NEW rows, NEW partial, NEW tables, NEW r,
         NEW pool \in Pools(rows, partial, tables, r)
  PROVE  Provides(Supplement(pool, rows, tables), rows)
  <1> DEFINE starting == Pool(rows, {v \in partial : version[v].start = r}, tables)
             ending == Pool(rows, {v \in partial : version[v].start # r}, tables)
  <1>1. ASSUME NEW vids
        PROVE  Provides(Pool(rows, vids, tables), rows)
    BY DEF Provides, Pool
  <1>2. ASSUME NEW p, NEW q, Provides(p, rows), Provides(q, rows)
        PROVE  Provides(Completed(p, q), rows)
    BY <1>2 DEF Provides, Completed
  <1>3. pool = Completed(starting, ending) \/ pool = Completed(ending, starting)
    BY DEF Pools
  <1>4. Provides(starting, rows) /\ Provides(ending, rows)
    BY <1>1
  <1>5. Provides(pool, rows)
    <2> HIDE DEF starting, ending
    <2> QED BY <1>2, <1>3, <1>4
  <1>6. QED
    BY <1>1, <1>2, <1>5 DEF Supplement

\* Rows of versions with codes that they have.
AreInfo(rows) == \A row \in rows : row[2] \in version[row[1]].hosts

Hosts(s) == UNION {version[v].hosts : v \in s}

LEMMA HasIsHosted ==
  ASSUME NEW rows, AreInfo(rows), NEW v
  PROVE  Has(rows, v) \subseteq version[v].hosts
  BY DEF Has, CodesIn, AreInfo

LEMMA CrossSupplies ==
  ASSUME NEW rows, AreInfo(rows), NEW pool, Provides(pool, rows), NEW tables,
         NEW items, NEW alone,
         NEW s \in ProcessCross(pool, rows, tables, items, alone)
  PROVE  tables \union items \subseteq Hosts(s) /\ ShareAWindow(s)
  <1> DEFINE lists == {pool[t] : t \in DOMAIN pool}
  <1>1. /\ DOMAIN pool = tables
        /\ s \in Combinations(pool)
        /\ ShareAWindow(s)
        /\ items \subseteq UNION {Has(rows, v) : v \in s}
    BY DEF ProcessCross, Minimal
  <1>2. items \subseteq Hosts(s)
    BY <1>1, HasIsHosted DEF Hosts
  <1>3. PICK f \in [lists -> UNION lists] : /\ \A l \in lists : f[l] \in l
                                            /\ s = {f[l] : l \in lists}
    BY <1>1 DEF Combinations
  <1>4. ASSUME NEW t \in tables
        PROVE  t \in Hosts(s)
    <2>1. f[pool[t]] \in pool[t] /\ f[pool[t]] \in s
      BY <1>1, <1>3
    <2>2. <<f[pool[t]], t>> \in rows
      BY <1>1, <2>1 DEF Provides
    <2>3. t \in version[f[pool[t]]].hosts
      BY <2>2 DEF AreInfo
    <2>4. QED
      BY <2>1, <2>3 DEF Hosts
  <1>5. QED
    BY <1>1, <1>2, <1>4

LEMMA ScopesSupply ==
  ASSUME NEW rows, AreInfo(rows), IsFiniteSet(rows), NEW tables, NEW items,
         tables \union items \subseteq CodesIn(rows), NEW r,
         NEW s \in Scopes(rows, tables, items, r)
  PROVE  /\ tables \union items \subseteq Hosts(s)
         /\ (\E v \in s : s = {v}) \/ ShareAWindow(s)
  <1> DEFINE vids == {row[1] : row \in rows}
             sufficient == {v \in vids : Has(rows, v) = tables \union items}
             alone == {{v} : v \in sufficient}
             pools == Pools(rows, vids \ sufficient, tables, r)
             Cross(p) == ProcessCross(Supplement(p, rows, tables),
                                      rows, tables, items, alone)
  <1>1. \/ Cardinality(rows) = 1 /\ s = vids
        \/ s \in alone
        \/ \E p \in pools : s \in Cross(p)
    BY DEF Scopes
  <1>2. CASE Cardinality(rows) = 1 /\ s = vids
    <2>1. PICK x : rows = {x}
      BY <1>2, FS_Singleton
    <2>2. s = {x[1]} /\ CodesIn(rows) = {x[2]}
      BY <1>2, <2>1 DEF CodesIn
    <2>3. x[2] \in version[x[1]].hosts
      BY <2>1 DEF AreInfo
    <2>4. QED
      BY <2>2, <2>3 DEF Hosts
  <1>3. CASE s \in alone
    <2>1. PICK v \in sufficient : s = {v}
      BY <1>3
    <2>2. tables \union items \subseteq version[v].hosts
      BY HasIsHosted
    <2>3. QED
      BY <2>1, <2>2 DEF Hosts
  <1>4. ASSUME NEW p \in pools, s \in Cross(p)
        PROVE  tables \union items \subseteq Hosts(s) /\ ShareAWindow(s)
    <2>1. Provides(Supplement(p, rows, tables), rows)
      <3> HIDE DEF sufficient, vids
      <3> QED BY PoolsProvide
    <2>2. QED
      <3> HIDE DEF alone
      <3> QED BY <1>4, <2>1, CrossSupplies
  <1>5. QED
    BY <1>1, <1>2, <1>3, <1>4

LEMMA InfoIs ==
  ASSUME IsDictionary(version), NEW r, NEW codes, codes \subseteq Code
  PROVE  /\ AreInfo(Info(codes, r))
         /\ IsFiniteSet(Info(codes, r))
         /\ Info(codes, r) \subseteq Vid \X codes
  <1>1. Resolve(codes, r) \subseteq Vid
    BY LatestPriorIs DEF Resolve, Hosting
  <1>2. Info(codes, r) \subseteq Vid \X codes
    BY <1>1 DEF Info
  <1>3. IsFiniteSet(Vid \X codes)
    BY CodeAssumption, FS_Product, FS_Subset DEF IsDictionary, Vid
  <1>4. QED
    BY <1>2, <1>3, FS_Subset DEF AreInfo, Info

\* At a dated release, what some codes resolve to is there for more codes too.
LEMMA ResolveGrows ==
  ASSUME IsDictionary(version), NEW r \in ReleaseId \ Perpetual,
         NEW codes, NEW more, codes \subseteq more
  PROVE  Info(codes, r) \subseteq Info(more, r)
  <1> DEFINE hosting(C) == Hosting({v \in Vid : r = None \/ Covers(v, r)}, C)
             kept(C) == {v \in hosting(C) : ~IsGhost(v)}
             lack(C) == ModulesOf(hosting(C)) \ ModulesOf(kept(C))
  <1>1. r # None
    BY ReleaseAssumption
  <1>2. \A C : Resolve(C, r) = kept(C) \union Hosting(LatestPrior(lack(C), r), C)
    BY <1>1 DEF Resolve
  <1>3. hosting(codes) \subseteq hosting(more)
    BY DEF Hosting
  <1>4. lack(codes) \subseteq lack(more)
    <2>1. SUFFICES ASSUME NEW m \in lack(codes) PROVE m \in lack(more)
      OBVIOUS
    <2>2. PICK g \in hosting(codes) : m = version[g].module
      BY <2>1 DEF ModulesOf
    <2>3. IsGhost(g)
      BY <2>1, <2>2 DEF ModulesOf
    <2>4. ASSUME NEW w \in kept(more), m = version[w].module
          PROVE  FALSE
      <3>1. w \in Vid /\ Covers(w, r) /\ g \in Vid /\ Covers(g, r)
        BY <1>1, <2>2, <2>4 DEF Hosting
      <3>2. g = w
        BY <2>2, <2>4, <3>1, CoveringIsOne
      <3>3. QED
        BY <2>3, <2>4, <3>2
    <2>5. QED
      BY <1>3, <2>2, <2>4 DEF ModulesOf
  <1>5. LatestPrior(lack(codes), r) \subseteq LatestPrior(lack(more), r)
    <2> HIDE DEF lack
    <2>1. SUFFICES ASSUME NEW v \in LatestPrior(lack(codes), r)
                   PROVE  v \in LatestPrior(lack(more), r)
      OBVIOUS
    <2>2. version[v].module \in lack(more)
      BY <1>4, <2>1, LatestPriorIs
    <2>3. QED
      BY <2>1, <2>2, LatestPriorOf
  <1>6. Resolve(codes, r) \subseteq Resolve(more, r)
    <2>1. kept(codes) \subseteq kept(more)
      BY <1>3
    <2>2. Hosting(LatestPrior(lack(codes), r), codes)
            \subseteq Hosting(LatestPrior(lack(more), r), more)
      BY <1>5 DEF Hosting
    <2>3. QED
      BY <1>2, <2>1, <2>2
  <1>7. QED
    BY <1>6 DEF Info

LEMMA CalculationSupplies ==
  ASSUME IsDictionary(version), NEW r \in ReleaseId, NEW tables, NEW needed,
         tables \subseteq Code, needed \subseteq Code,
         tables \subseteq CodesIn(Info(tables, r)),
         CalculateOperationScope(tables, needed, r) # None,
         NEW s \in CalculateOperationScope(tables, needed, r)
  PROVE  /\ tables \union (needed \intersect Indicator) \subseteq Hosts(s)
         /\ (\E v \in s : s = {v}) \/ ShareAWindow(s)
  <1> DEFINE items == needed \intersect Indicator
             rows == Info(tables, r) \union Info(items, r)
  <1>1. r # None
    BY ReleaseAssumption
  <1>2. /\ items \subseteq CodesIn(rows)
        /\ CalculateOperationScope(tables, needed, r)
             = Scopes(rows, tables, items, r)
    BY <1>1 DEF CalculateOperationScope
  <1>3. tables \subseteq CodesIn(rows)
    BY DEF CodesIn
  <1>4. AreInfo(rows) /\ IsFiniteSet(rows)
    <2>1. items \subseteq Code
      OBVIOUS
    <2>2. QED
      BY <2>1, InfoIs, FS_Union DEF AreInfo
  <1>5. /\ tables \union items \subseteq Hosts(s)
        /\ (\E v \in s : s = {v}) \/ ShareAWindow(s)
    <2> HIDE DEF rows, items
    <2> QED BY <1>2, <1>3, <1>4, ScopesSupply
  <1>6. QED
    BY <1>5

-----------------------------------------------------------------------------
\* A version that has every operand is a scope of its own.

\* What the export goes through at a dated release is found for any codes that it,
\* and what it stands for, has some of.
LEMMA TargetIsResolved ==
  ASSUME IsDictionary(version), NEW r \in ReleaseId \ Perpetual,
         NEW v \in ListModuleVersions(r), NEW codes,
         \A w \in {v} \union StandsFor(v, r) :
           version[w].hosts \intersect codes # {}
  PROVE  v \in Resolve(codes, r)
  <1> DEFINE hosting == Hosting({w \in Vid : r = None \/ Covers(w, r)}, codes)
             kept == {w \in hosting : ~IsGhost(w)}
             lack == ModulesOf(hosting) \ ModulesOf(kept)
             covering == {w \in Vid : Covers(w, r)}
             ghosts == {w \in covering : IsGhost(w)}
             bereft == ModulesOf(ghosts) \ ModulesOf(covering \ ghosts)
  <1>1. r # None
    BY ReleaseAssumption
  <1>2. Resolve(codes, r) = kept \union Hosting(LatestPrior(lack, r), codes)
    BY <1>1 DEF Resolve
  <1>3. CASE Covers(v, r) /\ v \in Vid /\ ~IsGhost(v)
    BY <1>2, <1>3 DEF Hosting
  <1>4. CASE v \in DOMAIN GhostFallbacks(r)
    <2>1. v \in LatestPrior(bereft, r)
      BY <1>4 DEF GhostFallbacks
    <2>2. version[v].module \in bereft
      <3> HIDE DEF bereft
      <3> QED BY <2>1, LatestPriorIs
    <2>3. PICK g \in ghosts : version[g].module = version[v].module
      BY <2>2 DEF ModulesOf
    <2>4. g \in StandsFor(v, r)
      BY <1>4, <2>3, FallbackMembers DEF StandsFor
    <2>5. g \in hosting
      BY <2>3, <2>4 DEF Hosting
    <2>6. version[v].module \notin ModulesOf(kept)
      <3>1. kept \subseteq covering \ ghosts
        BY <1>1 DEF Hosting
      <3>2. QED
        BY <2>2, <3>1 DEF ModulesOf
    <2>7. version[v].module \in lack
      BY <2>3, <2>5, <2>6 DEF ModulesOf
    <2>8. v \in LatestPrior(lack, r)
      <3> HIDE DEF bereft, lack
      <3> QED BY <2>1, <2>7, LatestPriorOf
    <2>9. QED
      BY <1>2, <2>8 DEF Hosting
  <1>5. QED
    BY <1>3, <1>4 DEF ListModuleVersions

LEMMA ScopesStandAlone ==
  ASSUME NEW rows, IsFiniteSet(rows), NEW tables, NEW items, NEW r, NEW v,
         \A row \in rows : row[2] \in tables \union items,
         \A c \in tables \union items : <<v, c>> \in rows,
         tables \union items # {}
  PROVE  {s \in Scopes(rows, tables, items, r) : v \in s} = {{v}}
  <1> DEFINE vids == {row[1] : row \in rows}
             sufficient == {w \in vids : Has(rows, w) = tables \union items}
             alone == {{w} : w \in sufficient}
             pools == Pools(rows, vids \ sufficient, tables, r)
             Cross(p) == ProcessCross(Supplement(p, rows, tables),
                                      rows, tables, items, alone)
  <1>1. v \in vids
    <2>1. PICK c : c \in tables \union items
      OBVIOUS
    <2>2. <<v, c>> \in rows /\ <<v, c>>[1] = v
      BY <2>1
    <2>3. QED
      BY <2>2
  <1>2. Has(rows, v) = tables \union items
    <2>1. Has(rows, v) \subseteq tables \union items
      BY DEF Has, CodesIn
    <2>2. ASSUME NEW c \in tables \union items PROVE c \in Has(rows, v)
      <3>1. <<v, c>> \in rows /\ <<v, c>>[1] = v /\ <<v, c>>[2] = c
        OBVIOUS
      <3>2. QED
        BY <3>1 DEF Has, CodesIn
    <2>3. QED
      BY <2>1, <2>2
  <1>3. {v} \in alone
    BY <1>1, <1>2
  <1>4. CASE Cardinality(rows) = 1
    <2>1. PICK x : rows = {x}
      BY <1>4, FS_Singleton
    <2>2. vids = {v}
      BY <1>1, <2>1
    <2>3. Scopes(rows, tables, items, r) = {vids}
      BY <1>4 DEF Scopes
    <2>4. QED
      BY <2>2, <2>3
  <1>5. CASE Cardinality(rows) # 1
    <2>1. Scopes(rows, tables, items, r) = alone \union UNION {Cross(p) : p \in pools}
      BY <1>5 DEF Scopes
    <2>2. ASSUME NEW s \in alone, v \in s PROVE s = {v}
      BY <2>2
    <2>3. ASSUME NEW p, NEW s \in Cross(p), v \in s PROVE s = {v}
      <3>1. ~\E o \in alone : o \subseteq s /\ o # s
        <4> HIDE DEF alone
        <4> QED BY DEF ProcessCross, Minimal
      <3>2. QED
        BY <1>3, <2>3, <3>1
    <2> HIDE DEF alone, Cross, pools
    <2>4. {v} \in Scopes(rows, tables, items, r)
      BY <1>3, <2>1
    <2>5. ASSUME NEW s \in Scopes(rows, tables, items, r), v \in s PROVE s = {v}
      BY <2>1, <2>2, <2>3, <2>5
    <2>6. QED
      BY <2>4, <2>5
  <1>6. QED
    BY <1>4, <1>5

LEMMA CalculationStandsAlone ==
  ASSUME IsDictionary(version), NEW r \in ReleaseId \ Perpetual, NEW tables,
         NEW needed, tables \subseteq Code, tables # {}, needed \subseteq Code,
         CalculateOperationScope(tables, needed, r) # None,
         NEW v \in ListModuleVersions(r),
         \A w \in {v} \union StandsFor(v, r) :
           tables \union (needed \intersect Indicator) \subseteq version[w].hosts
  PROVE  {s \in CalculateOperationScope(tables, needed, r) : v \in s} = {{v}}
  <1> DEFINE items == needed \intersect Indicator
             rows == Info(tables, r) \union Info(items, r)
  <1>1. r # None
    BY ReleaseAssumption
  <1>2. CalculateOperationScope(tables, needed, r)
          = Scopes(rows, tables, items, r)
    BY <1>1 DEF CalculateOperationScope
  <1>3. IsFiniteSet(rows) /\ \A row \in rows : row[2] \in tables \union items
    <2>1. items \subseteq Code
      OBVIOUS
    <2>2. /\ IsFiniteSet(Info(tables, r)) /\ IsFiniteSet(Info(items, r))
          /\ Info(tables, r) \subseteq Vid \X tables
          /\ Info(items, r) \subseteq Vid \X items
      <3> HIDE DEF items
      <3> QED BY <2>1, InfoIs
    <2> HIDE DEF items
    <2>3. QED
      BY <2>2, FS_Union
  <1>4. ASSUME NEW codes, codes \subseteq tables \union items, NEW c \in codes
        PROVE  <<v, c>> \in Info(codes, r)
    <2>1. \A w \in {v} \union StandsFor(v, r) :
            codes \subseteq version[w].hosts
            /\ version[w].hosts \intersect codes # {}
      BY <1>4
    <2>2. v \in Resolve(codes, r)
      BY <2>1, TargetIsResolved
    <2>3. c \in version[v].hosts
      BY <2>1
    <2>4. QED
      BY <2>2, <2>3 DEF Info
  <1>5. \A c \in tables \union items : <<v, c>> \in rows
    BY <1>4
  <1>6. QED
    <2>1. tables \union items # {}
      OBVIOUS
    <2> HIDE DEF rows, items
    <2>2. {s \in Scopes(rows, tables, items, r) : v \in s} = {{v}}
      BY <1>3, <1>5, <2>1, ScopesStandAlone
    <2>3. QED
      BY <1>2, <2>2
-----------------------------------------------------------------------------
\* The specification

LEMMA CalculationNamesTargets ==
  ASSUME IsDictionary(version), NEW q \in Queries,
         NEW r \in ReleaseId \union {None}, CalculateFromExpression(q, r)
  PROVE  ScopesNameTargets'
  <1>1. version' = version
    BY DEF CalculateFromExpression, sweepVars
  <1> DEFINE Calculated(s) ==
               \E tables, items :
                 /\ s = CalculateOperationScope(tables, items, r)
                 /\ s # None
  <1>2. /\ result'.release = r
        /\ result'.scopes = {} \/ Calculated(result'.scopes)
    <2>1. CASE result' = WithoutGate(q, r)
      BY <2>1 DEF WithoutGate, Outcome
    <2>2. CASE result' = WithGate(q, r)
      BY <2>2 DEF WithGate, WithoutGate, Outcome
    <2>3. QED
      BY <2>1, <2>2 DEF CalculateFromExpression
  <1>3. r \in ReleaseId \ Perpetual =>
          UNION result'.scopes \subseteq ListModuleVersions(r)
    BY <1>2, ScopesAreListed
  <1>4. \A x : ListModuleVersions(x)' = ListModuleVersions(x)
    BY <1>1 DEF ListModuleVersions, GhostFallbacks, Vid, Covers, IsGhost,
                LatestPrior, Prior, Supersedes, ModulesOf
  <1>5. QED
    BY <1>2, <1>3, <1>4 DEF ScopesNameTargets, HasScopes

\* The outcome is an error, or the scopes of all that the query needs.
LEMMA CalculationIs ==
  ASSUME NEW q \in Queries, NEW r, CalculateFromExpression(q, r),
         NEW T, T = NeededTables(q), NEW I, I = NeededItems(q)
  PROVE  /\ result'.query = q /\ result'.release = r
         /\ \/ result'.scopes = {} /\ result'.source # None
            \/ /\ q.gate # None => TablesHosted(q.gate.tables, r)
               /\ result'.scopes = CalculateOperationScope(T, I, r)
               /\ result'.scopes # None
  <1> DEFINE Alone == /\ result' = WithoutGate(q, r)
                      /\ T = q.tables /\ I = q.items
             Refused == result' = Outcome(q, r, None, "precondition", FALSE)
             Both == \E w : \E o \in {"expression", "precondition"} :
               result' = Outcome(q, r, CalculateOperationScope(T, I, r), o, w)
  <1>1. CASE q.gate = None
    <2>1. Alone
      BY <1>1 DEF CalculateFromExpression, NeededTables, NeededItems
    <2>2. QED
      BY <1>1, <2>1, SourceAssumption DEF WithoutGate, Outcome
  <1>2. CASE q.gate # None
    <2>1. result' = WithGate(q, r)
      BY <1>2 DEF CalculateFromExpression
    <2>2. CASE ~TablesHosted(q.gate.tables, r)
      <3>1. Refused
        BY <2>1, <2>2 DEF WithGate
      <3>2. QED
        BY <3>1, SourceAssumption DEF Outcome
    <2>3. CASE TablesHosted(q.gate.tables, r) /\ T = q.tables /\ I = q.items
      <3>1. Alone
        BY <2>1, <2>3 DEF WithGate
      <3>2. QED
        BY <2>3, <3>1, SourceAssumption DEF WithoutGate, Outcome
    <2>4. CASE /\ TablesHosted(q.gate.tables, r)
               /\ ~(T = q.tables /\ I = q.items)
      <3>1. Both
        BY <2>1, <2>4 DEF WithGate
      <3>2. QED
        BY <2>4, <3>1, SourceAssumption DEF Outcome
    <2>5. QED
      BY <2>2, <2>3, <2>4
  <1>3. QED
    BY <1>1, <1>2

LEMMA CalculationIsSupplied ==
  ASSUME IsDictionary(version), NEW q \in Queries,
         NEW r \in ReleaseId \union {None}, CalculateFromExpression(q, r)
  PROVE  ScopesSupplyEveryOperand'
  <1> DEFINE T == NeededTables(q)
             I == NeededItems(q)
  <1>1. version' = version
    BY DEF CalculateFromExpression, sweepVars
  <1>2. /\ T \subseteq Code /\ I \subseteq Code /\ q.tables \subseteq T
        /\ q.gate = None => T = q.tables
        /\ q.gate # None => T = q.tables \union q.gate.tables
                            /\ q.gate.tables \subseteq Code
    BY QueryAssumption DEF NeededTables, NeededItems, Operands
  <1>3. /\ result'.query = q /\ result'.release = r
        /\ \/ result'.scopes = {}
           \/ /\ q.gate # None => TablesHosted(q.gate.tables, r)
              /\ result'.scopes = CalculateOperationScope(T, I, r)
              /\ result'.scopes # None
    BY CalculationIs
  <1>4. ASSUME r \in ReleaseId \ Perpetual,
               q.tables \subseteq CodesIn(Info(q.tables, r)),
               NEW s \in result'.scopes
        PROVE  /\ NeededCodes(q) \subseteq Hosts(s)
               /\ (\E v \in s : s = {v}) \/ ShareAWindow(s)
    <2>1. Info(q.tables, r) \subseteq Info(T, r)
      BY <1>2, <1>4, ResolveGrows
    <2>2. q.gate # None => q.gate.tables \subseteq CodesIn(Info(T, r))
      <3>1. SUFFICES ASSUME q.gate # None
                     PROVE  q.gate.tables \subseteq CodesIn(Info(T, r))
        OBVIOUS
      <3>2. Info(q.gate.tables, r) \subseteq Info(T, r)
        BY <1>2, <1>4, <3>1, ResolveGrows
      <3>3. q.gate.tables \subseteq CodesIn(Info(q.gate.tables, r))
        BY <1>3, <1>4, <3>1 DEF TablesHosted
      <3>4. QED
        BY <3>2, <3>3 DEF CodesIn
    <2>3. T \subseteq CodesIn(Info(T, r))
      BY <1>2, <1>4, <2>1, <2>2 DEF CodesIn
    <2>4. QED
      BY <1>2, <1>3, <1>4, <2>3, CalculationSupplies DEF NeededCodes
  <1>5. /\ \A x : Info(x, r)' = Info(x, r)
        /\ \A x : Hosts(x)' = Hosts(x)
        /\ \A x : ShareAWindow(x)' = ShareAWindow(x)
    BY <1>1 DEF Info, Resolve, Hosting, Hosts, ShareAWindow, Vid, Covers,
                IsGhost, LatestPrior, Prior, Supersedes, ModulesOf
  <1>6. QED
    BY <1>3, <1>4, <1>5 DEF ScopesSupplyEveryOperand, HasScopes, Hosts

LEMMA CalculationLeavesAlone ==
  ASSUME IsDictionary(version), NEW q \in Queries,
         NEW r \in ReleaseId \union {None}, CalculateFromExpression(q, r)
  PROVE  SelfSufficientStandsAlone'
  <1> DEFINE T == NeededTables(q)
             I == NeededItems(q)
  <1>1. version' = version
    BY DEF CalculateFromExpression, sweepVars
  <1>2. T \subseteq Code /\ T # {} /\ I \subseteq Code
    BY QueryAssumption DEF NeededTables, NeededItems, Operands
  <1>3. /\ result'.query = q /\ result'.release = r
        /\ \/ result'.source # None
           \/ /\ result'.scopes = CalculateOperationScope(T, I, r)
              /\ result'.scopes # None
    BY CalculationIs
  <1>4. ASSUME r \in ReleaseId \ Perpetual, result'.source = None,
               NEW v \in ListModuleVersions(r),
               \A w \in {v} \union StandsFor(v, r) :
                 NeededCodes(q) \subseteq version[w].hosts
        PROVE  {s \in result'.scopes : v \in s} = {{v}}
    BY <1>2, <1>3, <1>4, CalculationStandsAlone DEF NeededCodes
  <1>5. /\ ListModuleVersions(r)' = ListModuleVersions(r)
        /\ \A v : StandsFor(v, r)' = StandsFor(v, r)
    BY <1>1 DEF ListModuleVersions, GhostFallbacks, Vid, Covers, IsGhost,
                LatestPrior, Prior, Supersedes, ModulesOf, StandsFor
  <1>6. QED
    BY <1>1, <1>3, <1>4, <1>5 DEF SelfSufficientStandsAlone, HasScopes

LEMMA DictionaryStays ==
  ASSUME IsDictionary(version), [ScopeNext]_scopeVars
  PROVE  /\ version' = version
         /\ \/ result' = result
            \/ \E q \in Queries, r \in ReleaseId \union {None} :
                 CalculateFromExpression(q, r)
  BY DEF ScopeNext, SweepNext, Sweep, ScriptForModule, scopeVars, sweepVars,
         CalculateFromExpression

\* At a dated release, a scope names only versions that the export goes through.
THEOREM ScopesAreExported == ScopeSpec => []ScopesNameTargets
  <1> DEFINE Inv == IsDictionary(version) /\ ScopesNameTargets
  <1>1. ScopeInit => Inv
    BY DictionaryAssumption
    DEF ScopeInit, SweepInit, NoResult, ScopesNameTargets, HasScopes
  <1>2. Inv /\ [ScopeNext]_scopeVars => Inv'
    <2>1. SUFFICES ASSUME Inv, [ScopeNext]_scopeVars PROVE Inv'
      OBVIOUS
    <2>2. version' = version
      BY <2>1, DictionaryStays
    <2>3. CASE result' = result
      BY <2>1, <2>2, <2>3
      DEF IsDictionary, ScopesNameTargets, HasScopes, ListModuleVersions,
          GhostFallbacks, Vid, Covers, IsGhost, LatestPrior, Prior, Supersedes,
          ModulesOf
    <2>4. CASE result' # result
      BY <2>1, <2>2, <2>4, DictionaryStays, CalculationNamesTargets
      DEF IsDictionary
    <2>5. QED
      BY <2>3, <2>4
  <1>3. QED
    BY <1>1, <1>2, PTL DEF ScopeSpec

\* At a dated release, the members of a scope have between them every table and
\* indicator of the expression and of its gate, unless no version has a table
\* of the expression.
THEOREM ScopesAreSupplied == ScopeSpec => []ScopesSupplyEveryOperand
  <1> DEFINE Inv == IsDictionary(version) /\ ScopesSupplyEveryOperand
  <1>1. ScopeInit => Inv
    BY DictionaryAssumption
    DEF ScopeInit, SweepInit, NoResult, ScopesSupplyEveryOperand, HasScopes
  <1>2. Inv /\ [ScopeNext]_scopeVars => Inv'
    <2>1. SUFFICES ASSUME Inv, [ScopeNext]_scopeVars PROVE Inv'
      OBVIOUS
    <2>2. version' = version
      BY <2>1, DictionaryStays
    <2>3. CASE result' = result
      BY <2>1, <2>2, <2>3
      DEF IsDictionary, ScopesSupplyEveryOperand, HasScopes, Info, Resolve,
          Hosting, ShareAWindow, Vid, Covers, IsGhost, LatestPrior, Prior,
          Supersedes, ModulesOf
    <2>4. CASE result' # result
      BY <2>1, <2>2, <2>4, DictionaryStays, CalculationIsSupplied
      DEF IsDictionary
    <2>5. QED
      BY <2>3, <2>4
  <1>3. QED
    BY <1>1, <1>2, PTL DEF ScopeSpec

LEMMA AloneStays ==
  ASSUME version' = version, result' = result, SelfSufficientStandsAlone
  PROVE  SelfSufficientStandsAlone'
  <1>1. HasScopes' = HasScopes /\ result'.release = result.release
    BY DEF HasScopes
  <1>2. GhostFallbacks(result.release)' = GhostFallbacks(result.release)
    BY DEF GhostFallbacks, Vid, Covers, IsGhost, LatestPrior, Prior, Supersedes,
           ModulesOf
  <1>3. ListModuleVersions(result.release)' = ListModuleVersions(result.release)
    BY <1>2 DEF ListModuleVersions, Vid, Covers, IsGhost
  <1>4. ASSUME NEW v
        PROVE  StandsFor(v, result.release)' = StandsFor(v, result.release)
    BY <1>2 DEF StandsFor, Covers
  <1>5. QED
    BY <1>1, <1>3, <1>4 DEF SelfSufficientStandsAlone

\* A version that the export goes through and that has every operand, as have the
\* ghosts that it stands for, is a scope of its own, and is in no other.
THEOREM SufficientAreAlone == ScopeSpec => []SelfSufficientStandsAlone
  <1> DEFINE Inv == IsDictionary(version) /\ SelfSufficientStandsAlone
  <1>1. ScopeInit => Inv
    BY DictionaryAssumption
    DEF ScopeInit, SweepInit, NoResult, SelfSufficientStandsAlone, HasScopes
  <1>2. Inv /\ [ScopeNext]_scopeVars => Inv'
    <2>1. SUFFICES ASSUME Inv, [ScopeNext]_scopeVars PROVE Inv'
      OBVIOUS
    <2>2. version' = version
      BY <2>1, DictionaryStays
    <2>3. CASE result' = result
      BY <2>1, <2>2, <2>3, AloneStays DEF IsDictionary
    <2>4. CASE result' # result
      BY <2>1, <2>2, <2>4, DictionaryStays, CalculationLeavesAlone
      DEF IsDictionary
    <2>5. QED
      BY <2>3, <2>4
  <1>3. QED
    BY <1>1, <1>2, PTL DEF ScopeSpec
=============================================================================
