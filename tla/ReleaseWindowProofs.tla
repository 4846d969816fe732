------------------------ MODULE ReleaseWindowProofs ------------------------
(***************************************************************************)
(* Proofs about ReleaseWindow, for any set of releases with any dates.     *)
(***************************************************************************)
EXTENDS ReleaseWindow, TLAPS, FiniteSetTheorems, WellFoundedInduction

LEMMA OrderIs ==
  ASSUME NEW r \in ReleaseId
  PROVE  /\ SortOrder(r) \in Nat
         /\ SortOrder(r) <= UndatedSortOrder
         /\ r \in Perpetual <=> SortOrder(r) = UndatedSortOrder
  <1>1. ReleaseDate[r] \in {None} \union 1..MaxDate /\ MaxDate \in Nat
    BY ReleaseAssumption
  <1>2. ReleaseDate[r] = None \/ ReleaseDate[r] \in 1..MaxDate
    BY <1>1
  <1>3. SortOrder(r) \in Nat /\ SortOrder(r) <= UndatedSortOrder
    BY <1>1, <1>2 DEF SortOrder, ComputeSortOrder, UndatedSortOrder
  <1>4. r \in Perpetual <=> SortOrder(r) >= UndatedSortOrder
    BY DEF Perpetual, From, ComputeSortOrder
  <1>5. UndatedSortOrder \in Nat
    BY <1>1 DEF UndatedSortOrder
  <1>6. QED
    BY <1>3, <1>4, <1>5

LEMMA WindowIs ==
  ASSUME NEW start \in ReleaseId, NEW end \in ReleaseId \union {None},
         NEW r \in ReleaseId
  PROVE  InWindow(start, end, r) <=>
           /\ SortOrder(start) <= SortOrder(r)
           /\ \/ end = None
              \/ end \in ReleaseId /\ SortOrder(end) > SortOrder(r)
              \/ end \in Perpetual
  BY DEF InWindow, UpTo, After

\* filter_active_only: the rows it keeps are the rows of the last release.
THEOREM ActiveIsAtTheLast ==
  ASSUME NEW r \in ReleaseId, IsLast(r, ReleaseId),
         NEW start \in ReleaseId, NEW end \in ReleaseId \union {None}
  PROVE  ActiveOnly(end) <=> InWindow(start, end, r)
  <1>1. ASSUME NEW q \in ReleaseId
        PROVE  SortOrder(q) <= SortOrder(r)
    <2>1. q = r \/ Later(r, q)
      BY DEF IsLast
    <2>2. QED
      BY <2>1, OrderIs DEF Later
  <1>2. end \in ReleaseId => ~(SortOrder(end) > SortOrder(r))
    BY <1>1, OrderIs
  <1>3. QED
    BY <1>1, <1>2, WindowIs DEF ActiveOnly

\* _get_valid_release_ids: the releases at which the import asks for the scopes
\* of a validation are those whose window filter finds it.
THEOREM ValidReleasesAreTheWindow ==
  ASSUME NEW start \in ReleaseId, NEW end \in ReleaseId \union {None},
         NEW r \in ReleaseId
  PROVE  r \in ValidReleaseIds(start, end) <=> InWindow(start, end, r)
  <1>1. CASE end = None
    BY <1>1, OrderIs, WindowIs DEF ValidReleaseIds, From
  <1>2. CASE end # None
    <2>1. end \in ReleaseId
      BY <1>2
    <2>2. r \in ValidReleaseIds(start, end) <=>
            \/ SortOrder(r) >= SortOrder(start) /\ SortOrder(r) < SortOrder(end)
            \/ end \in Perpetual /\ r \in Perpetual
      BY <1>2 DEF ValidReleaseIds, From, Before
    <2>3. end \in Perpetual /\ r \notin Perpetual => SortOrder(r) < SortOrder(end)
      BY <2>1, OrderIs DEF UndatedSortOrder
    <2>4. r \in Perpetual => SortOrder(start) <= SortOrder(r)
      BY OrderIs
    <2>5. /\ SortOrder(r) >= SortOrder(start) <=> SortOrder(start) <= SortOrder(r)
          /\ SortOrder(r) < SortOrder(end) <=> SortOrder(end) > SortOrder(r)
      BY <2>1, OrderIs
    <2>6. QED
      BY <1>2, <2>1, <2>2, <2>3, <2>4, <2>5, WindowIs
  <1>3. QED
    BY <1>1, <1>2
-----------------------------------------------------------------------------
\* Finite sets and orders

LEMMA LeastOfNat ==
  ASSUME NEW T \in SUBSET Nat, T # {}
  PROVE  \E n \in T : \A m \in T : n <= m
  <1> DEFINE R == {ss \in Nat \X Nat : ss[1] < ss[2]}
  <1>1. IsWellFoundedOn(R, Nat)
    BY NatLessThanWellFounded DEF OpToRel
  <1>2. \A m, n \in Nat : m < n => <<m, n>> \in R
    OBVIOUS
  <1> HIDE DEF R
  <1>3. PICK n \in T : \A m \in T : ~(<<m, n>> \in R)
    BY <1>1, WFMin
  <1>4. ASSUME NEW m \in T PROVE n <= m
    <2>1. ~(m < n)
      BY <1>2, <1>3
    <2>2. QED
      BY <2>1
  <1>5. QED
    BY <1>4

\* A set of naturals with a bound has a greatest member.
LEMMA GreatestOfNat ==
  ASSUME NEW T \in SUBSET Nat, T # {}, NEW b \in Nat, \A n \in T : n <= b
  PROVE  \E n \in T : \A m \in T : m <= n
  <1> DEFINE D == {b - n : n \in T}
  <1>0. \A n \in T : b - n \in Nat
    OBVIOUS
  <1>1. D \in SUBSET Nat /\ D # {}
    BY <1>0
  <1>2. PICK d \in D : \A e \in D : d <= e
    <2> HIDE DEF D
    <2> QED BY <1>1, LeastOfNat
  <1>3. PICK n \in T : d = b - n
    BY <1>2
  <1>4. \A m \in T : b - m \in D
    OBVIOUS
  <1>5. \A m \in T : m <= n
    BY <1>2, <1>3, <1>4
  <1>6. QED
    BY <1>5

\* R orders S strictly and totally.
Orders(R, S) ==
  /\ \A x \in S : <<x, x>> \notin R
  /\ \A x, y, z \in S : <<x, y>> \in R /\ <<y, z>> \in R => <<x, z>> \in R
  /\ \A x, y \in S : x # y => <<x, y>> \in R \/ <<y, x>> \in R

\* How many come before x.
Below(R, S, x) == {y \in S : <<y, x>> \in R}

LEMMA BelowGrows ==
  ASSUME NEW S, IsFiniteSet(S), NEW R, Orders(R, S),
         NEW x \in S, NEW y \in S, <<x, y>> \in R
  PROVE  Cardinality(Below(R, S, x)) < Cardinality(Below(R, S, y))
  <1>1. IsFiniteSet(Below(R, S, x)) /\ IsFiniteSet(Below(R, S, y))
    BY FS_Subset DEF Below
  <1>2. Below(R, S, x) \subseteq Below(R, S, y)
    BY DEF Orders, Below
  <1>3. x \in Below(R, S, y) /\ x \notin Below(R, S, x)
    BY DEF Orders, Below
  <1>4. /\ Cardinality(Below(R, S, x)) <= Cardinality(Below(R, S, y))
        /\ Cardinality(Below(R, S, x)) # Cardinality(Below(R, S, y))
    BY <1>1, <1>2, <1>3, FS_Subset
  <1>5. QED
    BY <1>1, <1>4, FS_CardinalityType

\* The last of a finite set.
LEMMA LastOfOrder ==
  ASSUME NEW S, IsFiniteSet(S), S # {}, NEW R, Orders(R, S)
  PROVE  \E x \in S : \A y \in S \ {x} : <<y, x>> \in R
  <1> DEFINE rank(x) == Cardinality(Below(R, S, x))
             T == {rank(x) : x \in S}
  <1>1. \A x \in S : IsFiniteSet(Below(R, S, x)) /\ rank(x) <= Cardinality(S)
    BY FS_Subset DEF Below
  <1>2. \A x \in S : rank(x) \in Nat
    BY <1>1, FS_CardinalityType
  <1>3. Cardinality(S) \in Nat
    BY FS_CardinalityType
  <1>4. PICK n \in T : \A m \in T : m <= n
    <2>1. T \in SUBSET Nat /\ T # {} /\ \A m \in T : m <= Cardinality(S)
      BY <1>1, <1>2
    <2> HIDE DEF T
    <2> QED BY <1>3, <2>1, GreatestOfNat
  <1>5. PICK x \in S : n = rank(x)
    BY <1>4
  <1>6. ASSUME NEW y \in S \ {x} PROVE <<y, x>> \in R
    <2>1. CASE <<x, y>> \in R
      <3>1. rank(x) < rank(y)
        BY <2>1, BelowGrows
      <3>2. rank(y) <= rank(x)
        BY <1>4, <1>5
      <3>3. QED
        BY <1>2, <3>1, <3>2
    <2>2. QED
      BY <2>1 DEF Orders
  <1>7. QED
    BY <1>6

\* The ranks of its members number them.
LEMMA RanksAre ==
  ASSUME NEW S, IsFiniteSet(S), NEW R, Orders(R, S),
         NEW rank, rank = [x \in S |-> Cardinality(Below(R, S, x)) + 1]
  PROVE  /\ rank \in Surjection(S, 1..Cardinality(S))
         /\ \A x, y \in S : <<x, y>> \in R => rank[x] < rank[y]
  <1> DEFINE n == Cardinality(S)
  <1>1. n \in Nat
    BY FS_CardinalityType
  <1>2. \A x \in S : rank[x] \in 1..n
    <2> TAKE x \in S
    <2>1. IsFiniteSet(Below(R, S, x)) /\ Below(R, S, x) \subseteq S \ {x}
      BY FS_Subset DEF Below, Orders
    <2>2. IsFiniteSet(S \ {x}) /\ Cardinality(S \ {x}) = n - 1
      BY FS_RemoveElement
    <2>3. Cardinality(Below(R, S, x)) <= n - 1
      BY <2>1, <2>2, FS_Subset
    <2>4. QED
      BY <1>1, <2>1, <2>3, FS_CardinalityType
  <1>3. \A x, y \in S : <<x, y>> \in R => rank[x] < rank[y]
    <2> TAKE x, y \in S
    <2>1. IsFiniteSet(Below(R, S, x)) /\ IsFiniteSet(Below(R, S, y))
      BY FS_Subset DEF Below
    <2>2. QED
      BY <2>1, BelowGrows, FS_CardinalityType
  <1>4. rank \in [S -> 1..n]
    BY <1>2
  <1>5. ASSUME NEW x \in S, NEW y \in S, x # y
        PROVE  rank[x] # rank[y]
    <2>1. <<x, y>> \in R \/ <<y, x>> \in R
      BY <1>5 DEF Orders
    <2>2. rank[x] < rank[y] \/ rank[y] < rank[x]
      BY <1>3, <2>1
    <2>3. QED
      BY <1>1, <1>2, <2>2
  <1>6. rank \in Injection(S, 1..n)
    BY <1>4, <1>5 DEF Injection, IsInjective
  <1>7. IsFiniteSet(1..n) /\ Cardinality(1..n) = Cardinality(S)
    BY <1>1, FS_Interval
  <1>8. QED
    BY <1>3, <1>6, <1>7, FS_Injection

\* A finite set has an enumeration in order.
LEMMA SortedExists ==
  ASSUME NEW S, IsFiniteSet(S), NEW R, Orders(R, S)
  PROVE  \E s \in [1..Cardinality(S) -> S] :
           \A i, j \in DOMAIN s : i < j => <<s[i], s[j]>> \in R
  <1> DEFINE n == Cardinality(S)
             rank == [x \in S |-> Cardinality(Below(R, S, x)) + 1]
  <1>1. n \in Nat
    BY FS_CardinalityType
  <1> HIDE DEF rank
  <1>2. /\ rank \in Surjection(S, 1..n)
        /\ \A x, y \in S : <<x, y>> \in R => rank[x] < rank[y]
    BY RanksAre DEF rank
  <1>3. \A i \in 1..n : \E x \in S : rank[x] = i
    BY <1>2 DEF Surjection
  <1> DEFINE s == [i \in 1..n |-> CHOOSE x \in S : rank[x] = i]
  <1>4. \A i \in 1..n : s[i] \in S /\ rank[s[i]] = i
    BY <1>3
  <1>5. ASSUME NEW i \in 1..n, NEW j \in 1..n, i < j
        PROVE  <<s[i], s[j]>> \in R
    <2>1. s[i] # s[j]
      BY <1>4, <1>5
    <2>2. ~(<<s[j], s[i]>> \in R)
      BY <1>2, <1>4, <1>5
    <2>3. QED
      BY <1>4, <2>1, <2>2 DEF Orders
  <1>6. QED
    BY <1>4, <1>5

\* Such an enumeration has every member.
LEMMA SortedIsOnto ==
  ASSUME NEW S, IsFiniteSet(S), NEW R, Orders(R, S),
         NEW s \in [1..Cardinality(S) -> S],
         \A i, j \in DOMAIN s : i < j => <<s[i], s[j]>> \in R
  PROVE  \A x \in S : \E i \in DOMAIN s : s[i] = x
  <1>1. Cardinality(S) \in Nat
    BY FS_CardinalityType
  <1>2. s \in Injection(1..Cardinality(S), S)
    <2>1. \A i, j \in 1..Cardinality(S) : i < j => s[i] # s[j]
      BY DEF Orders
    <2>2. QED
      BY <1>1, <2>1 DEF Injection, IsInjective
  <1>3. Cardinality(1..Cardinality(S)) = Cardinality(S)
    BY <1>1, FS_Interval
  <1>4. s \in Surjection(1..Cardinality(S), S)
    BY <1>2, <1>3, FS_Injection
  <1>5. QED
    BY <1>4 DEF Surjection

\* The members of a finite set of naturals, by how many are smaller.
LEMMA RanksOfNat ==
  ASSUME NEW S \in SUBSET Nat, IsFiniteSet(S), NEW k \in Nat
  PROVE  /\ {k + Cardinality({y \in S : y < x}) : x \in S}
              = k..(k + Cardinality(S) - 1)
         /\ \A x \in S : Cardinality({y \in S : y < x}) \in Nat
         /\ \A x, y \in S : x < y =>
              Cardinality({z \in S : z < x}) < Cardinality({z \in S : z < y})
  <1> DEFINE n == Cardinality(S)
             R == {p \in S \X S : p[1] < p[2]}
             below(x) == Cardinality({y \in S : y < x})
             rank == [x \in S |-> Cardinality(Below(R, S, x)) + 1]
  <1>1. \A x, y \in S : <<x, y>> \in R <=> x < y
    OBVIOUS
  <1>2. Orders(R, S)
    <2> HIDE DEF R
    <2> QED BY <1>1 DEF Orders
  <1>3. \A x \in S : Below(R, S, x) = {y \in S : y < x}
    <2> HIDE DEF R
    <2> QED BY <1>1 DEF Below
  <1>4. \A x \in S : rank[x] = below(x) + 1
    BY <1>3
  <1>5. n \in Nat /\ \A x \in S : below(x) \in Nat
    <2>1. \A x \in S : IsFiniteSet({y \in S : y < x})
      BY FS_Subset
    <2>2. QED
      BY <2>1, FS_CardinalityType
  <1>6. /\ rank \in Surjection(S, 1..n)
        /\ \A x, y \in S : <<x, y>> \in R => rank[x] < rank[y]
    <2> HIDE DEF R
    <2> QED BY <1>2, RanksAre
  <1> HIDE DEF R, rank, below, n
  <1>7. ASSUME NEW x \in S, NEW y \in S, x < y
        PROVE  below(x) < below(y)
    <2>1. rank[x] < rank[y]
      BY <1>1, <1>6, <1>7
    <2>2. /\ rank[x] = below(x) + 1 /\ rank[y] = below(y) + 1
          /\ below(x) \in Nat /\ below(y) \in Nat
      BY <1>4, <1>5
    <2>3. QED
      BY <2>1, <2>2
  <1>8. \A x \in S : k + below(x) \in k..(k + n - 1)
    <2> TAKE x \in S
    <2>1. rank[x] \in 1..n
      BY <1>6 DEF Surjection
    <2>2. QED
      BY <1>4, <1>5, <2>1
  <1>9. ASSUME NEW i \in k..(k + n - 1)
        PROVE  \E x \in S : i = k + below(x)
    <2>1. i - k + 1 \in 1..n
      BY <1>5
    <2>2. PICK x \in S : rank[x] = i - k + 1
      BY <1>6, <2>1 DEF Surjection
    <2>3. i = k + below(x)
      BY <1>4, <1>5, <2>2
    <2>4. QED
      BY <2>3
  <1>10. {k + below(x) : x \in S} = k..(k + n - 1)
    BY <1>8, <1>9
  <1>11. QED
    BY <1>5, <1>7, <1>10 DEF below, n

\* A finite set of naturals has a greatest member.
LEMMA GreatestOfFinite ==
  ASSUME NEW S \in SUBSET Nat, IsFiniteSet(S), S # {}
  PROVE  \E n \in S : \A m \in S : m <= n
  <1> DEFINE R == {p \in S \X S : p[1] < p[2]}
  <1>1. \A x, y \in S : <<x, y>> \in R <=> x < y
    OBVIOUS
  <1> HIDE DEF R
  <1>2. Orders(R, S)
    BY <1>1 DEF Orders
  <1>3. PICK n \in S : \A m \in S \ {n} : <<m, n>> \in R
    BY <1>2, LastOfOrder
  <1>4. ASSUME NEW m \in S PROVE m <= n
    <2>1. m = n \/ m < n
      BY <1>1, <1>3
    <2>2. QED
      BY <2>1
  <1>5. QED
    BY <1>4
=============================================================================
