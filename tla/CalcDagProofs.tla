--------------------------- MODULE CalcDagProofs ---------------------------
(***************************************************************************)
(* Proofs about CalcDag, for any set of cells and any finite scripts over  *)
(* them.                                                                   *)
(***************************************************************************)
EXTENDS CalcDag, TLAPS, FiniteSetTheorems, SequenceTheorems,
        WellFoundedInduction

\* The statements still to be sorted.
Unsorted == {n \in Nodes : indegree[n] > 0}

\* A statement is queued once or sorted once, and is if it waits for nothing.
Once ==
  /\ \A i, j \in 1..Len(order) : order[i] = order[j] => i = j
  /\ \A i, j \in 1..Len(queue) : queue[i] = queue[j] => i = j
  /\ \A i \in 1..Len(order), j \in 1..Len(queue) : order[i] # queue[j]
SortedIsFree == \A i \in 1..Len(order) : indegree[order[i]] = 0
FreeIsListed ==
  \A n \in Nodes : indegree[n] = 0 =>
    \/ \E i \in 1..Len(order) : order[i] = n
    \/ \E i \in 1..Len(queue) : queue[i] = n

\* What the sort has done so far, and what its end means.
SortInv ==
  /\ TypeOK
  /\ KahnInv
  /\ Once
  /\ SortedIsFree
  /\ FreeIsListed

\* A script that is exported after the check has one writer for each cell.
SingleWriters == (phase = "done" /\ overwriting) => ~Overwritten

\* How a script is exported.
EndInv ==
  /\ phase = "sort" => children = AsWritten
  /\ phase = "done" => /\ Len(order) = Size
                       /\ children = IF HasEdges THEN order ELSE AsWritten
  /\ SingleWriters

\* Where the walk has been leads to where it is.
Walking == phase \in {"walk", "6-4"}
WalkInv ==
  /\ Walking => /\ producer \in [Unsorted -> Unsorted]
                /\ \A b \in Unsorted : Edge(producer[b], b)
                /\ node \in Unsorted
                /\ met \subseteq Unsorted
                /\ \A x \in met : NeedsInTheEnd(producer[x], node)
  /\ phase = "6-4" => node \in met

Inv == SortInv /\ EndInv /\ WalkInv

-----------------------------------------------------------------------------
\* Facts about the graph and about the sequences in the order of the script

LEMMA UpTo ==
  ASSUME NEW k \in Nat
  PROVE  IsFiniteSet(1..k) /\ Cardinality(1..k) = k
  BY FS_Interval

LEMMA NodesAre ==
  ASSUME script \in Scripts
  PROVE  /\ Size \in Nat
         /\ Nodes = 1..Size
         /\ Nodes \subseteq Nat
         /\ IsFiniteSet(Nodes)
         /\ Cardinality(Nodes) = Size
         /\ \A n \in Nodes : script[n] \in Statement
  <1>1. script \in Seq(Statement)
    BY ScriptsAssumption
  <1>2. Size \in Nat /\ Nodes = 1..Size /\ \A n \in Nodes : script[n] \in Statement
    BY <1>1, LenProperties, ElementOfSeq DEF Size, Nodes
  <1>3. IsFiniteSet(1..Size) /\ Cardinality(1..Size) = Size
    BY <1>2, UpTo
  <1>4. QED
    BY <1>2, <1>3

LEMMA PendingIs ==
  ASSUME script \in Scripts, NEW b \in Nodes
  PROVE  /\ Pending(b) \subseteq Producers(b)
         /\ Producers(b) \subseteq Nodes
         /\ IsFiniteSet(Pending(b))
         /\ Cardinality(Pending(b)) \in Nat
  <1>1. Pending(b) \subseteq Producers(b) /\ Producers(b) \subseteq Nodes
    BY DEF Pending, Producers
  <1>2. IsFiniteSet(Pending(b))
    BY <1>1, NodesAre, FS_Subset
  <1>3. QED
    BY <1>1, <1>2, FS_CardinalityType

LEMMA EdgeIsNeed ==
  ASSUME script \in Scripts, NEW a \in Nodes, NEW b \in Nodes
  PROVE  Edge(a, b) <=> Needs(b, a)
  <1>1. script[a].writes \subseteq Cell
    BY NodesAre DEF Statement
  <1>2. QED
    BY <1>1 DEF Edge, Needs

\* A sequence of InOrder(S) has every element of S once.
LEMMA InOrderLists ==
  ASSUME NEW S, S \subseteq Nat, IsFiniteSet(S), NEW s \in InOrder(S)
  PROVE  /\ s \in Seq(S)
         /\ \A i \in 1..Len(s) : s[i] \in S
         /\ \A i, j \in 1..Len(s) : s[i] = s[j] => i = j
         /\ \A x \in S : \E i \in 1..Len(s) : s[i] = x
  <1> DEFINE k == Cardinality(S)
  <1>1. k \in Nat
    BY FS_CardinalityType
  <1>2. s \in [1..k -> S] /\ \A i, j \in 1..k : i < j => s[i] < s[j]
    BY DEF InOrder
  <1>3. s \in Seq(S) /\ Len(s) = k
    BY <1>1, <1>2, SeqDef
  <1>4. \A i, j \in 1..k : s[i] = s[j] => i = j
    <2>1. SUFFICES ASSUME NEW i \in 1..k, NEW j \in 1..k, s[i] = s[j], i # j
                   PROVE FALSE
      OBVIOUS
    <2>2. i < j \/ j < i
      BY <2>1, <1>1
    <2>3. s[i] \in Nat /\ s[j] \in Nat
      BY <1>2
    <2>4. s[i] < s[j] \/ s[j] < s[i]
      BY <2>2, <1>2
    <2>5. QED
      BY <2>1, <2>3, <2>4
  <1>5. s \in Injection(1..k, S)
    BY <1>2, <1>4 DEF Injection, IsInjective
  <1>6. Cardinality(1..k) = k
    BY <1>1, UpTo
  <1>7. s \in Surjection(1..k, S)
    BY <1>5, <1>6, FS_Injection
  <1>8. QED
    BY <1>2, <1>3, <1>4, <1>7 DEF Surjection

\* The sets of elements below an element have a smallest one: the empty set.
LEMMA LeastExists ==
  ASSUME NEW S, S \subseteq Nat, IsFiniteSet(S), S # {}
  PROVE  \E n \in S : \A m \in S : n <= m
  <1> DEFINE Below(n) == {m \in S : m < n}
             T == {Below(n) : n \in S}
  <1>1. T \subseteq FiniteSubsetsOf(S) /\ T # {}
    <2>1. ASSUME NEW n \in S PROVE Below(n) \in SUBSET S /\ IsFiniteSet(Below(n))
      BY FS_Subset
    <2>2. QED
      BY <2>1 DEF FiniteSubsetsOf
  <1>2. PICK U \in T : \A V \in T : <<V, U>> \notin StrictSubsetOrdering(S)
    BY <1>1, FS_StrictSubsetOrderingWellFounded, WFMin
  <1>3. PICK n \in S : U = Below(n)
    OBVIOUS
  <1>4. ASSUME NEW m \in S, m < n PROVE FALSE
    <2>1. Below(m) \in T /\ Below(m) \subseteq Below(n)
      <3>1. ASSUME NEW x \in S, x < m PROVE x < n
        <4>1. x \in Nat /\ m \in Nat /\ n \in Nat
          OBVIOUS
        <4>2. QED
          BY <1>4, <3>1, <4>1
      <3>2. QED
        BY <3>1
    <2>2. m \in Below(n) /\ m \notin Below(m)
      BY <1>4
    <2>3. <<Below(m), Below(n)>> \in StrictSubsetOrdering(S)
      BY <2>1, <2>2 DEF StrictSubsetOrdering
    <2>4. QED
      BY <1>2, <1>3, <2>1, <2>3
  <1>5. QED
    BY <1>4

-----------------------------------------------------------------------------
\* Initially

LEMMA InitInv == Init => Inv
  <1> SUFFICES ASSUME Init PROVE Inv
    OBVIOUS
  <1>1. script \in Scripts /\ phase = "sort" /\ order = <<>> /\ met = {}
    BY DEF Init
  <1> DEFINE ready == {n \in Nodes : indegree[n] = 0}
  <1>2. ready \subseteq Nat /\ IsFiniteSet(ready)
    BY <1>1, NodesAre, FS_Subset
  <1>3. /\ queue \in Seq(ready)
        /\ \A i \in 1..Len(queue) : queue[i] \in ready
        /\ \A i, j \in 1..Len(queue) : queue[i] = queue[j] => i = j
        /\ \A x \in ready : \E i \in 1..Len(queue) : queue[i] = x
    BY <1>2, InOrderLists DEF Init
  <1>4. Len(order) = 0 /\ 1..Len(order) = {}
    BY <1>1
  <1>5. ASSUME NEW b \in Nodes
        PROVE  /\ Pending(b) = Producers(b)
               /\ indegree[b] = Cardinality(Pending(b))
               /\ indegree[b] \in Nat
    <2>1. Pending(b) = Producers(b)
      BY <1>4 DEF Pending
    <2>2. QED
      BY <1>1, <2>1, PendingIs DEF Init
  <1>6. TypeOK
    <2>1. indegree \in [Nodes -> Nat]
      BY <1>5 DEF Init
    <2>2. queue \in Seq(Nodes)
      BY <1>3, SeqMonotonic, ready \subseteq Nodes
    <2>3. order \in Seq(Nodes)
      BY <1>1, EmptySeq
    <2>4. children \in Seq(Nodes)
      <3>1. children \in [1..Size -> Nodes] /\ Size \in Nat
        BY <1>1, NodesAre DEF Init, AsWritten
      <3>2. QED
        BY <3>1, SeqDef
    <2>5. QED
      BY <1>1, <2>1, <2>2, <2>3, <2>4 DEF Init, TypeOK
  <1>7. KahnInv
    BY <1>3, <1>4, <1>5 DEF KahnInv
  <1>8. Once /\ SortedIsFree
    BY <1>3, <1>4 DEF Once, SortedIsFree
  <1>9. FreeIsListed
    BY <1>3 DEF FreeIsListed
  <1>10. EndInv /\ WalkInv
    BY <1>1 DEF Init, EndInv, WalkInv, Walking, SingleWriters
  <1>11. QED
    BY <1>6, <1>7, <1>8, <1>9, <1>10 DEF Inv, SortInv

-----------------------------------------------------------------------------
\* A round of the sort

\* Where a sequence with its head taken off and one appended has its elements.
LEMMA TailThen ==
  ASSUME NEW S, NEW q \in Seq(S), q # <<>>, NEW s \in Seq(S)
  PROVE  LET t == Tail(q) \o s
             k == Len(q) - 1
         IN /\ t \in Seq(S)
            /\ k \in Nat
            /\ Len(s) \in Nat
            /\ Len(t) = k + Len(s)
            /\ \A i \in 1..k : t[i] = q[i + 1]
            /\ \A i \in 1..Len(s) : t[k + i] = s[i]
  <1>1. /\ Tail(q) \in Seq(S)
        /\ Len(Tail(q)) = Len(q) - 1
        /\ \A i \in 1..Len(Tail(q)) : Tail(q)[i] = q[i + 1]
    BY HeadTailProperties
  <1>2. Len(Tail(q)) \in Nat /\ Len(s) \in Nat
    BY <1>1, LenProperties
  <1>3. /\ Tail(q) \o s \in Seq(S)
        /\ Len(Tail(q) \o s) = Len(Tail(q)) + Len(s)
        /\ \A i \in 1..Len(Tail(q)) + Len(s) : (Tail(q) \o s)[i] =
             IF i <= Len(Tail(q)) THEN Tail(q)[i] ELSE s[i - Len(Tail(q))]
    BY <1>1, ConcatProperties
  <1>4. ASSUME NEW i \in 1..Len(Tail(q))
        PROVE  (Tail(q) \o s)[i] = q[i + 1]
    BY <1>1, <1>2, <1>3
  <1>5. ASSUME NEW i \in 1..Len(s)
        PROVE  (Tail(q) \o s)[Len(Tail(q)) + i] = s[i]
    <2>1. Len(Tail(q)) + i \in 1..Len(Tail(q)) + Len(s)
      BY <1>2
    <2>2. ~(Len(Tail(q)) + i <= Len(Tail(q)))
      BY <1>2
    <2>3. (Len(Tail(q)) + i) - Len(Tail(q)) = i
      BY <1>2
    <2>4. QED
      BY <1>3, <2>1, <2>2, <2>3
  <1>6. QED
    BY <1>1, <1>2, <1>3, <1>4, <1>5

LEMMA PopInv == SortInv /\ Pop => SortInv'
  <1> SUFFICES ASSUME SortInv, Pop PROVE SortInv'
    OBVIOUS
  <1> DEFINE n == Head(queue)
             freed == {m \in Nodes : Edge(n, m) /\ indegree[m] = 1}
             k == Len(queue) - 1
  <1>1. /\ script \in Scripts /\ script' = script
        /\ indegree \in [Nodes -> Nat]
        /\ queue \in Seq(Nodes) /\ queue # <<>>
        /\ order \in Seq(Nodes)
    BY DEF SortInv, TypeOK, Pop
  <1>2. PICK s \in InOrder(freed) : queue' = Tail(queue) \o s
    BY DEF Pop
  <1>3. /\ Nodes' = Nodes /\ Size' = Size
        /\ \A a, b \in Nodes : Edge(a, b)' <=> Edge(a, b)
        /\ \A b \in Nodes : Producers(b)' = Producers(b)
    BY <1>1 DEF Nodes, Size, Edge, Producers
  \* The statement that is sorted.
  <1>4. /\ n \in Nodes
        /\ Len(queue) \in Nat \ {0}
        /\ n = queue[1]
        /\ indegree[n] = 0
        /\ \A i \in 1..Len(order) : order[i] # n
    <2>1. n \in Nodes /\ Len(queue) \in Nat \ {0}
      BY <1>1, HeadTailProperties, EmptySeq
    <2>2. n = queue[1] /\ 1 \in 1..Len(queue)
      BY <1>1, <2>1
    <2>3. QED
      BY <2>1, <2>2 DEF SortInv, KahnInv, Once
  \* A statement that waits for nothing does not wait for it.
  <1>5. ASSUME NEW m \in Nodes, indegree[m] = 0
        PROVE  ~Edge(n, m)
    <2>1. Pending(m) = {}
      BY <1>1, <1>5, PendingIs, FS_EmptySet DEF SortInv, KahnInv
    <2>2. QED
      BY <1>4, <2>1 DEF Pending, Producers
  <1>6. /\ s \in Seq(Nodes)
        /\ \A i \in 1..Len(s) : s[i] \in freed
        /\ \A i, j \in 1..Len(s) : s[i] = s[j] => i = j
        /\ \A x \in freed : \E i \in 1..Len(s) : s[i] = x
    <2>1. freed \subseteq Nat /\ IsFiniteSet(freed)
      BY <1>1, NodesAre, FS_Subset
    <2>2. s \in Seq(freed)
      BY <2>1, InOrderLists
    <2>3. s \in Seq(Nodes)
      BY <2>2, SeqMonotonic, freed \subseteq Nodes
    <2>4. QED
      BY <2>1, <2>3, InOrderLists
  <1>7. /\ queue' \in Seq(Nodes)
        /\ k \in Nat
        /\ Len(s) \in Nat
        /\ Len(queue') = k + Len(s)
        /\ \A i \in 1..k : queue'[i] = queue[i + 1]
        /\ \A i \in 1..Len(s) : queue'[k + i] = s[i]
    BY <1>1, <1>2, <1>6, TailThen
  \* An element of the new queue was behind the head or has been freed.
  <1>8. ASSUME NEW i \in 1..Len(queue')
        PROVE  \/ /\ i \in 1..k
                  /\ i + 1 \in 1..Len(queue)
                  /\ queue'[i] = queue[i + 1]
                  /\ indegree[queue'[i]] = 0
               \/ /\ i - k \in 1..Len(s)
                  /\ queue'[i] = s[i - k]
                  /\ Edge(n, queue'[i])
                  /\ indegree[queue'[i]] = 1
    <2>1. CASE i <= k
      <3>1. i \in 1..k /\ i + 1 \in 1..Len(queue)
        BY <1>4, <1>7, <2>1
      <3>2. QED
        BY <1>7, <3>1 DEF SortInv, KahnInv
    <2>2. CASE ~(i <= k)
      <3>1. i - k \in 1..Len(s) /\ k + (i - k) = i
        BY <1>7, <2>2
      <3>2. queue'[i] = s[i - k]
        BY <1>7, <3>1
      <3>3. QED
        BY <1>6, <3>1, <3>2
    <2>3. QED
      BY <2>1, <2>2
  <1>9. /\ order' \in Seq(Nodes)
        /\ Len(order) \in Nat
        /\ Len(order') = Len(order) + 1
        /\ \A i \in 1..Len(order) : order'[i] = order[i]
        /\ order'[Len(order) + 1] = n
    BY <1>1, <1>4 DEF Pop
  <1>10. \A i \in 1..Len(order') : \/ i \in 1..Len(order) /\ order'[i] = order[i]
                                   \/ i = Len(order) + 1 /\ order'[i] = n
    BY <1>9
  <1>11. /\ indegree' = [m \in Nodes |-> IF Edge(n, m) THEN indegree[m] - 1
                                                       ELSE indegree[m]]
    BY DEF Pop
  <1>12. ASSUME NEW b \in Nodes
         PROVE  /\ Pending(b)' = Pending(b) \ {n}
                /\ indegree'[b] = Cardinality(Pending(b)')
                /\ indegree'[b] \in Nat
    <2>1. Pending(b)' = Pending(b) \ {n}
      <3>1. ASSUME NEW a
            PROVE  a \in Pending(b)' <=> a \in Pending(b) /\ a # n
        <4>1. (\A i \in 1..Len(order') : order'[i] # a)
                <=> (\A i \in 1..Len(order) : order[i] # a) /\ a # n
          BY <1>9, <1>10
        <4>2. QED
          BY <1>3, <4>1 DEF Pending
      <3>2. QED
        BY <3>1
    <2>2. n \in Pending(b) <=> Edge(n, b)
      BY <1>4 DEF Pending, Producers
    <2>3. indegree[b] = Cardinality(Pending(b))
      BY DEF SortInv, KahnInv
    <2>4. /\ IsFiniteSet(Pending(b))
          /\ Pending(b) = {} <=> indegree[b] = 0
          /\ Cardinality(Pending(b)) \in Nat
      BY <1>1, <2>3, PendingIs, FS_EmptySet
    <2>5. Cardinality(Pending(b) \ {n}) =
            IF n \in Pending(b) THEN Cardinality(Pending(b)) - 1
                                ELSE Cardinality(Pending(b))
      BY <2>4, FS_RemoveElement
    <2>6. indegree'[b] = Cardinality(Pending(b) \ {n})
      BY <1>11, <2>2, <2>3, <2>5
    <2>7. indegree'[b] \in Nat
      BY <1>11, <2>2, <2>3, <2>4
    <2>8. QED
      BY <2>1, <2>6, <2>7
  <1>13. TypeOK'
    <2>1. indegree' \in [Nodes -> Nat]
      BY <1>11, <1>12
    <2>2. QED
      BY <1>1, <1>3, <1>7, <1>9, <2>1 DEF SortInv, TypeOK, Pop, walkVars
  <1>14. SortedIsFree'
    <2>1. ASSUME NEW i \in 1..Len(order') PROVE indegree'[order'[i]] = 0
      <3>1. order'[i] \in Nodes /\ indegree[order'[i]] = 0
        BY <1>1, <1>4, <1>10, ElementOfSeq DEF SortInv, SortedIsFree
      <3>2. QED
        BY <1>5, <1>11, <3>1
    <2>2. QED
      BY <2>1 DEF SortedIsFree
  <1>15. KahnInv'
    <2>1. \A b \in Nodes' : indegree'[b] = Cardinality(Pending(b)')
      BY <1>3, <1>12
    <2>2. ASSUME NEW i \in 1..Len(queue') PROVE indegree'[queue'[i]] = 0
      <3>1. queue'[i] \in Nodes
        BY <1>7, ElementOfSeq
      <3>2. QED
        BY <1>5, <1>8, <1>11, <3>1
    <2>3. ASSUME NEW i \in 1..Len(order'), NEW j \in 1..Len(order'),
                 Edge(order[i], order[j])'
          PROVE  i < j
      <3>1. Edge(order'[i], order'[j])
        BY <1>1, <2>3 DEF Edge
      <3>2. CASE i \in 1..Len(order) /\ j \in 1..Len(order)
        BY <1>9, <3>1, <3>2 DEF SortInv, KahnInv
      <3>3. CASE i \in 1..Len(order) /\ j = Len(order) + 1
        BY <1>9, <3>3
      <3>4. CASE order'[i] = n
        <4>1. order'[j] \in Nodes /\ indegree[order'[j]] = 0
          BY <1>1, <1>4, <1>10, ElementOfSeq DEF SortInv, SortedIsFree
        <4>2. QED
          BY <1>5, <3>1, <3>4, <4>1
      <3>5. QED
        BY <1>10, <3>2, <3>3, <3>4
    <2>4. QED
      BY <2>1, <2>2, <2>3 DEF KahnInv
  <1>16. Once'
    <2>1. \A i, j \in 1..Len(order') : order'[i] = order'[j] => i = j
      BY <1>4, <1>10 DEF SortInv, Once
    <2>2. ASSUME NEW i \in 1..Len(queue'), NEW j \in 1..Len(queue'),
                 queue'[i] = queue'[j]
          PROVE  i = j
      <3>1. CASE indegree[queue'[i]] = 0
        <4>1. i + 1 = j + 1
          BY <1>8, <2>2, <3>1 DEF SortInv, Once
        <4>2. QED
          BY <1>7, <4>1
      <3>2. CASE indegree[queue'[i]] = 1
        <4>1. /\ i - k \in 1..Len(s) /\ queue'[i] = s[i - k]
              /\ j - k \in 1..Len(s) /\ queue'[j] = s[j - k]
          <5>1. indegree[queue'[i]] # 0 /\ indegree[queue'[j]] # 0
            BY <2>2, <3>2
          <5>2. QED
            BY <1>8, <5>1
        <4>2. s[i - k] = s[j - k]
          BY <2>2, <4>1
        <4>3. i - k = j - k
          BY <1>6, <4>1, <4>2
        <4>4. QED
          BY <1>7, <4>3
      <3>3. QED
        BY <1>8, <3>1, <3>2
    <2>3. ASSUME NEW i \in 1..Len(order'), NEW j \in 1..Len(queue'),
                 order'[i] = queue'[j]
          PROVE  FALSE
      <3>1. indegree[order'[i]] = 0
        BY <1>4, <1>10 DEF SortInv, SortedIsFree
      <3>2. j \in 1..k /\ j + 1 \in 1..Len(queue) /\ queue'[j] = queue[j + 1]
        BY <1>8, <2>3, <3>1
      <3>3. CASE i \in 1..Len(order) /\ order'[i] = order[i]
        BY <2>3, <3>2, <3>3 DEF SortInv, Once
      <3>4. CASE order'[i] = n
        <4>1. 1 \in 1..Len(queue) /\ j + 1 # 1
          BY <1>4, <3>2
        <4>2. QED
          BY <1>4, <2>3, <3>2, <3>4, <4>1 DEF SortInv, Once
      <3>5. QED
        BY <1>10, <3>3, <3>4
    <2>4. QED
      BY <2>1, <2>2, <2>3 DEF Once
  <1>17. FreeIsListed'
    <2>1. ASSUME NEW m \in Nodes, indegree'[m] = 0
          PROVE  \/ \E i \in 1..Len(order') : order'[i] = m
                 \/ \E i \in 1..Len(queue') : queue'[i] = m
      <3>1. CASE Edge(n, m)
        <4>1. m \in freed
          BY <1>1, <1>11, <2>1, <3>1
        <4>2. PICK i \in 1..Len(s) : s[i] = m
          BY <1>6, <4>1
        <4>3. k + i \in 1..Len(queue') /\ queue'[k + i] = m
          BY <1>7, <4>2
        <4>4. QED
          BY <4>3
      <3>2. CASE ~Edge(n, m)
        <4>1. indegree[m] = 0
          BY <1>11, <2>1, <3>2
        <4>2. CASE \E i \in 1..Len(order) : order[i] = m
          BY <1>9, <4>2
        <4>3. CASE \E i \in 1..Len(queue) : queue[i] = m
          <5>1. PICK i \in 1..Len(queue) : queue[i] = m
            BY <4>3
          <5>2. CASE i = 1
            <6>1. Len(order) + 1 \in 1..Len(order')
              BY <1>9
            <6>2. order'[Len(order) + 1] = m
              BY <1>4, <1>9, <5>1, <5>2
            <6>3. QED
              BY <6>1, <6>2
          <5>3. CASE i # 1
            <6>1. i - 1 \in 1..k /\ i - 1 \in 1..Len(queue') /\ (i - 1) + 1 = i
              BY <1>4, <1>7, <5>3
            <6>2. queue'[i - 1] = m
              BY <1>7, <5>1, <6>1
            <6>3. QED
              BY <6>1, <6>2
          <5>4. QED
            BY <5>2, <5>3
        <4>4. QED
          BY <4>1, <4>2, <4>3 DEF SortInv, FreeIsListed
      <3>3. QED
        BY <3>1, <3>2
    <2>2. QED
      BY <1>3, <2>1 DEF FreeIsListed
  <1>18. QED
    BY <1>13, <1>14, <1>15, <1>16, <1>17 DEF SortInv

-----------------------------------------------------------------------------
\* The end of the sort, and the walk

\* What the sort has done stays true when nothing of it changes.
LEMMA SortStays ==
  ASSUME SortInv, UNCHANGED <<script, sortVars>>, TypeOK'
  PROVE  SortInv'
  <1>1. KahnInv'
    BY ZenonT(40) DEF SortInv, KahnInv, Pending, Producers, Nodes, Edge, sortVars
  <1>2. Once' /\ SortedIsFree'
    BY DEF SortInv, Once, SortedIsFree, sortVars
  <1>3. FreeIsListed'
    BY DEF SortInv, FreeIsListed, Nodes, sortVars
  <1>4. QED
    BY <1>1, <1>2, <1>3 DEF SortInv

LEMMA FinishInv == SortInv /\ EndInv /\ Finish => SortInv' /\ EndInv'
  <1> SUFFICES ASSUME SortInv, EndInv, Finish PROVE SortInv' /\ EndInv'
    OBVIOUS
  <1>1. /\ script' = script /\ order' = order
        /\ HasEdges' = HasEdges /\ AsWritten' = AsWritten /\ Size' = Size
        /\ Nodes' = Nodes /\ Overwritten' = Overwritten
    BY DEF Finish, sortVars, HasEdges, Nodes, Edge, AsWritten, Size, Overwritten
  <1>2. children' = order \/ children' = children
    BY DEF Finish
  <1>3. TypeOK'
    BY <1>1, <1>2 DEF SortInv, TypeOK, Finish, sortVars, walkVars, Ending
  <1>4. SortInv'
    BY <1>3, SortStays DEF Finish
  <1>5. EndInv'
    BY <1>1 DEF Finish, EndInv, SingleWriters
  <1>6. QED
    BY <1>4, <1>5

\* Somebody is left to start at: otherwise every statement would be sorted.
LEMMA SomeUnsorted ==
  ASSUME SortInv, queue = <<>>, Len(order) # Size
  PROVE  /\ Unsorted # {}
         /\ \E n \in Unsorted : \A m \in Unsorted : n <= m
  <1>1. /\ order \in Seq(Nodes) /\ order \in [1..Len(order) -> Nodes]
        /\ Len(order) \in Nat
        /\ script \in Scripts
    BY LenProperties DEF SortInv, TypeOK
  <1>2. ASSUME Unsorted = {} PROVE FALSE
    <2>1. \A n \in Nodes : indegree[n] = 0
      BY <1>2 DEF Unsorted, SortInv, TypeOK
    <2>2. \A n \in Nodes : \E i \in 1..Len(order) : order[i] = n
      <3>1. Len(queue) = 0
        OBVIOUS
      <3>2. QED
        BY <2>1, <3>1 DEF SortInv, FreeIsListed
    <2>3. order \in Surjection(1..Len(order), Nodes)
      BY <1>1, <2>2 DEF Surjection
    <2>4. order \in Injection(1..Len(order), Nodes)
      BY <1>1 DEF Injection, IsInjective, SortInv, Once
    <2>5. Cardinality(1..Len(order)) = Cardinality(Nodes)
      BY <1>1, <2>3, <2>4, NodesAre, FS_Injection
    <2>6. Cardinality(1..Len(order)) = Len(order)
      BY <1>1, UpTo
    <2>7. QED
      BY <1>1, <2>5, <2>6, NodesAre
  <1>3. Unsorted \subseteq Nat /\ IsFiniteSet(Unsorted)
    BY <1>1, NodesAre, FS_Subset DEF Unsorted
  <1>4. QED
    BY <1>2, <1>3, LeastExists

LEMMA StartWalkInv ==
  SortInv /\ StartWalk => SortInv' /\ EndInv' /\ WalkInv'
  <1> SUFFICES ASSUME SortInv, StartWalk PROVE SortInv' /\ EndInv' /\ WalkInv'
    OBVIOUS
  <1>1. /\ Unsorted' = Unsorted
        /\ \A a, b : Edge(a, b)' <=> Edge(a, b)
    BY DEF StartWalk, sortVars, Unsorted, Nodes, Edge
  <1>2. TypeOK'
    BY DEF SortInv, TypeOK, StartWalk, sortVars, walkVars, Nodes
  <1>3. SortInv'
    BY <1>2, SortStays DEF StartWalk
  <1>4. EndInv'
    BY DEF StartWalk, EndInv, SingleWriters
  <1>5. node' \in Unsorted
    BY SomeUnsorted DEF StartWalk, Unsorted
  <1>6. /\ producer' \in [Unsorted -> Unsorted]
        /\ \A b \in Unsorted : Edge(producer'[b], b)
    BY DEF StartWalk, Unsorted
  <1>7. met' = {} /\ phase' = "walk"
    BY DEF StartWalk
  <1>8. QED
    BY <1>1, <1>3, <1>4, <1>5, <1>6, <1>7 DEF WalkInv

LEMMA WalkStepInv == Inv /\ Walk => Inv'
  <1> SUFFICES ASSUME Inv, Walk PROVE Inv'
    OBVIOUS
  <1>1. /\ Unsorted' = Unsorted
        /\ Nodes' = Nodes
        /\ script' = script
        /\ phase = "walk" /\ phase' = "walk"
        /\ producer' = producer
        /\ node' = producer[node]
        /\ met' = met \union {node}
    BY DEF Walk, sortVars, Unsorted, Nodes
  <1>2. /\ producer \in [Unsorted -> Unsorted]
        /\ \A b \in Unsorted : Edge(producer[b], b)
        /\ node \in Unsorted
        /\ met \subseteq Unsorted
        /\ \A x \in met : NeedsInTheEnd(producer[x], node)
    BY <1>1 DEF Inv, WalkInv, Walking
  <1>3. Unsorted \subseteq Nodes
    BY DEF Unsorted
  <1>4. Needs(node, producer[node])
    BY <1>2, <1>3, EdgeIsNeed DEF Inv, SortInv, TypeOK
  <1>5. ASSUME NEW x \in met' PROVE NeedsInTheEnd(producer[x], producer[node])
    <2>1. CASE x = node
      BY <2>1 DEF NeedsInTheEnd
    <2>2. CASE x \in met
      <3>1. SUFFICES ASSUME NEW S \in SUBSET Nodes, producer[x] \in S,
                            \A y \in S, z \in Nodes : Needs(y, z) => z \in S
                     PROVE  producer[node] \in S
        BY DEF NeedsInTheEnd
      <3>2. node \in S
        BY <1>2, <2>2, <3>1 DEF NeedsInTheEnd
      <3>3. producer[node] \in Nodes
        BY <1>2, <1>3
      <3>4. QED
        BY <1>4, <3>1, <3>2, <3>3
    <2>3. QED
      BY <1>1, <2>1, <2>2
  <1>6. TypeOK'
    BY <1>1, <1>2, <1>3 DEF Inv, SortInv, TypeOK, Walk, sortVars
  <1>7. SortInv'
    BY <1>6, SortStays DEF Inv, Walk
  <1>8. EndInv'
    BY <1>1 DEF EndInv, SingleWriters
  <1>9. WalkInv'
    <2>1. (\A x \in met : NeedsInTheEnd(producer[x], node))'
      BY <1>1, <1>5 DEF NeedsInTheEnd, Needs
    <2>2. (\A b \in Unsorted : Edge(producer[b], b))'
      BY <1>1, <1>2 DEF Edge
    <2>3. node' \in Unsorted /\ met' \subseteq Unsorted
      BY <1>1, <1>2
    <2>4. QED
      BY <1>1, <1>2, <2>1, <2>2, <2>3 DEF WalkInv
  <1>10. QED
    BY <1>7, <1>8, <1>9 DEF Inv

LEMMA NameInv == Inv /\ Name => Inv'
  <1> SUFFICES ASSUME Inv, Name PROVE Inv'
    OBVIOUS
  <1>1. /\ UNCHANGED <<script, sortVars, walkVars, children>>
        /\ phase = "walk" /\ phase' = "6-4" /\ node \in met
    BY DEF Name
  <1>2. TypeOK'
    BY DEF Inv, SortInv, TypeOK, Name, sortVars, walkVars, Nodes, Ending
  <1>3. SortInv'
    BY <1>1, <1>2, SortStays DEF Inv
  <1>4. EndInv'
    BY <1>1 DEF EndInv, SingleWriters
  <1>5. WalkInv'
    BY <1>1 DEF Inv, WalkInv, Walking, Unsorted, Nodes, Edge, NeedsInTheEnd,
                Needs, sortVars, walkVars
  <1>6. QED
    BY <1>3, <1>4, <1>5 DEF Inv

LEMMA StutterInv == Inv /\ UNCHANGED vars => Inv'
  <1> SUFFICES ASSUME Inv, UNCHANGED vars PROVE Inv'
    OBVIOUS
  <1> USE DEF vars, sortVars, walkVars
  <1>1. TypeOK'
    BY DEF Inv, SortInv, TypeOK, Nodes
  <1>2. SortInv'
    BY <1>1, SortStays DEF Inv
  <1>3. EndInv'
    BY DEF Inv, EndInv, SingleWriters, Overwritten, HasEdges, Edge,
           AsWritten, Size, Nodes
  <1>4. WalkInv'
    BY DEF Inv, WalkInv, Walking, Unsorted, Nodes, Edge, NeedsInTheEnd, Needs
  <1>5. QED
    BY <1>2, <1>3, <1>4 DEF Inv

LEMMA StepInv == Inv /\ [Next]_vars => Inv'
  <1> SUFFICES ASSUME Inv, [Next]_vars PROVE Inv'
    OBVIOUS
  <1>1. CASE Pop
    <2>1. phase = "sort" /\ phase' = "sort"
      BY <1>1 DEF Pop
    <2>2. children' = children /\ AsWritten' = AsWritten
      BY <1>1 DEF Pop, AsWritten, Size
    <2>3. EndInv' /\ WalkInv'
      BY <2>1, <2>2 DEF Inv, EndInv, WalkInv, Walking, SingleWriters
    <2>4. QED
      BY <1>1, <2>3, PopInv DEF Inv
  <1>2. CASE Finish
    <2>1. WalkInv'
      BY <1>2 DEF Finish, WalkInv, Walking
    <2>2. QED
      BY <1>2, <2>1, FinishInv DEF Inv
  <1>3. CASE StartWalk
    BY <1>3, StartWalkInv DEF Inv
  <1>4. CASE Walk
    BY <1>4, WalkStepInv
  <1>5. CASE Name
    BY <1>5, NameInv
  <1>6. CASE Ended \/ UNCHANGED vars
    BY <1>6, StutterInv DEF Ended
  <1>7. QED
    BY <1>1, <1>2, <1>3, <1>4, <1>5, <1>6 DEF Next

LEMMA AlwaysInv == Spec => []Inv
  BY InitInv, StepInv, PTL DEF Spec

-----------------------------------------------------------------------------
\* What the invariant means

\* Every statement sorted once and every producer first: the exported order.
LEMMA InvOrder == Inv => OrderRespectsReads
  <1> SUFFICES ASSUME Inv, phase = "done"
               PROVE  /\ Len(children) = Size
                      /\ \A n \in Nodes : \E i \in 1..Size : children[i] = n
                      /\ \A i, j \in 1..Size :
                           Needs(children[j], children[i]) => i < j
    BY DEF OrderRespectsReads
  <1>1. /\ script \in Scripts
        /\ order \in Seq(Nodes)
        /\ Len(order) = Size
        /\ children = IF HasEdges THEN order ELSE AsWritten
    BY DEF Inv, SortInv, EndInv, TypeOK
  <1>2. Size \in Nat /\ Nodes = 1..Size /\ Cardinality(Nodes) = Size
        /\ IsFiniteSet(Nodes)
    BY <1>1, NodesAre
  <1>3. CASE HasEdges
    <2>1. children = order /\ order \in [1..Size -> Nodes]
      BY <1>1, <1>3, LenProperties
    <2>2. order \in Injection(1..Size, Nodes)
      BY <1>1, <2>1 DEF Injection, IsInjective, Inv, SortInv, Once
    <2>3. order \in Surjection(1..Size, Nodes)
      BY <1>2, <2>2, FS_Injection
    <2>4. \A n \in Nodes : \E i \in 1..Size : children[i] = n
      BY <2>1, <2>3 DEF Surjection
    <2>5. ASSUME NEW i \in 1..Size, NEW j \in 1..Size,
                 Needs(children[j], children[i])
          PROVE  i < j
      <3>1. order[i] \in Nodes /\ order[j] \in Nodes
        BY <2>1
      <3>2. Edge(order[i], order[j])
        BY <1>1, <2>1, <2>5, <3>1, EdgeIsNeed
      <3>3. QED
        BY <1>1, <3>2 DEF Inv, SortInv, KahnInv
    <2>6. QED
      BY <1>1, <2>1, <2>4, <2>5
  <1>4. CASE ~HasEdges
    <2>1. /\ children = [i \in 1..Size |-> i]
          /\ Len(children) = Size
      BY <1>1, <1>2, <1>4 DEF AsWritten
    <2>2. \A n \in Nodes : \E i \in 1..Size : children[i] = n
      BY <1>2, <2>1
    <2>3. ASSUME NEW i \in 1..Size, NEW j \in 1..Size,
                 Needs(children[j], children[i])
          PROVE  FALSE
      <3>1. Edge(i, j)
        BY <1>1, <1>2, <2>1, <2>3, EdgeIsNeed
      <3>2. QED
        BY <1>2, <1>4, <3>1 DEF HasEdges
    <2>4. QED
      BY <2>1, <2>2, <2>3
  <1>5. QED
    BY <1>3, <1>4

\* Where the walk has been leads back to where it stops.
LEMMA InvNamed == Inv => NamedAreOnCycle
  <1> SUFFICES ASSUME Inv, phase = "6-4"
               PROVE  /\ Needs(node, producer[node])
                      /\ NeedsInTheEnd(producer[node], node)
    BY DEF NamedAreOnCycle
  <1>1. /\ script \in Scripts
        /\ producer \in [Unsorted -> Unsorted] /\ node \in Unsorted
        /\ Edge(producer[node], node)
        /\ NeedsInTheEnd(producer[node], node)
    BY DEF Inv, SortInv, TypeOK, WalkInv, Walking
  <1>2. producer[node] \in Nodes /\ node \in Nodes
    BY <1>1 DEF Unsorted
  <1>3. QED
    BY <1>1, <1>2, EdgeIsNeed

\* With one writer for a cell, what is found there does not depend on the order:
\* the writer has to come before every other statement that reads the cell.
LEMMA FindsIsTheWriter ==
  ASSUME script \in Scripts, ~Overwritten, NEW s \in Admissible,
         NEW n \in Nodes, NEW c \in script[n].reads,
         \A m \in Nodes : \E i \in 1..Size : s[i] = m
  PROVE  Finds(s, n, c) = {a \in Nodes : a # n /\ Writes(a, c)}
  <1>1. Size \in Nat /\ Nodes = 1..Size /\ c \in Cell
    BY NodesAre DEF Statement
  <1>2. /\ s \in [1..Size -> Nodes]
        /\ \A i, j \in 1..Size : s[i] = s[j] => i = j
        /\ \A i, j \in 1..Size : Needs(s[j], s[i]) => i < j
    BY DEF Admissible
  <1>3. ~Before(s, n, n)
    BY <1>1, <1>2 DEF Before
  <1>4. ASSUME NEW a \in Nodes, a # n, Writes(a, c) PROVE Before(s, a, n)
    <2>1. PICK i \in 1..Size : s[i] = a
      OBVIOUS
    <2>2. PICK j \in 1..Size : s[j] = n
      OBVIOUS
    <2>3. Needs(n, a)
      BY <1>1, <1>4 DEF Needs, Writes
    <2>4. QED
      BY <1>2, <2>1, <2>2, <2>3 DEF Before
  <1>5. ASSUME NEW a \in Nodes, a # n, Writes(a, c),
               NEW b \in Nodes, Writes(b, c)
        PROVE  ~Before(s, a, b)
    <2>1. a = b
      BY <1>5 DEF Overwritten, Writes
    <2>2. QED
      BY <1>1, <1>2, <2>1 DEF Before
  <1>6. QED
    BY <1>3, <1>4, <1>5 DEF Finds

LEMMA LeavesIsTheWriter ==
  ASSUME script \in Scripts, ~Overwritten, NEW s \in Admissible, NEW c
  PROVE  Leaves(s, c) = {a \in Nodes : Writes(a, c)}
  <1>1. ASSUME NEW a \in Nodes, Writes(a, c), NEW b \in Nodes, Writes(b, c)
        PROVE  ~Before(s, a, b)
    <2>1. a = b
      BY <1>1 DEF Overwritten, Writes
    <2>2. Size \in Nat /\ \A i, j \in 1..Size : s[i] = s[j] => i = j
      BY NodesAre DEF Admissible
    <2>3. QED
      BY <2>1, <2>2 DEF Before
  <1>2. QED
    BY <1>1 DEF Leaves

\* An order without repetition has every statement.
LEMMA AdmissibleIsOnto ==
  ASSUME script \in Scripts, NEW s \in Admissible
  PROVE  \A n \in Nodes : \E i \in 1..Size : s[i] = n
  <1>1. /\ Size \in Nat /\ Nodes = 1..Size /\ Cardinality(Nodes) = Size
        /\ IsFiniteSet(Nodes)
    BY NodesAre
  <1>2. s \in Injection(1..Size, Nodes)
    BY DEF Admissible, Injection, IsInjective
  <1>3. s \in Surjection(1..Size, Nodes)
    BY <1>1, <1>2, FS_Injection
  <1>4. QED
    BY <1>3 DEF Surjection

\* The exported order is one of those the script could be put in.
LEMMA ExportedIsAdmissible ==
  ASSUME Inv, phase = "done"
  PROVE  children \in Admissible
  <1>1. /\ script \in Scripts
        /\ order \in Seq(Nodes)
        /\ Len(order) = Size
        /\ children = IF HasEdges THEN order ELSE AsWritten
    BY DEF Inv, SortInv, EndInv, TypeOK
  <1>2. Size \in Nat /\ Nodes = 1..Size
    BY <1>1, NodesAre
  <1>3. \A i, j \in 1..Size : Needs(children[j], children[i]) => i < j
    BY InvOrder DEF OrderRespectsReads
  <1>4. CASE HasEdges
    <2>1. children = order /\ order \in [1..Size -> Nodes]
      BY <1>1, <1>4, LenProperties
    <2>2. \A i, j \in 1..Size : children[i] = children[j] => i = j
      BY <1>1, <2>1 DEF Inv, SortInv, Once
    <2>3. QED
      BY <1>3, <2>1, <2>2 DEF Admissible
  <1>5. CASE ~HasEdges
    <2>1. children = [i \in 1..Size |-> i]
      BY <1>1, <1>5 DEF AsWritten
    <2>2. /\ children \in [1..Size -> Nodes]
          /\ \A i, j \in 1..Size : children[i] = children[j] => i = j
      BY <1>2, <2>1
    <2>3. QED
      BY <1>3, <2>2 DEF Admissible
  <1>6. QED
    BY <1>4, <1>5

LEMMA InvResults == Inv => ResultsAreDetermined
  <1> SUFFICES ASSUME Inv, phase = "done", overwriting, NEW s \in Admissible
               PROVE  /\ \A n \in Nodes : \A c \in script[n].reads :
                           Finds(s, n, c) = Finds(children, n, c)
                      /\ \A c \in Cell : Leaves(s, c) = Leaves(children, c)
    BY DEF ResultsAreDetermined
  <1>1. script \in Scripts /\ ~Overwritten
    BY DEF Inv, SortInv, TypeOK, EndInv, SingleWriters
  <1>2. children \in Admissible
    BY ExportedIsAdmissible
  <1>3. ASSUME NEW n \in Nodes, NEW c \in script[n].reads
        PROVE  Finds(s, n, c) = Finds(children, n, c)
    <2>1. Finds(s, n, c) = {a \in Nodes : a # n /\ Writes(a, c)}
      BY <1>1, AdmissibleIsOnto, FindsIsTheWriter
    <2>2. Finds(children, n, c) = {a \in Nodes : a # n /\ Writes(a, c)}
      BY <1>1, <1>2, AdmissibleIsOnto, FindsIsTheWriter
    <2>3. QED
      BY <2>1, <2>2
  <1>4. \A c \in Cell : Leaves(s, c) = Leaves(children, c)
    BY <1>1, <1>2, LeavesIsTheWriter
  <1>5. QED
    BY <1>3, <1>4

-----------------------------------------------------------------------------
\* The theorems

\* _topological_sort keeps its books: an indegree counts the producers not yet
\* sorted, what is queued waits for nothing, and a producer is sorted first.
THEOREM KahnIsRight == Spec => []KahnInv
  <1>1. Inv => KahnInv
    BY DEF Inv, SortInv
  <1>2. QED
    BY <1>1, AlwaysInv, PTL

\* create_dag exports every statement once, after all that write what it reads.
THEOREM OrderIsRight == Spec => []OrderRespectsReads
  BY AlwaysInv, InvOrder, PTL

\* Error 6-4 names two statements of one cycle, whatever producers _cycle_edge
\* picks on its way.
THEOREM CycleIsRight == Spec => []NamedAreOnCycle
  BY AlwaysInv, InvNamed, PTL

\* The sort stays within its script: no indegree is decremented below zero, and
\* what is queued, ordered and walked along are statements of the script.
THEOREM SortTypeCorrect == Spec => []TypeOK
  <1>1. Inv => TypeOK
    BY DEF Inv, SortInv
  <1>2. QED
    BY <1>1, AlwaysInv, PTL

\* create_dag checks for overwriting whether it reorders or not: the results of
\* an exported script do not depend on which of the orders that respect its
\* reads _topological_sort has come to, or its author has written it in.
THEOREM ResultsAreFixed == Spec => []ResultsAreDetermined
  BY AlwaysInv, InvResults, PTL
=============================================================================
