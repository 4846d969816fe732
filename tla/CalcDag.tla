------------------------------ MODULE CalcDag ------------------------------
(***************************************************************************)
(* DAGAnalyzer.create_dag: the statements of a calculation script are put  *)
(* in an order in which every statement comes after the statements that    *)
(* write the cells it reads, or a cycle is reported (error 6-4) by two of  *)
(* its statements, or two statements that write the same cell (error 6-1). *)
(*                                                                         *)
(* A statement is what visit_Start records of it: the cells it reads and   *)
(* the cells it writes.  How a selection is resolved into cells is left    *)
(* out.  The order in which a statement reads its cells only decides which *)
(* of several producers _cycle_edge follows; the choice is free here.      *)
(***************************************************************************)
EXTENDS Integers, Sequences, FiniteSets

CONSTANTS
  Cell,     \* cells and calculation variables
  Scripts   \* the scripts considered

Statement == [reads : SUBSET Cell, writes : SUBSET Cell]

ASSUME ScriptsAssumption == Scripts \subseteq Seq(Statement)

VARIABLES
  script,      \* the statements, in the order they were written
  overwriting, \* check_overwriting: are two writers of a cell an error?
  phase,       \* "sort", "walk", or how it ended: "done", "6-1", "6-4"
  indegree,    \* _topological_sort: producers not yet sorted
  queue,       \* _topological_sort: statements that are ready
  order,       \* _topological_sort: statements already sorted
  producer,    \* _cycle_edge: for each unsorted statement one that feeds it
  node,        \* _cycle_edge: where the walk is, or the first statement named
  met,         \* _cycle_edge: where the walk has been
  children     \* ast.children: statement numbers in the order of the script

sortVars == <<indegree, queue, order>>
walkVars == <<producer, node, met>>
vars == <<script, overwriting, phase, indegree, queue, order, producer, node,
          met, children>>

Nodes == DOMAIN script
Size == Len(script)
AsWritten == [i \in 1..Size |-> i]
Ending == {"done", "6-1", "6-4"}

\* Variant: a statement that reads a cell it writes waits for itself.
EdgeToSelf(a, b) == script[a].writes \intersect script[b].reads # {}

\* An edge of the graph: b reads a cell that a writes.  Never from a statement
\* to itself.
Edge(a, b) ==
  /\ a # b
  /\ script[a].writes \intersect script[b].reads # {}

Producers(b) == {a \in Nodes : Edge(a, b)}
HasEdges == \E a, b \in Nodes : Edge(a, b)

\* The statements of a set in the order of the script: the one sequence here.
InOrder(S) ==
  {s \in [1..Cardinality(S) -> S] :
     \A i, j \in 1..Cardinality(S) : i < j => s[i] < s[j]}

\* visit_Start and the set-up of _topological_sort.
Init ==
  /\ script \in Scripts
  /\ overwriting \in BOOLEAN
  /\ phase = "sort"
  /\ indegree = [b \in Nodes |-> Cardinality(Producers(b))]
  /\ queue \in InOrder({n \in Nodes : indegree[n] = 0})
  /\ order = <<>>
  /\ producer = [n \in {} |-> 0]
  /\ node = 0
  /\ met = {}
  /\ children = AsWritten

\* Variant: a successor is ready when its indegree drops, not when it is zero.
PopTooEarly ==
  /\ phase = "sort"
  /\ queue # <<>>
  /\ LET n == Head(queue)
         freed == {m \in Nodes : /\ Edge(n, m)
                                 /\ m \notin {order[i] : i \in DOMAIN order}
                                 /\ m \notin {queue[i] : i \in DOMAIN queue}}
     IN /\ indegree' = [m \in Nodes |-> IF Edge(n, m) THEN indegree[m] - 1
                                                      ELSE indegree[m]]
        /\ \E s \in InOrder(freed) : queue' = Tail(queue) \o s
        /\ order' = Append(order, n)
  /\ UNCHANGED <<script, overwriting, phase, walkVars, children>>

\* One round of _topological_sort: the first ready statement is sorted, and the
\* statements it alone held back become ready, in the order of the script.
Pop ==
  /\ phase = "sort"
  /\ queue # <<>>
  /\ LET n == Head(queue)
         freed == {m \in Nodes : Edge(n, m) /\ indegree[m] = 1}
     IN /\ indegree' = [m \in Nodes |-> IF Edge(n, m) THEN indegree[m] - 1
                                                      ELSE indegree[m]]
        /\ \E s \in InOrder(freed) : queue' = Tail(queue) \o s
        /\ order' = Append(order, n)
  /\ UNCHANGED <<script, overwriting, phase, walkVars, children>>

\* Some cell has two writers.
Overwritten == \E a, b \in Nodes :
                 a # b /\ script[a].writes \intersect script[b].writes # {}

\* Variant: nothing is checked when nothing has to be reordered.
FinishUnchecked ==
  /\ phase = "sort"
  /\ queue = <<>>
  /\ Len(order) = Size
  /\ phase' = IF overwriting /\ HasEdges /\ Overwritten THEN "6-1" ELSE "done"
  /\ children' = IF phase' = "done" /\ HasEdges THEN order ELSE children
  /\ UNCHANGED <<script, overwriting, sortVars, walkVars>>

\* Variant: the statement numbers are taken for list indices.
FinishOffByOne ==
  /\ phase = "sort"
  /\ queue = <<>>
  /\ Len(order) = Size
  /\ phase' = IF overwriting /\ Overwritten THEN "6-1" ELSE "done"
  /\ children' = IF phase' = "done" /\ HasEdges
                 THEN [i \in 1..Size |-> order[i] - 1] ELSE children
  /\ UNCHANGED <<script, overwriting, sortVars, walkVars>>

\* Every statement is sorted: _check_overwriting, then _sort_ast.
Finish ==
  /\ phase = "sort"
  /\ queue = <<>>
  /\ Len(order) = Size
  /\ phase' = IF overwriting /\ Overwritten THEN "6-1" ELSE "done"
  /\ children' = IF phase' = "done" /\ HasEdges THEN order ELSE children
  /\ UNCHANGED <<script, overwriting, sortVars, walkVars>>

\* Statements are left over: _cycle_edge picks a producer for each of them among
\* them and starts at the first.
StartWalk ==
  /\ phase = "sort"
  /\ queue = <<>>
  /\ Len(order) # Size
  /\ LET unsorted == {n \in Nodes : indegree[n] > 0}
     IN /\ producer' \in {f \in [unsorted -> unsorted] :
                            \A b \in unsorted : Edge(f[b], b)}
        /\ node' = CHOOSE n \in unsorted : \A m \in unsorted : n <= m
  /\ met' = {}
  /\ phase' = "walk"
  /\ UNCHANGED <<script, overwriting, sortVars, children>>

\* Variant: the walk goes on from where it was.
WalkOnTheSpot ==
  /\ phase = "walk"
  /\ node \notin met
  /\ node' = producer[node]
  /\ UNCHANGED <<script, overwriting, phase, sortVars, producer, met, children>>

\* _cycle_edge: go from a statement to its producer.
Walk ==
  /\ phase = "walk"
  /\ node \notin met
  /\ met' = met \union {node}
  /\ node' = producer[node]
  /\ UNCHANGED <<script, overwriting, phase, sortVars, producer, children>>

\* Variant: the first statement that is left over is named, with its producer.
NameFirst ==
  /\ phase = "walk"
  /\ phase' = "6-4"
  /\ UNCHANGED <<script, overwriting, sortVars, walkVars, children>>

\* The walk is back where it has been: error 6-4 names that statement and its
\* producer.
Name ==
  /\ phase = "walk"
  /\ node \in met
  /\ phase' = "6-4"
  /\ UNCHANGED <<script, overwriting, sortVars, walkVars, children>>

Ended == phase \in Ending /\ UNCHANGED vars

Next == Pop \/ Finish \/ StartWalk \/ Walk \/ Name \/ Ended

Spec == Init /\ [][Next]_vars
FairSpec == Spec /\ WF_vars(Next)

-----------------------------------------------------------------------------
\* Properties

TypeOK ==
  /\ script \in Scripts
  /\ overwriting \in BOOLEAN
  /\ phase \in {"sort", "walk"} \union Ending
  /\ indegree \in [Nodes -> Nat]
  /\ queue \in Seq(Nodes)
  /\ order \in Seq(Nodes)
  /\ children \in Seq(Nodes)
  /\ met \subseteq Nodes

\* b cannot be evaluated before a.
Needs(b, a) == a # b /\ \E c \in Cell : c \in script[a].writes
                                        /\ c \in script[b].reads

\* Every set of statements that holds a and whatever its members need holds b:
\* directly or indirectly, a needs b.
NeedsInTheEnd(a, b) ==
  \A S \in SUBSET Nodes :
    (a \in S /\ \A x \in S, y \in Nodes : Needs(x, y) => y \in S) => b \in S

\* The exported script has every statement once, and each one after all that
\* write what it reads.
OrderRespectsReads ==
  phase = "done" =>
    /\ Len(children) = Size
    /\ \A n \in Nodes : \E i \in 1..Size : children[i] = n
    /\ \A i, j \in 1..Size : Needs(children[j], children[i]) => i < j

\* The two statements that error 6-4 names lie on a cycle: the first needs the
\* second, and the second, in the end, the first.  A script without a cycle is
\* never refused, and no bystander is blamed.
NamedAreOnCycle ==
  phase = "6-4" =>
    /\ Needs(node, producer[node])
    /\ NeedsInTheEnd(producer[node], node)

\* The orders in which the statements could be evaluated: each statement once,
\* after all that write what it reads.
Admissible ==
  {s \in [1..Size -> Nodes] :
     /\ \A i, j \in 1..Size : s[i] = s[j] => i = j
     /\ \A i, j \in 1..Size : Needs(s[j], s[i]) => i < j}

\* In the order s, a comes before b.
Before(s, a, b) == \E i, j \in 1..Size : i < j /\ s[i] = a /\ s[j] = b

\* The statement whose value of the cell c is there when n is evaluated in the
\* order s, and the one whose value is left at the end: none, if nobody wrote c.
Writes(a, c) == c \in script[a].writes
Finds(s, n, c) ==
  {a \in Nodes : /\ Writes(a, c) /\ Before(s, a, n)
                 /\ \A b \in Nodes :
                      Writes(b, c) /\ Before(s, b, n) => ~Before(s, a, b)}
Leaves(s, c) ==
  {a \in Nodes : /\ Writes(a, c)
                 /\ \A b \in Nodes : Writes(b, c) => ~Before(s, a, b)}

\* An exported script means the same in every order it could have been put in:
\* each statement reads the values of the same statements, and each cell ends
\* up with the value of the same one.  An order that respects the reads does
\* not say which of two writers of a cell comes last; the check for overwriting
\* has to refuse the script, also when there was nothing to reorder.
ResultsAreDetermined ==
  (phase = "done" /\ overwriting) =>
    \A s \in Admissible :
      /\ \A n \in Nodes : \A c \in script[n].reads :
           Finds(s, n, c) = Finds(children, n, c)
      /\ \A c \in Cell : Leaves(s, c) = Leaves(children, c)

\* Every script is exported or refused.
Decides == <>(phase \in Ending)

\* Why it works: what is ready or sorted waits for nothing that is not sorted,
\* nothing is queued twice, and a producer of a sorted statement was sorted
\* before it.
Pending(b) == {a \in Producers(b) : \A i \in 1..Len(order) : order[i] # a}
KahnInv ==
  /\ \A b \in Nodes : indegree[b] = Cardinality(Pending(b))
  /\ \A i \in 1..Len(queue) : indegree[queue[i]] = 0
  /\ \A i, j \in 1..Len(order) : Edge(order[i], order[j]) => i < j
=============================================================================
