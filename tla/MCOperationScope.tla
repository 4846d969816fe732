-------------------------- MODULE MCOperationScope --------------------------
(***************************************************************************)
(* Small dictionaries for GhostFallback and OperationScope.                *)
(***************************************************************************)
EXTENDS OperationScope

\* Ids are not in the order of the dates: 3, 1, 5 and then, without an order
\* between them, the undated 2 and the perpetual 4 with its placeholder date.
Releases == 1..5
Dates == <<2, None, 1, 1, 3>>
RTypes == <<"release", "release", "release", "playground", "release">>

Row(m, start, end, ref, hosts) ==
  [module |-> m, start |-> start, end |-> end,
   from |-> ref[1], to |-> ref[2], hosts |-> hosts]
Ghost == <<1, 1>>
Open == <<1, None>>

-----------------------------------------------------------------------------
\* One module with up to four versions, ghosts or not, and gaps between them.

\* Where they start, one after the other.
Lineages ==
  {<<3>>, <<1>>, <<3, 1>>, <<3, 5>>, <<1, 5>>, <<3, 1, 5>>, <<1, 2>>, <<3, 4>>,
   <<3, 1, 2>>, <<2, 4>>, <<1, 5, 2, 4>>, <<1, 5, 4, 2>>}

\* Where each may end: none outlasts the start of the next one.
EndsOf(L) ==
  {e \in [DOMAIN L -> Releases \union {None}] :
     /\ \A i \in DOMAIN L \ {Len(L)} :
          e[i] # None /\ SortOrder(e[i]) <= SortOrder(L[i + 1])
     /\ \A i \in DOMAIN L :
          e[i] \in {None} \union Perpetual \union After(SortOrder(L[i]))}

Alone(L) ==
  {[i \in DOMAIN L |-> Row("m", L[i], e[i], ref[i], {})] :
     e \in EndsOf(L), ref \in [DOMAIN L -> {Ghost, Open}]}

OneModule == UNION {Alone(L) : L \in Lineages}

-----------------------------------------------------------------------------
\* Two or three modules with tables a, b and c and the filing indicator i.  The
\* first may be followed by a second version or by a ghost.

Contents == {{"a"}, {"b"}, {"a", "b"}, {"a", "i"}, {"a", "b", "i"}}

First ==
  {<<Row("m", 3, 1, ref, h), Row("m", 1, None, f, g)>> :
     ref \in {Open, <<1, 2>>}, f \in {Ghost, <<3, None>>},
     h \in Contents, g \in Contents}

Second == {Row("n", s, None, Open, h) : s \in {3, 1}, h \in Contents}

Third == Row("o", 3, None, <<3, None>>, {"b", "c"})

TwoModules == {Append(d, w) : d \in First, w \in Second}

Small == OneModule \union TwoModules \union {Append(d, Third) : d \in TwoModules}

Query(t, p, g) == [tables |-> t, items |-> p, gate |-> g]

SmallQueries ==
  {Query({"a", "b"}, {}, None), Query({"a"}, {"i", "x"}, None),
   Query({"a", "b"}, {"i"}, None), Query({"a", "b", "c"}, {}, None),
   Query({"a"}, {}, [tables |-> {"b"}, items |-> {}]),
   Query({"a"}, {}, [tables |-> {}, items |-> {"i"}])}
=============================================================================
