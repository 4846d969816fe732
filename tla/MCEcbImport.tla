---------------------------- MODULE MCEcbImport ----------------------------
(***************************************************************************)
(* Small files and databases for EcbImport.                                *)
(***************************************************************************)
EXTENDS EcbImport

\* Releases 2 and 1 are dated, in this order; 3 is undated.
Releases == 1..3
Dates == <<2, 1, None>>
RTypes == [r \in Releases |-> "release"]

\* Code 2 is a child of 1 (v1_1 of v1), and 3 is on its own.
Codes == 1..3
Parents == <<None, 1, None>>

\* Both preconditions have the same hash.
GateCodes == [g \in {"g", "h"} |-> 101]

\* The text t gives the same scope at each release, u another one at each.
Scopes ==
  [p \in {"t", "u"} \X Releases |-> IF p[1] = "t" THEN {1} ELSE {p[2], p[2] + 1}]

R(code, start, end, gate, text) ==
  [code |-> code, start |-> start, end |-> end, gate |-> gate, text |-> text]

SmallFiles ==
  {<<>>, <<R(3, 2, 1, "g", "t"), R(2, 1, None, "g", "u")>>,
   <<R(2, 1, 3, "h", "t"), R(2, 1, None, "g", "u"), R(2, 2, 1, "g", "u")>>,
   <<R(3, 2, 1, None, None), R(1, None, None, "h", "t"), R(1, 1, None, "h", "u")>>}

Native(id, code) ==
  [id |-> id, code |-> code, type |-> "validation", owner |-> "native",
   group |-> None]
NativeVersion(vid, op) ==
  [vid |-> vid, op |-> op, start |-> 2, end |-> None, gate |-> None,
   text |-> "t"]
D(org, ops, versions) ==
  [org |-> org, ops |-> ops, versions |-> versions, nodes |-> {}, scopes |-> {}]

\* Nothing; a native operation at each distance from the block and in it; a
\* native operation of a code that a file has; another one in the ECB's place;
\* two operations, two preconditions or two versions where a query expects one.
SmallDatabases ==
  {D("none", {}, {}), D("other", {}, {}),
   D("none", {Native(3, 3), Native(4, 3)}, {}),
   D("none", {[Native(id, 101) EXCEPT !.type = "precondition"] : id \in 3..4}, {}),
   D("none", {Native(3, 3)}, {NativeVersion(1, 3), NativeVersion(2, 3)})}
    \union {D("none", {Native(id, c)}, {NativeVersion(2, id)}) :
              id \in {3, 8, 9, 10}, c \in {3, 50}}
=============================================================================
