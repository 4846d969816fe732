----------------------------- MODULE MCCalcDag -----------------------------
(***************************************************************************)
(* Small scripts for CalcDag.                                              *)
(***************************************************************************)
EXTENDS CalcDag

SmallCells == 1..4

\* Four statements that each write a cell of their own and read any others (the
\* first also its own): every graph on four statements.
OwnCells ==
  {[i \in 1..4 |-> [reads |-> r[i], writes |-> {i}]] :
     r \in {f \in [1..4 -> SUBSET SmallCells] : \A i \in 2..4 : i \notin f[i]}}

\* Three statements that may write nothing, one cell, the same one, or two.
SharedCells == [1..3 -> [reads : SUBSET (1..2), writes : {{}, {1}, {2}, {1, 2}}]]

SmallScripts == OwnCells \union SharedCells \union {<<>>}
=============================================================================
