--------------------------- MODULE MCSqliteUpdate ---------------------------
(***************************************************************************)
(* Small instances of SqliteUpdate.                                        *)
(***************************************************************************)
EXTENDS SqliteUpdate, TLC

\* Settings that differ in what a run does, and the plain update only.
SomeOptions ==
  {[ecb |-> FALSE, dry |-> FALSE, keep |-> FALSE],
   [ecb |-> TRUE,  dry |-> FALSE, keep |-> FALSE],
   [ecb |-> FALSE, dry |-> TRUE,  keep |-> FALSE],
   [ecb |-> TRUE,  dry |-> TRUE,  keep |-> TRUE]}
PlainOption == {[ecb |-> FALSE, dry |-> FALSE, keep |-> FALSE]}

Files == Permutations(Inode)
=============================================================================
