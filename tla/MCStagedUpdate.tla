--------------------------- MODULE MCStagedUpdate ---------------------------
(***************************************************************************)
(* A small instance of StagedUpdate: two ORM tables, one table the ORM does *)
(* not know, and three sources.                                            *)
(***************************************************************************)
EXTENDS StagedUpdate

CONSTANTS plain, extended, broken

OrmTables == <<"Release", "Cell">>
OtherTables == <<"Notes">>
RequiredTables == {"Release"}

\* plain has a CSV file for every ORM table; extended lacks one, and has one for
\* a table the ORM does not know; broken has no rows for a required table.
CsvFiles == [s \in {plain, extended, broken} |->
               CASE s = plain    -> {"Release", "Cell"}
                 [] s = extended -> {"Release", "Notes"}
                 [] s = broken   -> {"Cell"}]

SomeOptions ==
  {[dry |-> FALSE, keep |-> FALSE],
   [dry |-> FALSE, keep |-> TRUE],
   [dry |-> TRUE,  keep |-> TRUE]}
=============================================================================
