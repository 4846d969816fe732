--------------------------- MODULE ActiveDatabase ---------------------------
(***************************************************************************)
(* What DatabaseUpdateService.update promises the readers of a database:   *)
(* the content of the active database changes only as a whole.  A complete *)
(* new content is put in place on trial; the trial ends by accepting it or *)
(* by going back to exactly the content that was active before.            *)
(*                                                                         *)
(* SqliteUpdate implements this specification when one updater runs at a   *)
(* time (SqliteUpdate!Promise).                                            *)
(***************************************************************************)
CONSTANTS
  Whole,   \* the contents that are complete databases
  None     \* there is no database yet

VARIABLES
  db,      \* the content of the active database, or None
  prev,    \* during a trial: the content it replaced, or None
  trial    \* TRUE while a newly installed content is being verified

avars == <<db, prev, trial>>

Init ==
  /\ db \in Whole \union {None}
  /\ prev = None
  /\ trial = FALSE

\* A complete content becomes the active one, on trial.
Install ==
  /\ ~trial
  /\ db' \in Whole
  /\ prev' = db
  /\ trial' = TRUE

\* The trial ends: the new content stays.
Accept ==
  /\ trial
  /\ trial' = FALSE
  /\ prev' = None
  /\ UNCHANGED db

\* The trial ends: the content that was replaced is active again.  There must
\* have been one: an update of a database that did not exist has nothing to go
\* back to.
RollBack ==
  /\ trial
  /\ prev # None
  /\ db' = prev
  /\ trial' = FALSE
  /\ prev' = None

Next == Install \/ Accept \/ RollBack

Spec == Init /\ [][Next]_avars
=============================================================================
