--------------------------- MODULE ReleaseWindow ---------------------------
(***************************************************************************)
(* Releases, their order and the windows of the rows of the dictionary     *)
(* (orm/release_sort_order.py, dpm_xl/utils/filters.py).                   *)
(*                                                                         *)
(* A row holds from its start release up to, and without, its end release; *)
(* an end of None is open.  Releases are ordered by date and not by their  *)
(* id.  A release without a date, or one of a perpetual type, comes after  *)
(* every dated one; several may share that place.  A predicate on columns  *)
(* is modelled as the predicate it applies to a row's two values: a start  *)
(* that is NULL is IN no set of ids.                                       *)
(***************************************************************************)
EXTENDS Integers

CONSTANTS
  ReleaseId,   \* Release.release_id of every row of the table
  ReleaseDate, \* Release.date as an ordinal, or None
  ReleaseType, \* Release.type
  MaxDate,     \* date.max.toordinal()
  None         \* NULL

Types == {"release", "playground"}

ASSUME ReleaseAssumption ==
  /\ ReleaseId \subseteq Nat
  /\ MaxDate \in Nat
  /\ \A n \in ReleaseId \union 1..MaxDate : n # None
  /\ ReleaseDate \in [ReleaseId -> {None} \union 1..MaxDate]
  /\ ReleaseType \in [ReleaseId -> Types]

-----------------------------------------------------------------------------
\* orm/release_sort_order.py

UndatedSortOrder == MaxDate + 1

ComputeSortOrder(date, type) ==
  IF date = None \/ type = "playground" THEN UndatedSortOrder ELSE date

SortOrder(r) == ComputeSortOrder(ReleaseDate[r], ReleaseType[r])

\* release_ids_for_sort_order with each of its bounds.
UpTo(order) == {r \in ReleaseId : SortOrder(r) <= order}
After(order) == {r \in ReleaseId : SortOrder(r) > order}
From(order) == {r \in ReleaseId : SortOrder(r) >= order}
Before(order) == {r \in ReleaseId : SortOrder(r) < order}

\* The releases that never close a window that ends at them.
Perpetual == From(ComputeSortOrder(None, "release"))

-----------------------------------------------------------------------------
\* dpm_xl/utils/filters.py

\* Variant: the window of a row includes the release that ends it.
ClosedWindow(start, end, r) ==
  /\ start \in UpTo(SortOrder(r))
  /\ end = None \/ end \in From(SortOrder(r)) \union Perpetual

\* filter_by_release: does a row belong to release r?
InWindow(start, end, r) ==
  /\ start \in UpTo(SortOrder(r))
  /\ end = None \/ end \in After(SortOrder(r)) \union Perpetual

\* filter_active_only: is the row open now?
ActiveOnly(end) == end = None \/ end \in Perpetual

\* filter_live_only: is it open now, and not only a draft?
LiveOnly(start, end) == ActiveOnly(end) /\ start \notin Perpetual

\* filter_item_version: as InWindow, but for a sort order that may be missing.
ItemVersion(order, start, end) ==
  /\ order # None
  /\ start \in UpTo(order)
  /\ end = None \/ end \in After(order) \union Perpetual

-----------------------------------------------------------------------------
\* ModuleVersionQuery.get_last_release: ids break ties.

\* Does release r come after q, or at its place with a higher id?
Later(r, q) ==
  \/ SortOrder(r) > SortOrder(q)
  \/ SortOrder(r) = SortOrder(q) /\ r > q

IsLast(r, S) == r \in S /\ \A q \in S \ {r} : Later(r, q)

LastRelease == CHOOSE r \in ReleaseId : IsLast(r, ReleaseId)

-----------------------------------------------------------------------------
\* EcbValidationsImportService._get_valid_release_ids: the releases at which
\* the scopes of a validation are computed.

ValidReleaseIds(start, end) ==
  IF end = None
  THEN From(SortOrder(start))
  ELSE (From(SortOrder(start)) \intersect Before(SortOrder(end)))
         \union (IF end \in Perpetual THEN Perpetual ELSE {})
=============================================================================
