---------------------------- MODULE MCExportCsv ----------------------------
(***************************************************************************)
(* Small instances of ExportCsv.                                           *)
(***************************************************************************)
EXTENDS ExportCsv, TLC

CONSTANTS t1, t2, t3, s0, s1, s2

\* A file without user tables, one with a table, and one with all three.
ThreeFiles == s0 :> {} @@ s1 :> {t1} @@ s2 :> {t1, t2, t3}

\* Two files that have a table in common.
TwoFiles == s1 :> {t1, t2} @@ s2 :> {t1}
=============================================================================
