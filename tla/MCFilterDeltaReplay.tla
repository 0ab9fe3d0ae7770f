------------------------ MODULE MCFilterDeltaReplay -------------------------
(***************************************************************************)
(* A scan whose client may send an expression this worker does not parse:  *)
(* refused when it is fresh, skipped unread when it is stale.              *)
(***************************************************************************)
EXTENDS FilterDeltaHistory, TLC

CONSTANTS a, b, x, y

MCSnapshot == (a :> x) @@ (b :> Absent)
MCSnapshotOrder == <<a>>
=============================================================================
