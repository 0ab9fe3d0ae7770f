------------------------------ MODULE MCFilters -------------------------------
(***************************************************************************)
(* Filter pushdown, for TLC: FilterDeltaHistory, the deltas of a scan over *)
(* HTTP, and FilterPushdown, what the predicates do.  A behaviour takes    *)
(* one.                                                                    *)
(*                                                                         *)
(* The scan has one optional snapshot predicate, one identifier the deltas *)
(* introduce, and one required predicate.                                  *)
(***************************************************************************)
EXTENDS FilterDeltaHistory, MCFilterShapes, TLC

CONSTANTS idOptional, idAdded, idRequired, exprX, exprY, Values, MaxDepth, MaxPredicates, Spatial

MCIds == {idOptional, idAdded, idRequired}
MCSnapshot == (idOptional :> exprX) @@ (idAdded :> Absent) @@ (idRequired :> exprX)
MCSnapshotOrder == <<idRequired, idOptional>>

VARIABLES
    which,   \* the component of this behaviour
    predicates, columns, filters, status, kept

P == INSTANCE FilterPushdown WITH
       Schema <- MCSchema, JoinKeys <- MCJoinKeys, Snapshots <- MCSnapshots,
       Projections <- MCProjections

pVars == <<predicates, columns, filters, status, kept>>

allVars == <<which, vars, pVars>>

\* The component that does not run stays in one state.
MCInit ==
    /\ \/ which = "history" /\ predicates = <<>> /\ columns = MCSchema
       \/ which = "pushdown"
    /\ Init
    /\ P!Init

MCNext ==
    /\ UNCHANGED which
    /\ \/ which = "history" /\ Next /\ UNCHANGED pVars
       \/ which = "pushdown" /\ P!Next /\ UNCHANGED vars

MCSpec == MCInit /\ [][MCNext]_allVars

-----------------------------------------------------------------------------
\* A turn that replays the history is never refused, puts the predicates in the order
\* the live stream has, and the history it replays stays bounded (rebuildFilters,
\* applyDelta, compactHistory).
ReplayFaithful == ReplayAccepts /\ ReplayArrangesAlike /\ HistoryBounded

\* What FilterPushdown promises, by the names it has there.
AppliedExactly == P!AppliedExactly
PruningSound == P!PruningSound
ViewsAgree == P!ViewsAgree
=============================================================================
