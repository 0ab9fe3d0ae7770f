------------------------- MODULE FilterDeltaHistory -------------------------
(***************************************************************************)
(* The dynamic filters of one table scan, across the turns of an HTTP      *)
(* stream (filter_v2.go, filter_delta_history.go).                         *)
(*                                                                         *)
(* The client tightens the filters of a running scan with delta documents, *)
(* each sent once.  A byte-stream worker keeps the filters in memory: that *)
(* is the variable live.  An HTTP worker keeps nothing between turns: each *)
(* turn starts from the init snapshot, replays the deltas its cursor       *)
(* carries and restores the recorded predicate order: that is the variable *)
(* cur.  The cursor carries only a compacted history.                      *)
(***************************************************************************)
EXTENDS Integers, Sequences, FiniteSets

CONSTANTS
    Ids,            \* predicate identifiers
    Required,       \* identifiers of the snapshot's required predicates
    Exprs,          \* predicate expressions
    Unparseable,    \* expressions parseV2Predicate refuses
    Snapshot,       \* expressions of the snapshot's predicates, by identifier
    SnapshotOrder,  \* the snapshot's predicates in evaluation order
    MaxUpdates,     \* bound on the updates of one delta
    MaxRevision,    \* bound on the revisions the client sends
    MaxTicks        \* bound on the deltas the client sends

Absent == "absent"       \* no predicate under this identifier
Removed == "remove"      \* the remove operation of a delta update
NoRevision == -1         \* v2Revisions has no entry for this identifier

ASSUME SetsAssumption ==
    /\ IsFiniteSet(Ids)
    /\ Required \subseteq Ids
    /\ Unparseable \subseteq Exprs
    /\ Absent \notin Exprs
    /\ Removed \notin Exprs

ASSUME SnapshotAssumption ==
    /\ Snapshot \in [Ids -> (Exprs \ Unparseable) \cup {Absent}]
    /\ SnapshotOrder \in Seq(Ids)
    /\ \A id \in Required : Snapshot[id] # Absent

ASSUME BoundAssumption ==
    /\ MaxUpdates \in Nat
    /\ MaxRevision \in Nat
    /\ MaxTicks \in Nat

(***************************************************************************)
(* One update of a delta: an upsert of an expression or a removal, at a    *)
(* revision.  A delta names an identifier at most once, so its updates are *)
(* a function from the identifiers it names, and doc lists those           *)
(* identifiers in document order.                                          *)
(***************************************************************************)
Updates == [revision : 0..MaxRevision, operation : Exprs \cup {Removed}]

DocumentOrders(S) ==
    {o \in [1..Cardinality(S) -> S] : \A i, j \in DOMAIN o : o[i] = o[j] => i = j}

Deltas ==
    UNION {[update : [S -> Updates], doc : DocumentOrders(S)] :
             S \in {T \in SUBSET Ids : Cardinality(T) \in 1..MaxUpdates}}

(***************************************************************************)
(* The filter state: v2Revisions, and v2Predicates as the expression under *)
(* each identifier and the order of the live identifiers.                  *)
(***************************************************************************)
Filters == [revision : [Ids -> -1..MaxRevision],
            expr     : [Ids -> Exprs \cup {Absent}],
            order    : Seq(Ids)]

deserializeFiltersV2 ==
    [revision |-> [id \in Ids |-> IF Snapshot[id] = Absent THEN NoRevision ELSE 0],
     expr     |-> Snapshot,
     order    |-> SnapshotOrder]

\* An update whose revision is not above the one recorded is skipped unread.
Fresh(pf, d) == {id \in DOMAIN d.update : d.update[id].revision > pf.revision[id]}

\* The whole delta is refused: it targets a required predicate, or an upsert
\* that is not stale does not parse.
Refused(pf, d) ==
    \/ DOMAIN d.update \cap Required # {}
    \/ \E id \in Fresh(pf, d) : d.update[id].operation \in Unparseable

removeV2Predicate(order, ids) == SelectSeq(order, LAMBDA id : id \notin ids)

\* Every fresh update moves its predicate to the end (upsert) or drops it.
applyDelta(pf, d) ==
    LET fresh   == Fresh(pf, d)
        upserts == {id \in fresh : d.update[id].operation # Removed}
    IN [revision |-> [id \in Ids |->
                        IF id \in fresh THEN d.update[id].revision ELSE pf.revision[id]],
        expr     |-> [id \in Ids |->
                        IF id \notin fresh THEN pf.expr[id]
                        ELSE IF id \in upserts THEN d.update[id].operation
                        ELSE Absent],
        order    |-> IF fresh = {} THEN pf.order
                     ELSE removeV2Predicate(pf.order, fresh)
                            \o SelectSeq(d.doc, LAMBDA id : id \in upserts)]

(***************************************************************************)
(* The compacted history.  It is a list in the cursor; here it is a set of *)
(* deltas stamped with their arrival number, which is the same thing and   *)
(* has no positions to renumber when a delta is dropped.                   *)
(***************************************************************************)
Carries(h, id, revision) ==
    id \in DOMAIN h.delta.update /\ h.delta.update[id].revision = revision

\* Mutant: the last delta that carried a live revision is kept.
recordFilterDelta_KeepsLast(pf, history, entry) ==
    LET all == history \cup {entry}
    IN {h \in all : \E id \in Ids :
            /\ Carries(h, id, pf.revision[id])
            /\ \A g \in all : g.n > h.n => ~Carries(g, id, pf.revision[id])}

\* Mutant: only live predicates are wanted, so tombstones are forgotten.
recordFilterDelta_NoTombstones(pf, history, entry) ==
    LET all == history \cup {entry}
    IN {h \in all : \E id \in Ids :
            /\ pf.expr[id] # Absent
            /\ Carries(h, id, pf.revision[id])
            /\ \A g \in all : g.n < h.n => ~Carries(g, id, pf.revision[id])}

\* For every (id, revision) of the live state, tombstones included, the first
\* delta that carried it is kept.
recordFilterDelta(pf, history, entry) ==
    LET all == history \cup {entry}
    IN {h \in all : \E id \in Ids :
            /\ Carries(h, id, pf.revision[id])
            /\ \A g \in all : g.n < h.n => ~Carries(g, id, pf.revision[id])}

\* restorePredicateOrder fails unless order names exactly the live predicates.
OrderMatches(pf, order) ==
    /\ Len(order) = Len(pf.order)
    /\ {order[i] : i \in DOMAIN order} = {pf.order[i] : i \in DOMAIN pf.order}

-----------------------------------------------------------------------------
VARIABLES
    live,       \* the filters a byte-stream transport holds
    history,    \* FilterDeltas of the cursor
    order,      \* FilterOrder of the cursor
    ticks,      \* deltas accepted so far
    phase,      \* of the HTTP turn: idle, replaying, ready or failed
    cur,        \* CurrentPushdownFilters of the HTTP turn
    todo        \* deltas the turn has still to replay

vars == <<live, history, order, ticks, phase, cur, todo>>

Entries == [n : 1..MaxTicks, delta : Deltas]

Init ==
    /\ live = deserializeFiltersV2
    /\ history = {}
    /\ order = <<>>
    /\ ticks = 0
    /\ phase = "idle"
    /\ cur = deserializeFiltersV2
    /\ todo = {}

\* A turn rebuilds the stream from its recipe: the snapshot, then the replay.
StartTurn ==
    /\ phase = "idle"
    /\ cur' = deserializeFiltersV2
    /\ todo' = history
    /\ phase' = IF history = {} THEN "ready" ELSE "replaying"
    /\ UNCHANGED <<live, history, order, ticks>>

\* The deltas are replayed in arrival order.
ReplayDelta ==
    /\ phase = "replaying"
    /\ \E h \in todo :
        /\ \A g \in todo : h.n <= g.n
        /\ todo' = todo \ {h}
        /\ IF Refused(cur, h.delta)
           THEN phase' = "failed" /\ cur' = cur
           ELSE phase' = phase /\ cur' = applyDelta(cur, h.delta)
    /\ UNCHANGED <<live, history, order, ticks>>

restorePredicateOrder ==
    /\ phase = "replaying"
    /\ todo = {}
    /\ IF OrderMatches(cur, order)
       THEN phase' = "ready" /\ cur' = [cur EXCEPT !.order = order]
       ELSE phase' = "failed" /\ cur' = cur
    /\ UNCHANGED <<live, history, order, ticks, todo>>

\* A tick of the turn carries a delta that applies: the filters and the history
\* of the next cursor change together.
applyTick(d) ==
    LET next == applyDelta(cur, d)
    IN /\ phase = "ready"
       /\ ticks < MaxTicks
       /\ ~Refused(cur, d)
       /\ cur' = next
       /\ live' = applyDelta(live, d)
       /\ ticks' = ticks + 1
       /\ history' = recordFilterDelta(next, history, [n |-> ticks + 1, delta |-> d])
       /\ order' = next.order
       /\ UNCHANGED <<phase, todo>>

\* A delta that does not apply fails the tick and changes nothing.
refuseTick(d) ==
    /\ phase = "ready"
    /\ Refused(cur, d)
    /\ phase' = "idle"
    /\ UNCHANGED <<live, history, order, ticks, cur, todo>>

\* The turn ends; the worker keeps nothing but the sealed cursor.
EndTurn ==
    /\ phase = "ready"
    /\ phase' = "idle"
    /\ UNCHANGED <<live, history, order, ticks, cur, todo>>

Next ==
    \/ StartTurn
    \/ ReplayDelta
    \/ restorePredicateOrder
    \/ \E d \in Deltas : applyTick(d) \/ refuseTick(d)
    \/ EndTurn

Spec == Init /\ [][Next]_vars

-----------------------------------------------------------------------------
TypeOK ==
    /\ live \in Filters
    /\ history \subseteq Entries
    /\ order \in Seq(Ids)
    /\ ticks \in 0..MaxTicks
    /\ phase \in {"idle", "replaying", "ready", "failed"}
    /\ cur \in Filters
    /\ todo \subseteq Entries

(***************************************************************************)
(* A turn that has rebuilt its filters from the compacted history holds    *)
(* what a byte-stream worker holds after every delta: the same predicates, *)
(* values, revisions and evaluation order (replayFilterDeltas).            *)
(***************************************************************************)
RebuiltMatchesLive == phase = "ready" => cur = live

(***************************************************************************)
(* Replaying the compacted history already arranges the predicates as the  *)
(* live stream does, before the recorded order is restored: the comment at *)
(* the head of filter_delta_history.go says so of the upsert-moves-to-end  *)
(* rule.                                                                   *)
(***************************************************************************)
ReplayArrangesAlike ==
    phase = "replaying" /\ todo = {} => cur.order = live.order

(***************************************************************************)
(* The history is bounded by the number of predicate identifiers, however  *)
(* many deltas arrive (recordFilterDelta).                                 *)
(***************************************************************************)
HistoryBounded ==
    Cardinality(history) <= Cardinality({id \in Ids : live.revision[id] # NoRevision})

(***************************************************************************)
(* Replaying the history never fails: "every document here was validated   *)
(* when it first arrived" (replayFilterDeltas).                            *)
(***************************************************************************)
ReplayAccepts == phase # "failed"
=============================================================================
