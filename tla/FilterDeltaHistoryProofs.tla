---------------------- MODULE FilterDeltaHistoryProofs ----------------------
(***************************************************************************)
(* A turn rebuilt from the compacted history holds the live filters, for   *)
(* every set of identifiers and expressions and every bound.               *)
(***************************************************************************)
EXTENDS FilterDeltaHistory, TLAPS

\* What an update leaves under its identifier.
Result(h, id) ==
    IF h.delta.update[id].operation = Removed THEN Absent ELSE h.delta.update[id].operation

\* h is the first delta of the set that carried this revision of id.
FirstCarrier(set, h, id, revision) ==
    /\ h \in set
    /\ Carries(h, id, revision)
    /\ \A g \in set : g.n < h.n => ~Carries(g, id, revision)

\* What pf holds under id is what the deltas of the prefix done of the history
\* hist left there: the snapshot's predicate, or the result of the first delta
\* that carried its revision.
Explained(pf, hist, done, id) ==
    \/ /\ pf.revision[id] = deserializeFiltersV2.revision[id]
       /\ pf.expr[id] = deserializeFiltersV2.expr[id]
    \/ /\ pf.revision[id] > deserializeFiltersV2.revision[id]
       /\ \E h \in done : /\ FirstCarrier(hist, h, id, pf.revision[id])
                          /\ pf.expr[id] = Result(h, id)

\* No delta of the set carries a revision above the one pf has.
Dominates(pf, set) ==
    \A h \in set : \A id \in DOMAIN h.delta.update :
        h.delta.update[id].revision <= pf.revision[id]

Shape(pf) ==
    /\ pf = [revision |-> pf.revision, expr |-> pf.expr, order |-> pf.order]
    /\ pf.revision \in [Ids -> Int]
    /\ pf.expr = [id \in Ids |-> pf.expr[id]]
    /\ \A id \in Ids : pf.revision[id] >= deserializeFiltersV2.revision[id]

WellFormedDelta(d) ==
    /\ DOMAIN d.update \subseteq Ids
    /\ \A id \in DOMAIN d.update : d.update[id].revision \in Int

Stamped ==
    /\ ticks \in Int
    /\ \A h \in history : /\ h.n \in Int
                          /\ h.n <= ticks
                          /\ WellFormedDelta(h.delta)
    /\ \A g, h \in history : g.n = h.n => g = h

LiveExplained ==
    /\ Shape(live)
    /\ Dominates(live, history)
    /\ \A id \in Ids : Explained(live, history, history, id)

ReplayExplained ==
    phase = "replaying" =>
        /\ Shape(cur)
        /\ todo \subseteq history
        /\ history # {}
        /\ \A g \in history \ todo, h \in todo : g.n < h.n
        /\ Dominates(cur, history \ todo)
        /\ \A id \in Ids : Explained(cur, history, history \ todo, id)

\* Every delta of the history is there for a live revision it carried first.
Useful ==
    \A h \in history : \E id \in Ids : FirstCarrier(history, h, id, live.revision[id])

OrderRecorded ==
    IF history = {} THEN live.order = deserializeFiltersV2.order
                    ELSE order = live.order

IInv ==
    /\ Stamped
    /\ LiveExplained
    /\ Useful
    /\ ReplayExplained
    /\ OrderRecorded
    /\ RebuiltMatchesLive

-----------------------------------------------------------------------------
\* The fields of a delta the parser accepts.
LEMMA DeltaShape ==
    ASSUME NEW d \in Deltas
    PROVE  WellFormedDelta(d)
  BY BoundAssumption DEF Deltas, WellFormedDelta, Updates

\* The predicates init deserializes are well formed.
LEMMA SnapshotShape == Shape(deserializeFiltersV2)
  BY SnapshotAssumption DEF Shape, deserializeFiltersV2, NoRevision

\* Applying a delta leaves well-formed predicates.
LEMMA ApplyShape ==
    ASSUME NEW pf, Shape(pf), NEW d, WellFormedDelta(d)
    PROVE  /\ Shape(applyDelta(pf, d))
           /\ \A id \in Ids : IF id \in Fresh(pf, d)
                THEN /\ applyDelta(pf, d).revision[id] = d.update[id].revision
                     /\ applyDelta(pf, d).revision[id] > pf.revision[id]
                     /\ applyDelta(pf, d).expr[id] =
                          IF d.update[id].operation = Removed THEN Absent
                                                              ELSE d.update[id].operation
                ELSE /\ applyDelta(pf, d).revision[id] = pf.revision[id]
                     /\ applyDelta(pf, d).expr[id] = pf.expr[id]
           /\ \A id \in DOMAIN d.update :
                d.update[id].revision <= applyDelta(pf, d).revision[id]
           /\ Fresh(pf, d) = {} => applyDelta(pf, d).order = pf.order
  <1> DEFINE q == applyDelta(pf, d)
  <1>1. deserializeFiltersV2.revision \in [Ids -> Int]
    BY SnapshotShape DEF Shape
  <1>2. Fresh(pf, d) \subseteq Ids
    BY DEF Fresh, WellFormedDelta
  <1>3. q.revision \in [Ids -> Int]
    BY <1>2 DEF applyDelta, Shape, WellFormedDelta, Fresh
  <1>4. \A id \in Ids : IF id \in Fresh(pf, d)
                THEN /\ q.revision[id] = d.update[id].revision
                     /\ q.revision[id] > pf.revision[id]
                     /\ q.expr[id] = IF d.update[id].operation = Removed THEN Absent
                                                              ELSE d.update[id].operation
                ELSE /\ q.revision[id] = pf.revision[id]
                     /\ q.expr[id] = pf.expr[id]
    BY DEF applyDelta, Fresh
  <1>5. \A id \in DOMAIN d.update : d.update[id].revision <= q.revision[id]
    <2> TAKE id \in DOMAIN d.update
    <2>1. /\ id \in Ids
          /\ d.update[id].revision \in Int
          /\ pf.revision[id] \in Int
      BY DEF WellFormedDelta, Shape
    <2>2. CASE id \in Fresh(pf, d)
      BY <2>1, <2>2, <1>4
    <2>3. CASE id \notin Fresh(pf, d)
      BY <2>1, <2>3, <1>4 DEF Fresh
    <2> QED BY <2>2, <2>3
  <1>6. Fresh(pf, d) = {} => q.order = pf.order
    BY DEF applyDelta
  <1>7. Shape(q)
    <2>1. \A id \in Ids : q.revision[id] >= deserializeFiltersV2.revision[id]
      BY <1>1, <1>3, <1>4 DEF Shape
    <2>2. /\ q = [revision |-> q.revision, expr |-> q.expr, order |-> q.order]
          /\ q.expr = [id \in Ids |-> q.expr[id]]
      BY DEF applyDelta
    <2> QED BY <1>3, <2>1, <2>2 DEF Shape
  <1> QED BY <1>4, <1>5, <1>6, <1>7

-----------------------------------------------------------------------------
\* A delta that applies is recorded so that the new live state is explained.
LEMMA RecordExplains ==
    ASSUME Stamped, LiveExplained, Useful, NEW d, WellFormedDelta(d),
           NEW e, e = [n |-> ticks + 1, delta |-> d],
           NEW q, q = applyDelta(live, d),
           NEW kept, kept = recordFilterDelta(q, history, e)
    PROVE  /\ kept \subseteq history \cup {e}
           /\ Dominates(q, kept)
           /\ \A id \in Ids : Explained(q, kept, kept, id)
           /\ \A h \in kept : \E id \in Ids : FirstCarrier(kept, h, id, q.revision[id])
           /\ kept = {} => Fresh(live, d) = {} /\ history = {}
  <1> DEFINE all == history \cup {e}
             snap == deserializeFiltersV2
  <1>1. /\ Shape(q)
        /\ \A id \in DOMAIN d.update : d.update[id].revision <= q.revision[id]
        /\ \A id \in Ids : IF id \in Fresh(live, d)
                THEN /\ q.revision[id] = d.update[id].revision
                     /\ q.revision[id] > live.revision[id]
                     /\ q.expr[id] = Result(e, id)
                ELSE /\ q.revision[id] = live.revision[id]
                     /\ q.expr[id] = live.expr[id]
    BY ApplyShape DEF LiveExplained, Result
  <1>2. kept \subseteq all
    BY DEF recordFilterDelta
  <1>3. \A h \in all, id \in Ids : FirstCarrier(all, h, id, q.revision[id]) => h \in kept
    BY DEF recordFilterDelta, FirstCarrier
  <1>4. \A id \in Ids : /\ q.revision[id] \in Int
                        /\ live.revision[id] \in Int
                        /\ snap.revision[id] \in Int
                        /\ live.revision[id] >= snap.revision[id]
                        /\ q.revision[id] >= live.revision[id]
    BY <1>1, SnapshotShape DEF Shape, LiveExplained
  <1>5. Dominates(q, all)
    <2>1. \A id \in DOMAIN e.delta.update : e.delta.update[id].revision <= q.revision[id]
      BY <1>1
    <2>2. \A h \in history : \A id \in DOMAIN h.delta.update :
              h.delta.update[id].revision <= q.revision[id]
      <3> TAKE h \in history
      <3> TAKE id \in DOMAIN h.delta.update
      <3>1. id \in Ids /\ h.delta.update[id].revision \in Int
        BY DEF Stamped, WellFormedDelta
      <3>2. h.delta.update[id].revision <= live.revision[id]
        BY DEF LiveExplained, Dominates
      <3> QED BY <3>1, <3>2, <1>4
    <2> QED BY <2>1, <2>2 DEF Dominates
  <1>6. \A id \in Fresh(live, d) : id \in Ids /\ FirstCarrier(all, e, id, q.revision[id])
    <2> TAKE id \in Fresh(live, d)
    <2>1. id \in Ids /\ id \in DOMAIN d.update /\ Carries(e, id, q.revision[id])
      BY <1>1 DEF Fresh, WellFormedDelta, Carries
    <2>2. \A g \in history : ~Carries(g, id, q.revision[id])
      <3> SUFFICES ASSUME NEW g \in history, Carries(g, id, q.revision[id]) PROVE FALSE
        OBVIOUS
      <3>1. g.delta.update[id].revision <= live.revision[id]
        BY DEF LiveExplained, Dominates, Carries
      <3> QED BY <3>1, <2>1, <1>1, <1>4 DEF Carries
    <2>3. \A g \in all : g.n < e.n => ~Carries(g, id, q.revision[id])
      BY <2>2 DEF Stamped
    <2> QED BY <2>1, <2>3 DEF FirstCarrier
  <1>7. \A id \in Ids : Explained(q, kept, kept, id)
    <2> TAKE id \in Ids
    <2>1. CASE id \in Fresh(live, d)
      <3>1. FirstCarrier(all, e, id, q.revision[id])
        BY <1>6, <2>1
      <3>2. e \in kept
        BY <1>3, <3>1
      <3>3. FirstCarrier(kept, e, id, q.revision[id])
        BY <3>1, <3>2, <1>2 DEF FirstCarrier
      <3>4. q.revision[id] > snap.revision[id] /\ q.expr[id] = Result(e, id)
        BY <1>1, <1>4, <2>1
      <3> QED BY <3>2, <3>3, <3>4 DEF Explained
    <2>2. CASE id \notin Fresh(live, d)
      <3>1. q.revision[id] = live.revision[id] /\ q.expr[id] = live.expr[id]
        BY <1>1, <2>2
      <3>2. CASE /\ live.revision[id] = snap.revision[id]
                 /\ live.expr[id] = snap.expr[id]
        BY <3>1, <3>2 DEF Explained
      <3>3. ASSUME NEW h \in history, live.revision[id] > snap.revision[id],
                   FirstCarrier(history, h, id, live.revision[id]),
                   live.expr[id] = Result(h, id)
            PROVE  Explained(q, kept, kept, id)
        <4>1. h.n < e.n
          BY DEF Stamped
        <4>2. FirstCarrier(all, h, id, q.revision[id])
          <5>1. \A g \in all : g.n < h.n => g \in history
            BY <4>1 DEF Stamped
          <5> QED BY <3>3, <3>1, <5>1 DEF FirstCarrier
        <4>3. h \in kept
          BY <1>3, <4>2
        <4>4. FirstCarrier(kept, h, id, q.revision[id])
          BY <4>2, <4>3, <1>2 DEF FirstCarrier
        <4> QED BY <4>3, <4>4, <3>1, <3>3 DEF Explained
      <3> QED BY <3>2, <3>3 DEF LiveExplained, Explained
    <2> QED BY <2>1, <2>2
  <1>8. kept = {} => Fresh(live, d) = {} /\ history = {}
    <2> SUFFICES ASSUME kept = {} PROVE Fresh(live, d) = {} /\ history = {}
      OBVIOUS
    <2>1. Fresh(live, d) = {}
      BY <1>3, <1>6
    <2>2. ASSUME NEW h \in history PROVE FALSE
      <3>1. PICK id \in Ids : FirstCarrier(history, h, id, live.revision[id])
        BY DEF Useful
      <3>2. q.revision[id] = live.revision[id]
        BY <2>1, <1>1
      <3>3. FirstCarrier(all, h, id, q.revision[id])
        BY <3>1, <3>2 DEF FirstCarrier, Stamped
      <3> QED BY <3>3, <1>3
    <2> QED BY <2>1, <2>2
  <1>9. Dominates(q, kept)
    BY <1>2, <1>5 DEF Dominates
  <1>10. \A h \in kept : \E id \in Ids : FirstCarrier(kept, h, id, q.revision[id])
    BY <1>2 DEF recordFilterDelta, FirstCarrier
  <1> QED BY <1>2, <1>7, <1>8, <1>9, <1>10

\* Replaying the oldest delta left keeps what the turn holds explained.
LEMMA ReplayKeepsExplained ==
    ASSUME Stamped, phase = "replaying", ReplayExplained,
           NEW h \in todo, \A g \in todo : h.n <= g.n,
           NEW q, q = applyDelta(cur, h.delta)
    PROVE  LET done == history \ (todo \ {h})
           IN /\ Shape(q)
              /\ \A g \in done, k \in todo \ {h} : g.n < k.n
              /\ Dominates(q, done)
              /\ \A id \in Ids : Explained(q, history, done, id)
  <1> DEFINE done == history \ (todo \ {h})
             snap == deserializeFiltersV2
             d == h.delta
  <1>1. /\ Shape(cur)
        /\ todo \subseteq history
        /\ \A g \in history \ todo, k \in todo : g.n < k.n
        /\ Dominates(cur, history \ todo)
        /\ \A id \in Ids : Explained(cur, history, history \ todo, id)
    BY DEF ReplayExplained
  <1>2. done = (history \ todo) \cup {h}
    BY <1>1
  <1>3. WellFormedDelta(d)
    BY <1>1 DEF Stamped
  <1>4. /\ Shape(q)
        /\ \A id \in DOMAIN d.update : d.update[id].revision <= q.revision[id]
        /\ \A id \in Ids : IF id \in Fresh(cur, d)
                THEN /\ q.revision[id] = d.update[id].revision
                     /\ q.revision[id] > cur.revision[id]
                     /\ q.expr[id] = Result(h, id)
                ELSE /\ q.revision[id] = cur.revision[id]
                     /\ q.expr[id] = cur.expr[id]
    BY ApplyShape, <1>1, <1>3 DEF Result
  <1>5. \A id \in Ids : /\ q.revision[id] \in Int
                        /\ cur.revision[id] \in Int
                        /\ snap.revision[id] \in Int
                        /\ cur.revision[id] >= snap.revision[id]
                        /\ q.revision[id] >= cur.revision[id]
    BY <1>1, <1>4, SnapshotShape DEF Shape
  <1>6. \A g \in done, k \in todo \ {h} : g.n < k.n
    BY <1>1, <1>2 DEF Stamped
  <1>7. Dominates(q, done)
    <2>1. \A g \in history \ todo : \A id \in DOMAIN g.delta.update :
              g.delta.update[id].revision <= q.revision[id]
      <3> TAKE g \in history \ todo
      <3> TAKE id \in DOMAIN g.delta.update
      <3>1. id \in Ids /\ g.delta.update[id].revision \in Int
        BY DEF Stamped, WellFormedDelta
      <3>2. g.delta.update[id].revision <= cur.revision[id]
        BY <1>1 DEF Dominates
      <3> QED BY <3>1, <3>2, <1>5
    <2> QED BY <2>1, <1>2, <1>4 DEF Dominates
  <1>8. \A id \in Ids : Explained(q, history, done, id)
    <2> TAKE id \in Ids
    <2>1. CASE id \in Fresh(cur, d)
      <3>1. Carries(h, id, q.revision[id])
        BY <1>4, <2>1 DEF Fresh, Carries
      <3>2. \A g \in history : g.n < h.n => ~Carries(g, id, q.revision[id])
        <4> SUFFICES ASSUME NEW g \in history, g.n < h.n, Carries(g, id, q.revision[id])
                     PROVE  FALSE
          OBVIOUS
        <4>1. g \in history \ todo
          BY <1>1 DEF Stamped
        <4>2. g.delta.update[id].revision <= cur.revision[id]
          BY <4>1, <1>1 DEF Dominates, Carries
        <4> QED BY <4>2, <2>1, <1>4, <1>5 DEF Carries
      <3>3. FirstCarrier(history, h, id, q.revision[id])
        BY <3>1, <3>2, <1>1 DEF FirstCarrier
      <3>4. q.revision[id] > snap.revision[id] /\ q.expr[id] = Result(h, id)
        BY <1>4, <1>5, <2>1
      <3> QED BY <3>3, <3>4, <1>2 DEF Explained
    <2>2. CASE id \notin Fresh(cur, d)
      <3>1. q.revision[id] = cur.revision[id] /\ q.expr[id] = cur.expr[id]
        BY <1>4, <2>2
      <3> QED BY <3>1, <1>1, <1>2 DEF Explained
    <2> QED BY <2>1, <2>2
  <1> QED BY <1>4, <1>6, <1>7, <1>8

\* Once everything is replayed, the turn holds the live predicates.
LEMMA ReplayReachesLive ==
    ASSUME Stamped, LiveExplained, phase = "replaying", ReplayExplained, todo = {}
    PROVE  cur.revision = live.revision /\ \A id \in Ids : cur.expr[id] = live.expr[id]
  <1> DEFINE snap == deserializeFiltersV2
  <1>1. /\ Shape(cur)
        /\ Dominates(cur, history)
        /\ \A id \in Ids : Explained(cur, history, history, id)
    BY DEF ReplayExplained
  <1>2. /\ Shape(live)
        /\ Dominates(live, history)
        /\ \A id \in Ids : Explained(live, history, history, id)
    BY DEF LiveExplained
  <1>3. \A id \in Ids : /\ cur.revision[id] \in Int
                        /\ live.revision[id] \in Int
                        /\ snap.revision[id] \in Int
                        /\ cur.revision[id] >= snap.revision[id]
                        /\ live.revision[id] >= snap.revision[id]
    BY <1>1, <1>2, SnapshotShape DEF Shape
  <1>4. \A id \in Ids : cur.revision[id] <= live.revision[id]
    BY <1>1, <1>2, <1>3 DEF Explained, Dominates, FirstCarrier, Carries
  <1>5. \A id \in Ids : live.revision[id] <= cur.revision[id]
    BY <1>1, <1>2, <1>3 DEF Explained, Dominates, FirstCarrier, Carries
  <1>6. \A id \in Ids : cur.revision[id] = live.revision[id]
    BY <1>3, <1>4, <1>5
  <1>7. cur.revision = live.revision
    BY <1>1, <1>2, <1>6 DEF Shape
  <1>8. \A id \in Ids : cur.expr[id] = live.expr[id]
    <2> TAKE id \in Ids
    <2>1. CASE live.revision[id] = snap.revision[id]
      BY <2>1, <1>1, <1>2, <1>3, <1>6 DEF Explained
    <2>2. CASE live.revision[id] > snap.revision[id]
      <3>1. PICK g \in history : /\ FirstCarrier(history, g, id, live.revision[id])
                                 /\ live.expr[id] = Result(g, id)
        BY <2>2, <1>2, <1>3 DEF Explained
      <3>2. PICK h \in history : /\ FirstCarrier(history, h, id, live.revision[id])
                                 /\ cur.expr[id] = Result(h, id)
        BY <2>2, <1>1, <1>3, <1>6 DEF Explained
      <3>3. g.n \in Int /\ h.n \in Int /\ ~(g.n < h.n) /\ ~(h.n < g.n)
        BY <3>1, <3>2 DEF FirstCarrier, Stamped
      <3>4. g = h
        BY <3>3 DEF Stamped
      <3> QED BY <3>1, <3>2, <3>4
    <2> QED BY <2>1, <2>2, <1>3
  <1> QED BY <1>7, <1>8

-----------------------------------------------------------------------------
\* Before the first turn nothing is recorded and nothing is rebuilt.
LEMMA InitIInv == Init => IInv
  <1> SUFFICES ASSUME Init PROVE IInv
    OBVIOUS
  <1> USE DEF Init
  <1>1. Stamped
    BY DEF Stamped
  <1>2. LiveExplained
    BY SnapshotShape DEF LiveExplained, Dominates, Explained
  <1>3. ReplayExplained /\ Useful /\ OrderRecorded /\ RebuiltMatchesLive
    BY DEF ReplayExplained, Useful, OrderRecorded, RebuiltMatchesLive
  <1> QED BY <1>1, <1>2, <1>3 DEF IInv

\* Every handler keeps the inductive invariant.
LEMMA NextIInv == IInv /\ [Next]_vars => IInv'
  <1> SUFFICES ASSUME IInv, [Next]_vars PROVE IInv'
    OBVIOUS
  <1> USE DEF IInv
  <1>1. CASE StartTurn
    <2> USE <1>1 DEF StartTurn
    <2>1. Stamped' /\ LiveExplained' /\ Useful' /\ OrderRecorded'
      BY DEF Stamped, LiveExplained, Useful, OrderRecorded
    <2>2. CASE history = {}
      <3>1. live.revision = deserializeFiltersV2.revision
        BY <2>2, SnapshotShape DEF LiveExplained, Explained, Shape
      <3>2. live.expr = deserializeFiltersV2.expr
        BY <2>2, SnapshotShape DEF LiveExplained, Explained, Shape
      <3>3. live.order = deserializeFiltersV2.order
        BY <2>2 DEF OrderRecorded
      <3>4. live = deserializeFiltersV2
        BY <3>1, <3>2, <3>3, SnapshotShape DEF LiveExplained, Shape
      <3>5. ReplayExplained' /\ RebuiltMatchesLive'
        BY <2>2, <3>4 DEF ReplayExplained, RebuiltMatchesLive
      <3> QED BY <2>1, <3>5
    <2>3. CASE history # {}
      <3>1. ReplayExplained'
        BY <2>3, SnapshotShape DEF ReplayExplained, Dominates, Explained
      <3>2. RebuiltMatchesLive'
        BY <2>3 DEF RebuiltMatchesLive
      <3> QED BY <2>1, <3>1, <3>2
    <2> QED BY <2>2, <2>3
  <1>2. CASE ReplayDelta
    <2>1. PICK h \in todo :
            /\ \A g \in todo : h.n <= g.n
            /\ todo' = todo \ {h}
            /\ IF Refused(cur, h.delta)
               THEN phase' = "failed" /\ cur' = cur
               ELSE phase' = phase /\ cur' = applyDelta(cur, h.delta)
      BY <1>2 DEF ReplayDelta
    <2>2. phase = "replaying" /\ UNCHANGED <<live, history, order, ticks>>
      BY <1>2 DEF ReplayDelta
    <2>3. Stamped' /\ LiveExplained' /\ Useful' /\ OrderRecorded'
      BY <2>2 DEF Stamped, LiveExplained, Useful, OrderRecorded
    <2>4. RebuiltMatchesLive'
      BY <2>1, <2>2 DEF RebuiltMatchesLive
    <2>5. CASE Refused(cur, h.delta)
      BY <2>1, <2>3, <2>4, <2>5 DEF ReplayExplained
    <2>6. CASE ~Refused(cur, h.delta)
      <3>1. cur' = applyDelta(cur, h.delta)
        BY <2>1, <2>6
      <3>2. LET done == history \ (todo \ {h})
            IN /\ Shape(cur')
               /\ \A g \in done, k \in todo \ {h} : g.n < k.n
               /\ Dominates(cur', done)
               /\ \A id \in Ids : Explained(cur', history, done, id)
        BY <2>1, <2>2, <3>1, ReplayKeepsExplained
      <3>3. todo' \subseteq history /\ history # {}
        BY <2>1, <2>2 DEF ReplayExplained
      <3>4. ReplayExplained'
        BY <2>1, <2>2, <3>2, <3>3 DEF ReplayExplained
      <3> QED BY <2>3, <2>4, <3>4
    <2> QED BY <2>5, <2>6
  <1>3. CASE restorePredicateOrder
    <2> USE <1>3 DEF restorePredicateOrder
    <2>1. Stamped' /\ LiveExplained' /\ Useful' /\ OrderRecorded'
      BY DEF Stamped, LiveExplained, Useful, OrderRecorded
    <2>2. ReplayExplained'
      BY DEF ReplayExplained
    <2>3. cur.revision = live.revision /\ \A id \in Ids : cur.expr[id] = live.expr[id]
      BY ReplayReachesLive
    <2>4. cur.expr = live.expr
      BY <2>3 DEF ReplayExplained, LiveExplained, Shape
    <2>5. ASSUME phase' = "ready" PROVE cur' = live
      <3>1. cur' = [cur EXCEPT !.order = order] /\ order = live.order
        BY <2>5 DEF OrderRecorded, ReplayExplained
      <3>2. cur' = [revision |-> cur.revision, expr |-> cur.expr, order |-> live.order]
        BY <3>1 DEF ReplayExplained, Shape
      <3> QED BY <3>2, <2>3, <2>4 DEF LiveExplained, Shape
    <2>6. RebuiltMatchesLive'
      BY <2>5 DEF RebuiltMatchesLive
    <2> QED BY <2>1, <2>2, <2>6
  <1>4. ASSUME NEW d \in Deltas, applyTick(d) PROVE IInv'
    <2> DEFINE e == [n |-> ticks + 1, delta |-> d]
    <2>1. /\ phase = "ready" /\ phase' = phase /\ todo' = todo
          /\ cur' = applyDelta(cur, d)
          /\ live' = applyDelta(live, d)
          /\ ticks' = ticks + 1
          /\ history' = recordFilterDelta(applyDelta(cur, d), history, e)
          /\ order' = applyDelta(cur, d).order
      BY <1>4 DEF applyTick
    <2>2. cur = live
      BY <2>1 DEF RebuiltMatchesLive
    <2>3. WellFormedDelta(d)
      BY DeltaShape
    <2>4. /\ history' \subseteq history \cup {e}
          /\ Dominates(live', history')
          /\ \A id \in Ids : Explained(live', history', history', id)
          /\ \A h \in history' : \E id \in Ids : FirstCarrier(history', h, id, live'.revision[id])
          /\ history' = {} => Fresh(live, d) = {} /\ history = {}
      BY <2>1, <2>2, <2>3, RecordExplains
    <2>5. Shape(live') /\ (Fresh(live, d) = {} => live'.order = live.order)
      BY <2>1, <2>3, ApplyShape DEF LiveExplained
    <2>6. Stamped'
      BY <2>1, <2>3, <2>4 DEF Stamped
    <2>7. LiveExplained' /\ Useful'
      BY <2>4, <2>5 DEF LiveExplained, Useful
    <2>8. ReplayExplained' /\ RebuiltMatchesLive'
      BY <2>1, <2>2 DEF ReplayExplained, RebuiltMatchesLive
    <2>9. OrderRecorded'
      <3>1. CASE history' # {}
        BY <3>1, <2>1, <2>2 DEF OrderRecorded
      <3>2. CASE history' = {}
        <4>1. history = {} /\ live'.order = live.order
          BY <3>2, <2>4, <2>5
        <4> QED BY <3>2, <4>1 DEF OrderRecorded
      <3> QED BY <3>1, <3>2
    <2> QED BY <2>6, <2>7, <2>8, <2>9
  <1>5. CASE EndTurn \/ \E d \in Deltas : refuseTick(d)
    <2>1. phase' = "idle" /\ UNCHANGED <<live, history, order, ticks, cur, todo>>
      BY <1>5 DEF EndTurn, refuseTick
    <2> QED BY <2>1 DEF Stamped, LiveExplained, Useful, OrderRecorded, ReplayExplained, RebuiltMatchesLive
  <1>6. CASE UNCHANGED vars
    BY <1>6 DEF vars, Stamped, LiveExplained, Useful, OrderRecorded, ReplayExplained, RebuiltMatchesLive
  <1> QED BY <1>1, <1>2, <1>3, <1>4, <1>5, <1>6 DEF Next

(***************************************************************************)
(* Whatever deltas arrive, a turn that has replayed the compacted history  *)
(* and restored the recorded order (replayFilterDeltas) holds exactly the  *)
(* filters a byte-stream worker would hold.                                *)
(***************************************************************************)
THEOREM RebuiltAlwaysMatchesLive == Spec => []RebuiltMatchesLive
  <1>1. IInv => RebuiltMatchesLive
    BY DEF IInv
  <1> QED BY InitIInv, NextIInv, <1>1, PTL DEF Spec
=============================================================================
