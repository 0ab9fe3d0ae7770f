------------------------------- MODULE Aggregate -------------------------------
(***************************************************************************)
(* Grouped and windowed aggregates (aggregate_protocol.go,                 *)
(* aggregate_storage.go).  Every request names an execution and is served  *)
(* on its own, by any worker process: it reads what it needs from the      *)
(* shared storage, calls the function and writes the states back, without  *)
(* a lock.                                                                 *)
(*                                                                         *)
(* The client is DuckDB: its threads aggregate into groups of their own,   *)
(* then their groups are combined into those of one thread and finalized.  *)
(* A row a state has seen is there with the arguments the function had     *)
(* when it saw it.                                                         *)
(***************************************************************************)
EXTENDS Integers, Sequences, FiniteSets, Bags

CONSTANTS
    Threads,      \* threads of the client
    Root,         \* the thread whose groups the others are combined into
    Groups,       \* groups of the query
    Partitions,   \* window partitions of the query
    MaxRows       \* rows of the query

\* A stored state, if there is one, is the bag of the rows it has seen: no state
\* is the empty set, a state the set of its bag.
Absent == {}

State(bag) == {bag}

\* What an absent state begins with (NewState), or the state's own rows.
OrNew(state) == IF state = Absent THEN EmptyBag ELSE CHOOSE bag \in state : TRUE

NoArgs == "nil"
Unknown == "unknown partition"
BindArgs == "args"

VARIABLES
    phase,      \* how far the client is
    rows,       \* the rows sent, in order: group and whether NULL
    call,       \* the request each thread waits for
    args,       \* the stored arguments
    states,     \* the stored states by thread and group
    parts,      \* the stored window partitions by id
    asked,      \* partitions the client has initialised and not destroyed
    merged,     \* threads whose groups were combined
    result,     \* the finalized value of each group
    answers,    \* the answers of window requests
    query       \* whether the query is windowed or grouped, and whether a read of
                \* its arguments may fail; never changes

vars == <<phase, rows, call, args, states, parts, asked, merged, result, answers, query>>

Gids == Threads \X Groups

NoCall == [pc |-> "none", rows |-> <<>>, pairs |-> <<>>, args |-> NoArgs, states |-> <<>>]

TypeOK ==
    /\ phase \in {"bind", "update", "combine", "finalize", "done", "failed", "destroyed"}
    /\ \A i \in DOMAIN rows : rows[i].group \in Groups /\ rows[i].null \in BOOLEAN
    /\ args \in {NoArgs, BindArgs}
    /\ \A gid \in Gids : states[gid] = Absent \/ \E bag \in states[gid] : IsABag(bag) /\ states[gid] = {bag}
    /\ \A t \in Threads : call[t].pc \in {"none", "load", "update", "combine", "save"}
    /\ parts \subseteq Partitions
    /\ asked \subseteq Partitions

Init ==
    /\ phase = "bind"
    /\ rows = <<>>
    /\ call = [t \in Threads |-> NoCall]
    /\ args = NoArgs
    /\ states = [gid \in Gids |-> Absent]
    /\ parts = {}
    /\ asked = {}
    /\ merged = {}
    /\ result = [g \in Groups |-> Absent]
    /\ answers = {}
    /\ query \in [windowed : BOOLEAN, argsMayFail : BOOLEAN]

Idle == \A t \in Threads : call[t] = NoCall

-----------------------------------------------------------------------------
\* handleAggregateBind stores the arguments under a fresh execution.  (The query is one with
\* constant arguments: for one without there is nothing to store, and nothing to read.)
handleAggregateBind ==
    /\ phase = "bind"
    /\ args' = BindArgs
    /\ phase' = "update"
    /\ UNCHANGED <<rows, call, states, parts, asked, merged, result, answers>>

\* A thread sends a batch of new rows for its own groups.
SendUpdate(t) ==
    /\ phase = "update" /\ ~query.windowed
    /\ call[t] = NoCall
    /\ \E n \in 1..2 : \E batch \in [1..n -> [group : Groups, null : BOOLEAN]] :
         /\ Len(rows) + n <= MaxRows
         /\ rows' = rows \o batch
         /\ call' = [call EXCEPT ![t] = [NoCall EXCEPT !.pc = "load",
                                           !.rows = [i \in 1..n |-> Len(rows) + i]]]
    /\ UNCHANGED <<phase, args, states, parts, asked, merged, result, answers>>

\* When all updates are done, the groups of some threads are combined into the
\* root's with one request.
SendCombine ==
    /\ phase \in {"update", "combine"} /\ ~query.windowed
    /\ Idle
    /\ \E some \in SUBSET (Threads \ ({Root} \cup merged)) :
         /\ some # {}
         /\ \E order \in [1..Cardinality(some) -> some] :
              /\ {order[i] : i \in DOMAIN order} = some
              /\ call' = [call EXCEPT ![Root] = [NoCall EXCEPT !.pc = "load", !.pairs = order]]
         /\ merged' = merged \cup some
    /\ phase' = "combine"
    /\ UNCHANGED <<rows, args, states, parts, asked, result, answers>>

\* loadAggArgs: a read that fails is logged, and the function is given no
\* arguments.
loadAggArgs(seen) == seen = args \/ (query.argsMayFail /\ seen = NoArgs)

\* The beginning of an update or a combine: the arguments and the states.
loadStates(t) ==
    /\ call[t].pc = "load"
    /\ \E seen \in {NoArgs, BindArgs} :
         /\ loadAggArgs(seen)
         /\ call' = [call EXCEPT ![t].args = seen, ![t].states = states,
                                 ![t].pc = IF call[t].pairs = <<>> THEN "update" ELSE "combine"]
    /\ UNCHANGED <<phase, rows, args, states, parts, asked, merged, result, answers>>

\* The function's Update on the rows of group g: only a row that is not NULL
\* contributes, and a group without one stays absent.
Updated(t, g) ==
    LET c == call[t]
        mine == {i \in {c.rows[j] : j \in DOMAIN c.rows} : rows[i].group = g /\ ~rows[i].null}
        seen == {<<i, c.args>> : i \in mine}
        old  == c.states[<<t, g>>]
    IN IF mine = {} THEN old
       ELSE State(OrNew(old) (+) SetToBag(seen))

\* handleAggregateUpdate after its reads: the function updates the states of the
\* batch's groups and all of them are saved.
handleAggregateUpdate(t) ==
    LET touched == {rows[call[t].rows[j]].group : j \in DOMAIN call[t].rows}
    IN /\ call[t].pc = "update"
       /\ states' = [gid \in Gids |->
                       IF gid[1] = t /\ gid[2] \in touched /\ Updated(t, gid[2]) # Absent
                         THEN Updated(t, gid[2]) ELSE states[gid]]
       /\ call' = [call EXCEPT ![t] = NoCall]
       /\ UNCHANGED <<phase, rows, args, parts, asked, merged, result, answers>>

\* One row of the merge batch: absent on both sides stays absent, else a missing
\* side is a new state.
Combine(source, target) ==
    IF source = Absent /\ target = Absent THEN Absent
    ELSE State(OrNew(source) (+) OrNew(target))

\* Mutant: every row of the batch is merged into the target as it was stored.
Combined_FromStored(loaded, order, g) ==
    Combine(loaded[<<order[Len(order)], g>>], loaded[<<Root, g>>])

\* The target of group g after all rows of the batch, in their order.
Combined(loaded, order, g) ==
    LET after[i \in 0..Len(order)] ==
          IF i = 0 THEN loaded[<<Root, g>>] ELSE Combine(loaded[<<order[i], g>>], after[i - 1])
    IN after[Len(order)]

\* handleAggregateCombine after its reads: the targets are saved, the sources left.
handleAggregateCombine ==
    LET c == call[Root]
    IN /\ c.pc = "combine"
       /\ states' = [gid \in Gids |->
                       IF gid[1] = Root /\ Combined(c.states, c.pairs, gid[2]) # Absent
                         THEN Combined(c.states, c.pairs, gid[2]) ELSE states[gid]]
       /\ call' = [call EXCEPT ![Root] = NoCall]
       /\ UNCHANGED <<phase, rows, args, parts, asked, merged, result, answers>>

\* A request fails before it has written anything; the client gives up.
Fail(t) ==
    /\ call[t].pc # "none"
    /\ phase' = "failed"
    /\ call' = [call EXCEPT ![t] = NoCall]
    /\ UNCHANGED <<rows, args, states, parts, asked, merged, result, answers>>

\* handleAggregateFinalize for the root's groups, when all are combined.
handleAggregateFinalize ==
    /\ phase \in {"update", "combine"} /\ ~query.windowed
    /\ Idle
    /\ merged = Threads \ {Root}
    /\ result' = [g \in Groups |-> states[<<Root, g>>]]
    /\ phase' = "done"
    /\ UNCHANGED <<rows, call, args, states, parts, asked, merged, answers>>

\* handleAggregateDestructor, at the end of a grouped query or when the last
\* partition of a windowed one is destroyed, clears the states and the partitions
\* of the execution; the arguments stay.
handleAggregateDestructor ==
    /\ phase \in {"done", "failed"} \/ (query.windowed /\ phase = "update" /\ asked = {})
    /\ Idle
    /\ states' = [gid \in Gids |-> Absent]
    /\ parts' = {}
    /\ asked' = {}
    /\ phase' = "destroyed"
    /\ UNCHANGED <<rows, call, args, merged, result, answers>>

-----------------------------------------------------------------------------
\* handleAggregateWindowInit stores the partition of a windowed query.
handleAggregateWindowInit(d) ==
    /\ phase = "update" /\ query.windowed
    /\ d \notin asked
    /\ parts' = parts \cup {d}
    /\ asked' = asked \cup {d}
    /\ UNCHANGED <<phase, rows, call, args, states, merged, result, answers>>

\* loadCachedPartition finds the partition in the storage, or it is unknown.
loadCachedPartition(d) == d \in parts

\* handleAggregateWindow and handleAggregateWindowBatch load it, in whichever
\* process, with the arguments; an unknown partition is an error.
loadWindowContext(d) ==
    /\ d \in asked
    /\ \E seen \in {NoArgs, BindArgs} :
         /\ loadAggArgs(seen)
         /\ answers' = answers \cup {IF loadCachedPartition(d) THEN seen ELSE Unknown}
    /\ UNCHANGED <<phase, rows, call, args, states, parts, asked, merged, result>>

\* Mutant: the destructor of one partition drops all of the execution.
handleAggregateWindowDestructor_All(d) ==
    /\ d \in asked
    /\ parts' = {}
    /\ asked' = asked \ {d}
    /\ UNCHANGED <<phase, rows, call, args, states, merged, result, answers>>

\* handleAggregateWindowDestructor drops one partition.
handleAggregateWindowDestructor(d) ==
    /\ d \in asked
    /\ parts' = parts \ {d}
    /\ asked' = asked \ {d}
    /\ UNCHANGED <<phase, rows, call, args, states, merged, result, answers>>

Next ==
    /\ \/ handleAggregateBind
       \/ SendCombine
       \/ handleAggregateCombine
       \/ handleAggregateFinalize
       \/ handleAggregateDestructor
       \/ \E t \in Threads : SendUpdate(t) \/ loadStates(t) \/ handleAggregateUpdate(t) \/ Fail(t)
       \/ \E d \in Partitions : \/ handleAggregateWindowInit(d)
                                \/ loadWindowContext(d)
                                \/ handleAggregateWindowDestructor(d)
    /\ UNCHANGED query

Spec == Init /\ [][Next]_vars

-----------------------------------------------------------------------------
(***************************************************************************)
(* Properties                                                              *)
(***************************************************************************)

\* How often a state has seen row i, under whichever arguments.
Times(i, state) ==
    CopiesIn(<<i, BindArgs>>, OrNew(state)) + CopiesIn(<<i, NoArgs>>, OrNew(state))

\* However the rows were spread over threads and batches, and in whatever order
\* their states were merged, the value finalized for a group accounts for each of
\* its rows exactly once and for no other; a group whose rows are all NULL has no
\* state and finalizes to NULL (handleAggregateFinalize).
ResultExact ==
    phase = "done" =>
      \A g \in Groups :
        LET counted == {i \in DOMAIN rows : rows[i].group = g /\ ~rows[i].null}
        IN /\ \A i \in DOMAIN rows : Times(i, result[g]) = IF i \in counted THEN 1 ELSE 0
           /\ result[g] = Absent <=> counted = {}

\* Between its init and its destructor a partition answers every window request,
\* whatever happens to the other partitions of the execution (handleAggregateWindow's
\* unknown partition error is never met); and as long as the storage answers, every
\* update and every window request sees the arguments that handleAggregateBind stashed.
\* (When it does not, loadAggArgs logs the error and the function runs without them.)
CallsServed ==
    /\ Unknown \notin answers
    /\ ~query.argsMayFail =>
          /\ NoArgs \notin answers
          /\ \A gid \in Gids : \A i \in DOMAIN rows : CopiesIn(<<i, NoArgs>>, OrNew(states[gid])) = 0
=============================================================================
