----------------------------- MODULE MCFunctions ------------------------------
(***************************************************************************)
(* The functions that keep state from call to call, for TLC.  A behaviour  *)
(* takes one component: TableBuffering, Aggregate and StreamingSessions,   *)
(* the calls and the storage behind them; AggregateFunctions and           *)
(* TableInOutFunctions, what the example functions compute in them.        *)
(***************************************************************************)
EXTENDS TableInOutFunctions, TLC

CONSTANTS
    e1, e2, p1, p2, SinkThreads, SinkBatches,
    AggregateThreads, Root, Groups, Partitions, AggregateRows,
    SessionProcesses, MaxChunk, SessionRows, MaxRestarts,
    Failure, MaxThreads, AggregateValues, Weights, AxisTypes, MaxCells, ByteBits, WindowRows

TheNames == DOMAIN Described

\* Fan-outs of none, two (a full page) and three rows; tensors of no cells and of two.
TheRows == {<<Null, 1>>, <<-1, 2>>, <<2, 1>>, <<3, Null>>}

\* Two executions over two processes, where all goes well; one of them where calls
\* fail and the client is impatient; and both in one process.
TheDeployments ==
    {[executions |-> {e1, e2}, processes |-> {p1, p2}, mayFail |-> FALSE],
     [executions |-> {e1}, processes |-> {p1, p2}, mayFail |-> TRUE],
     [executions |-> {e1, e2}, processes |-> {p1}, mayFail |-> FALSE]}

TheAggregates ==
    {"vgi_count", "vgi_sum", "vgi_avg", "vgi_weighted_sum", "vgi_listagg", "vgi_percentile",
     "vgi_sum_all", "vgi_generic_sum", "vgi_dynamic_agg", "vgi_dynamic_ml_agg",
     "vgi_window_sum", "vgi_window_sum_batch", "vgi_window_median", "vgi_window_listagg",
     "vgi_streaming_sum", "secret_typed_sum", "main.test_same_name_agg",
     "data.test_same_name_agg", "nest_tensor"}

\* Coordinates of two axes, one of them NULL, and no coordinates at all.
TheAxes == {Null, <<Null, 1>>, <<1, 3>>, <<2, 1>>, <<2, 4>>}

\* As strings, x, x|b=s:y, y|b=s:z and z: the coordinates <<1, 3>> and <<2, 4>> have one key.
TheText == <<<<"x">>, <<"x", "|", "b", "=", "s:", "y">>, <<"y", "|", "b", "=", "s:", "z">>, <<"z">>>>

\* Frames of the first two rows of a partition of three: one range, ranges with a row
\* excluded between them, and none.
TheFramings ==
    LET one == {<<<<0, 1>>>>, <<<<0, 3>>>>, <<<<1, 3>>>>, <<<<0, 1>>, <<2, 3>>>>, <<>>}
    IN  {<<a, b>> : a \in one, b \in one}

\* No partition columns, a number, and two strings, some with a zero in them.
ThePartitionings ==
    {[types |-> <<>>, keys |-> {<<>>}],
     [types |-> <<"int64">>, keys |-> {<<1>>, <<2>>, <<Null>>}],
     [types |-> <<"utf8", "utf8">>,
      keys  |-> {<<Null, <<1>>>>, <<<<1>>, Null>>, <<<<1, 0>>, <<1>>>>, <<<<1>>, <<0, 1>>>>}]}

VARIABLES
    which,   \* the component of this behaviour
    bPhase, sent, bCall, cache, bLog, out, refused, ended, deployment,
    aPhase, rows, aCall, args, states, parts, asked, merged, result, answers, aQuery,
    partitioning, sessions, sCall, client, restarts,
    query, fPhase, fFed, fStates, fResult, fAnswers

B == INSTANCE TableBuffering WITH
       Deployments <- TheDeployments, Threads <- SinkThreads, MaxBatches <- SinkBatches,
       phase <- bPhase, call <- bCall, log <- bLog

A == INSTANCE Aggregate WITH
       Threads <- AggregateThreads, MaxRows <- AggregateRows, phase <- aPhase,
       call <- aCall, query <- aQuery

S == INSTANCE StreamingSessions WITH
       Executions <- {e1}, Processes <- SessionProcesses, Partitionings <- ThePartitionings,
       MaxRows <- SessionRows, call <- sCall

F == INSTANCE AggregateFunctions WITH
       Names <- TheAggregates, Failed <- Failure, Values <- AggregateValues, Axes <- TheAxes, Text <- TheText,
       MaxRows <- AggregateRows, Partitions <- WindowRows,
       Framings <- TheFramings, phase <- fPhase, fed <- fFed, states <- fStates,
       result <- fResult, answers <- fAnswers

bVars == <<bPhase, sent, bCall, cache, bLog, out, refused, ended, deployment>>
aVars == <<aPhase, rows, aCall, args, states, parts, asked, merged, result, answers, aQuery>>
sVars == <<partitioning, sessions, sCall, client, restarts>>
fVars == <<query, fPhase, fFed, fStates, fResult, fAnswers>>

allVars == <<which, vars, bVars, aVars, sVars, fVars>>

ASSUME B!BatchesAssumption /\ B!DeploymentAssumption

\* The components that do not run stay in one state.
MCInit ==
    /\ which \in {"inout", "buffering", "aggregate", "sessions", "aggregates"}
    /\ which = "inout" \/ call = CHOOSE c \in Calls : TRUE
    /\ which = "buffering" \/ deployment = CHOOSE d \in TheDeployments : d.mayFail
    /\ which = "aggregate" \/ aQuery = [windowed |-> FALSE, argsMayFail |-> FALSE]
    /\ which = "sessions" \/ partitioning = CHOOSE k \in ThePartitionings : k.types = <<>>
    /\ which = "aggregates" \/ query = [name |-> "vgi_count", arg |-> Null]
    /\ Init /\ B!Init /\ A!Init /\ S!Init /\ F!Init

MCNext ==
    /\ UNCHANGED which
    /\ \/ which = "inout" /\ Next /\ UNCHANGED <<bVars, aVars, sVars, fVars>>
       \/ which = "buffering" /\ B!Next /\ UNCHANGED <<vars, aVars, sVars, fVars>>
       \/ which = "aggregate" /\ A!Next /\ UNCHANGED <<vars, bVars, sVars, fVars>>
       \/ which = "sessions" /\ S!Next /\ UNCHANGED <<vars, bVars, aVars, fVars>>
       \/ which = "aggregates" /\ F!Next /\ UNCHANGED <<vars, bVars, aVars, sVars>>

MCSpec == MCInit /\ [][MCNext]_allVars

-----------------------------------------------------------------------------
\* What the components promise, by the names they have there.
FinalizedWhole == B!FinalizedWhole /\ B!ServedAnywhere
LeftAtEnd == B!LeftAtEnd
ResultExact == A!ResultExact
CallsServed == A!CallsServed
TotalsExact == S!TotalsExact
AggregatesExact == which = "aggregates" => F!AggregatesExact /\ F!TensorRefusals /\ F!WindowsExact

Symmetry ==
    Permutations(SinkThreads) \cup Permutations(AggregateThreads \ {Root}) \cup Permutations(Groups)
=============================================================================
