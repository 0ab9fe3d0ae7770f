------------------------------- MODULE MCScans --------------------------------
(***************************************************************************)
(* The scans of table functions, for TLC: SplitScan, of the functions that *)
(* plan splits, and TableScan, of the others.  A behaviour takes one.      *)
(***************************************************************************)
EXTENDS SplitScan

CONSTANTS
    DefaultBatch, ChunkSize, KeyStride, MaxChunks, Fixed, Now, Sizes, Steps, Streams,
    Processes, MaxMishaps

VARIABLES
    which,   \* the component of this behaviour
    tCall, tBound, tQueue, tStreams, tBatches, tProfile, lost, restarted, mishaps

Tables == INSTANCE TableFunctions
MCCounts == {-1, 0, 1, 3, 5}

\* Every function but the one whose workers each scan the whole.
MCScanned == Tables!Functions \ {"proj_repro_multi_worker"}

T == INSTANCE TableScan WITH
       Scanned <- MCScanned, Counts <- MCCounts, call <- tCall, bound <- tBound,
       queue <- tQueue, streams <- tStreams, batches <- tBatches, profile <- tProfile

tVars == <<tCall, tBound, tQueue, tStreams, tBatches, tProfile, lost, restarted, mishaps>>

allVars == <<which, vars, tVars>>

ASSUME T!ScannedAssumption

\* split_skewed divides its tail over the splits but one: with a single split the
\* tail has none.  The component that does not run stays in one state.
MCInit ==
    /\ \/ which = "splits" /\ tCall = CHOOSE c \in T!Calls : T!Relevant(c)
       \/ which = "table" /\ query = CHOOSE q \in Queries : Relevant(q)
    /\ Init
    /\ T!Init
    /\ which = "splits" /\ query.fn = "split_skewed" => query.k # 1

Splits(A) == which = "splits" /\ A /\ UNCHANGED <<which, tVars>>
Table(A) == which = "table" /\ A /\ UNCHANGED <<which, vars>>

MCNext == Splits(Next) \/ Table(T!Next)

\* The fairness of each component, while it is the one that runs.
MCFairness == WF_allVars(Splits(Engine) \/ Table(T!Engine))

MCSpec == MCInit /\ [][MCNext]_allVars /\ MCFairness

-----------------------------------------------------------------------------
\* What TableScan promises, by the names it has there.
TableRowsExact == which = "table" => T!TableRowsExact
PromisesKept == which = "table" => T!PromisesKept
AnnotationsTrue == which = "table" => T!AnnotationsTrue

\* Every scan comes to its end: no plan, page, empty split, lost turn or size of batches
\* but zero keeps it from succeeding or saying why not (handlePlan, openSplitTokens,
\* GenerateBatch, Process).
ScansEnd ==
    /\ which = "splits" => ScanEnds
    /\ which = "table" => T!TableScanEnds
=============================================================================
