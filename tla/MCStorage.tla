------------------------------ MODULE MCStorage -------------------------------
(***************************************************************************)
(* The shared storage, for TLC: CfDoStorage, the client of the Durable     *)
(* Object, and StorageCleanup, the removal of what executions left.  A     *)
(* behaviour takes one.                                                    *)
(***************************************************************************)
EXTENDS CfDoStorage

CONSTANTS worker, Processes, Executions, Transport, Dedicated, MaxEnded

On(kinds, keys) == [kind : kinds, ns : {worker}, key : keys]

Same(ops, n) == [ops |-> [c \in Clients |-> ops], calls |-> n]

\* One client does the first set of operations, the others the second.
Roles(one, others, n) ==
    {[ops |-> [c \in Clients |-> IF c = d THEN one ELSE others], calls |-> n] : d \in Clients}

\* Work is queued and taken.
QueueWork == {Same([kind : {"push", "pop"}], 3)}

\* Worker states are put by one client and drained by the other.
DrainWork == Roles(On({"put"}, {1, 2}), On({"drain"}, {1}), 3)

\* One client changes the rows while the other scans them.
ScanWork == Roles(On({"put"}, 1..MaxKey) \cup On({"delete"}, {1}), On({"scan"}, {1}), 3)

\* Any two calls.
AnyWork ==
    {Same(On({"put", "get", "delete", "drain"}, {1}) \cup On({"range"}, {2})
            \cup [kind : {"push", "pop", "qclear", "append", "logscan",
                          "add", "cget", "cset", "cdelete", "clear"}], 2)}

MCWorkloads == QueueWork \cup DrainWork \cup ScanWork \cup AnyWork

VARIABLES
    which,   \* the component of this behaviour
    live, stream, tracker, staleKeys, pendingKeys, storages, kept, ended, left

C == INSTANCE StorageCleanup WITH rows <- kept

cVars == <<live, stream, tracker, staleKeys, pendingKeys, storages, kept, ended, left>>

allVars == <<which, vars, cVars>>

ASSUME C!TransportAssumption /\ C!DedicatedAssumption /\ C!NoneAssumption

\* The component that does not run stays in one state.
MCInit ==
    /\ which \in {"calls", "cleanup"}
    /\ Init /\ C!Init
    /\ which # "calls" => workload \in QueueWork

MCNext ==
    /\ UNCHANGED which
    /\ \/ which = "calls" /\ Next /\ UNCHANGED cVars
       \/ which = "cleanup" /\ C!Next /\ UNCHANGED vars

MCSpec == MCInit /\ [][MCNext]_allVars

-----------------------------------------------------------------------------
\* What a worker concludes from the answers it got is true, whoever else calls and however
\* often requests are repeated: an item of the queue is handed out once, an ordinal is
\* that of the caller's own log entry, and a scan misses and invents no row (QueuePop,
\* StateAppend, statePaged).
AnswersTrue == ItemsHandedOutOnce /\ OrdinalsTrue /\ ScanBetween

\* What StorageCleanup promises, by the names it has there.
CleanupOwed == C!CleanupOwed
LiveKept == C!LiveKept

Symmetry == Permutations(Clients)
=============================================================================
