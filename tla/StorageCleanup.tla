---------------------------- MODULE StorageCleanup ----------------------------
(***************************************************************************)
(* When the rows an execution keeps in the shared storage are removed      *)
(* (worker.go: storageCleanupHook, getOrCreateStorage; storage.go).        *)
(*                                                                         *)
(* Worker processes serve streams of executions, several processes one     *)
(* execution.  A stdio process serves one stream at a time and runs the    *)
(* cleanup hook around each; processes on the other transports have no     *)
(* hook, or one that returns early.  Nothing tells a process that an       *)
(* execution has ended: the hook waits for one more stream.  A clear may   *)
(* fail, and its error is dropped; a process may end, and the keys of its  *)
(* hook with it.                                                           *)
(***************************************************************************)
EXTENDS FiniteSets, Integers

CONSTANTS
    Processes,    \* worker processes
    Executions,   \* execution ids in use; one that left no trace is used anew
    Transport,    \* "stdio" or another transport
    Dedicated,    \* whether a process serves one live execution only
    MaxEnded      \* processes that end

TransportAssumption == Transport \in {"stdio", "http", "unix", "tcp"}
DedicatedAssumption == Dedicated \in BOOLEAN

None == "none"
NoneAssumption == None \notin Executions

VARIABLES
    live,        \* executions the client has started and not ended
    stream,      \* the execution whose stream a process serves, or None
    tracker,     \* keys the current dispatch of a process has used
    staleKeys,   \* the hook's snapshot of pending keys
    pendingKeys, \* the hook's keys of the previous dispatch
    storages,    \* the executions a process has a storage object for
    rows,        \* for each execution, the processes whose state is stored
    ended,       \* processes that have ended
    left         \* executions whose rows no hook will look at: the last clear failed, or
                 \* the last process that owed one has ended

vars == <<live, stream, tracker, staleKeys, pendingKeys, storages, rows, ended, left>>

TypeOK ==
    /\ live \subseteq Executions
    /\ stream \in [Processes -> Executions \cup {None}]
    /\ \A keys \in {tracker, staleKeys, pendingKeys, storages} :
         keys \in [Processes -> SUBSET Executions]
    /\ rows \in [Executions -> SUBSET Processes]
    /\ ended \subseteq Processes
    /\ left \subseteq Executions
    /\ \A p \in Processes : stream[p] # None => stream[p] \in storages[p]

Init ==
    /\ live = {}
    /\ stream = [p \in Processes |-> None]
    /\ tracker = [p \in Processes |-> {}]
    /\ staleKeys = [p \in Processes |-> {}]
    /\ pendingKeys = [p \in Processes |-> {}]
    /\ storages = [p \in Processes |-> {}]
    /\ rows = [e \in Executions |-> {}]
    /\ ended = {}
    /\ left = {}

\* No process and no row knows execution e: its id stands for a new one.
Fresh(e) ==
    /\ e \notin live
    /\ rows[e] = {}
    /\ \A p \in Processes : e \notin storages[p] \cup staleKeys[p] \cup pendingKeys[p]

\* newExecutionID, in the first init of a scan.
newExecutionID(e) == Fresh(e)

\* A process the client keeps for one query serves no other live execution.
MayServe(p, e) ==
    Dedicated => (storages[p] \cap live) \ {e} = {}

(***************************************************************************)
(* An init reaches process p: the first of execution e, another one of the *)
(* same scan, or the finalize stream of a table-in-out function.  The hook *)
(* takes its snapshot and the handler gets the storage of e.               *)
(***************************************************************************)
OnDispatchStart(p) ==
    IF Transport \in {"stdio", "http"}
      THEN /\ staleKeys' = [staleKeys EXCEPT ![p] = pendingKeys[p]]
           /\ pendingKeys' = [pendingKeys EXCEPT ![p] = {}]
      ELSE UNCHANGED <<staleKeys, pendingKeys>>

getOrCreateStorage(p, e) ==
    /\ tracker' = [tracker EXCEPT ![p] = {e}]
    /\ storages' = [storages EXCEPT ![p] = @ \cup {e}]

StartInit(p, e) ==
    /\ p \notin ended
    /\ stream[p] = None
    /\ e \in live \/ newExecutionID(e)
    /\ MayServe(p, e)
    /\ live' = live \cup {e}
    /\ stream' = [stream EXCEPT ![p] = e]
    /\ OnDispatchStart(p)
    /\ getOrCreateStorage(p, e)
    /\ UNCHANGED <<rows, ended, left>>

\* The function stores the state of its stream.
Put(p) ==
    /\ stream[p] # None
    /\ rows' = [rows EXCEPT ![stream[p]] = @ \cup {p}]
    /\ UNCHANGED <<live, stream, tracker, staleKeys, pendingKeys, storages, ended, left>>

\* The executions process p's hook will still look at.
OwedBy(p) == tracker[p] \cup staleKeys[p] \cup pendingKeys[p]

\* Those of es with rows that no process but p owes a clear.
OwedAlone(p, es) == {e \in es : rows[e] # {} /\ \A q \in Processes \ {p} : e \notin OwedBy(q)}

\* A clear that fails leaves its rows, and nobody hears of it.
Cleanup(p, es) ==
    \E cleared \in SUBSET es :
      /\ rows' = [e \in Executions |-> IF e \in cleared THEN {} ELSE rows[e]]
      /\ left' = (left \ cleared) \cup OwedAlone(p, es \ cleared)

\* Mutant: the hook does not look whether the dispatch used a stale key again.
OnDispatchEnd_IgnoresReuse(p) ==
    IF Transport = "stdio"
      THEN LET gone == staleKeys[p] \cap storages[p]
           IN /\ Cleanup(p, gone)
              /\ storages' = [storages EXCEPT ![p] = @ \ gone]
              /\ staleKeys' = [staleKeys EXCEPT ![p] = {}]
              /\ pendingKeys' = [pendingKeys EXCEPT ![p] = @ \cup tracker[p]]
      ELSE UNCHANGED <<rows, left, storages, staleKeys, pendingKeys>>

\* Mutant: a key that is used again is not saved for the next cycle.
OnDispatchEnd_ForgetsReused(p) ==
    IF Transport = "stdio"
      THEN LET gone == (staleKeys[p] \ tracker[p]) \cap storages[p]
           IN /\ Cleanup(p, gone)
              /\ storages' = [storages EXCEPT ![p] = @ \ gone]
              /\ staleKeys' = [staleKeys EXCEPT ![p] = {}]
              /\ pendingKeys' = [pendingKeys EXCEPT ![p] = tracker[p] \ staleKeys[p]]
      ELSE UNCHANGED <<rows, left, storages, staleKeys, pendingKeys>>

\* The stale keys that this dispatch did not use are cleaned up, its own keys
\* wait for the next one.
OnDispatchEnd(p) ==
    IF Transport = "stdio"
      THEN LET gone == (staleKeys[p] \ tracker[p]) \cap storages[p]
           IN /\ Cleanup(p, gone)
              /\ storages' = [storages EXCEPT ![p] = @ \ gone]
              /\ staleKeys' = [staleKeys EXCEPT ![p] = {}]
              /\ pendingKeys' = [pendingKeys EXCEPT ![p] = @ \cup tracker[p]]
      ELSE UNCHANGED <<rows, left, storages, staleKeys, pendingKeys>>

EndStream(p) ==
    /\ stream[p] # None
    /\ OnDispatchEnd(p)
    /\ stream' = [stream EXCEPT ![p] = None]
    /\ tracker' = [tracker EXCEPT ![p] = {}]
    /\ UNCHANGED <<live, ended>>

\* The client has all it wants of execution e.
EndExecution(e) ==
    /\ e \in live
    /\ \A p \in Processes : stream[p] # e
    /\ live' = live \ {e}
    /\ UNCHANGED <<stream, tracker, staleKeys, pendingKeys, storages, rows, ended, left>>

\* A process ends, in the middle of a stream or between two.
Exit(p) ==
    /\ p \notin ended
    /\ Cardinality(ended) < MaxEnded
    /\ ended' = ended \cup {p}
    /\ left' = left \cup OwedAlone(p, OwedBy(p))
    /\ stream' = [stream EXCEPT ![p] = None]
    /\ tracker' = [tracker EXCEPT ![p] = {}]
    /\ staleKeys' = [staleKeys EXCEPT ![p] = {}]
    /\ pendingKeys' = [pendingKeys EXCEPT ![p] = {}]
    /\ storages' = [storages EXCEPT ![p] = {}]
    /\ UNCHANGED <<live, rows>>

Next ==
    \/ \E p \in Processes, e \in Executions : StartInit(p, e)
    \/ \E p \in Processes : Put(p) \/ EndStream(p) \/ Exit(p)
    \/ \E e \in Executions : EndExecution(e)

Spec == Init /\ [][Next]_vars

-----------------------------------------------------------------------------
(***************************************************************************)
(* Properties                                                              *)
(***************************************************************************)

\* While an execution is running, no process removes the state that another of
\* its streams stored: "Cleanup is deferred by one dispatch cycle ... This
\* handles multi-worker (primary + secondary inits share an execution ID) and
\* table-in-out (INPUT + FINALIZE share an execution ID)" (storageCleanupHook).
LiveKept ==
    [][\A e \in live : rows[e] \subseteq rows'[e]]_vars

\* On stdio the hook itself forgets no row: as long as rows of an execution are stored, some
\* process still has the execution among the keys its hook will look at, unless the clear it
\* owed failed or the process ended first.  Rows left in those two ways stay for good
\* (OnDispatchEnd, ExecutionStorage.Cleanup).
CleanupOwed ==
    \A e \in Executions :
      rows[e] # {} => e \in left \/ \E p \in Processes : e \in OwedBy(p)

=============================================================================
