-------------------------- MODULE StorageOperations --------------------------
(***************************************************************************)
(* What the operations of a FunctionStorage do to the stored data of one   *)
(* scope (function_storage_sqlite.go; the Cloudflare backend serves the    *)
(* same operations over HTTP).  Each SQLite operation is one statement or  *)
(* one transaction, so each is one step here.                              *)
(*                                                                         *)
(* The method families of the interface (worker, scan worker, aggregate,   *)
(* window, transaction and attach state) differ only in the namespace they *)
(* use of one key-value table; the namespace is a parameter here.          *)
(***************************************************************************)
EXTENDS Integers, Sequences, FiniteSets, SequencesExt

CONSTANTS
    Namespaces,   \* namespaces of the key-value table
    MaxKey        \* keys are 1..MaxKey, in the store's key order

ASSUME KeyAssumption == MaxKey \in Nat \ {0}

StoreKeys == 1..MaxKey
Nothing == 0

\* The four tables: function_state, function_state_log (with its AUTOINCREMENT
\* id), work_queue and function_counter.
Empty ==
    [state   |-> [ns \in Namespaces |-> [k \in StoreKeys |-> Nothing]],
     log     |-> <<>>,
     nextId  |-> 1,
     queue   |-> <<>>,
     counter |-> 0]

Done(d, result) == [data |-> d, result |-> result]

statePut(d, ns, k, value) ==
    Done([d EXCEPT !.state[ns][k] = value], <<>>)

stateGetOne(d, ns, k) == Done(d, <<d.state[ns][k]>>)

\* The rows of a namespace in key order, each a key and its value.
stateScan(d, ns) ==
    LET present == {k \in StoreKeys : d.state[ns][k] # Nothing}
        keys    == SetToSortSeq(present, <)
    IN [i \in DOMAIN keys |-> <<keys[i], d.state[ns][keys[i]]>>]

stateDeleteKey(d, ns, k) == Done([d EXCEPT !.state[ns][k] = Nothing], <<>>)

\* The keys from start up to and without end.
stateDeleteRange(d, ns, start, end) ==
    LET gone == {k \in StoreKeys : start <= k /\ k < end /\ d.state[ns][k] # Nothing}
    IN Done([d EXCEPT !.state[ns] = [k \in StoreKeys |-> IF k \in gone THEN Nothing ELSE @[k]]],
            <<Cardinality(gone)>>)

\* DELETE ... RETURNING: reads and removes the namespace in one statement.
stateDrain(d, ns) ==
    Done([d EXCEPT !.state[ns] = [k \in StoreKeys |-> Nothing]], stateScan(d, ns))

QueuePush(d, item) == Done([d EXCEPT !.queue = Append(@, item)], <<1>>)

\* An empty queue yields no item.
QueuePop(d) ==
    IF d.queue = <<>> THEN Done(d, <<>>)
    ELSE Done([d EXCEPT !.queue = Tail(@)], <<Head(d.queue)>>)

QueueClear(d) == Done([d EXCEPT !.queue = <<>>], <<Len(d.queue)>>)

StateAppend(d, value) ==
    Done([d EXCEPT !.log = Append(@, <<d.nextId, value>>), !.nextId = @ + 1], <<d.nextId>>)

StateLogScan(d, afterId) == Done(d, SelectSeq(d.log, LAMBDA e : e[1] > afterId))

AttachCounterAdd(d, delta) == Done([d EXCEPT !.counter = @ + delta], <<d.counter + delta>>)

AttachCounterGet(d) == Done(d, <<d.counter>>)

AttachCounterSet(d, value) == Done([d EXCEPT !.counter = value], <<>>)

AttachCounterDelete(d) == Done([d EXCEPT !.counter = 0], <<>>)

\* Every state, log and counter row of the scope, but not the work queue.
ExecutionClear(d) ==
    Done([d EXCEPT !.state = Empty.state, !.log = <<>>, !.counter = 0], <<>>)

-----------------------------------------------------------------------------
(***************************************************************************)
(* A call is an operation and its number; the number is also the payload   *)
(* it writes, so that every payload is written by one call only.           *)
(***************************************************************************)
ReadOnly == {"get", "scan", "logscan", "cget"}

AllOperations ==
    [kind : {"put", "get", "delete", "range", "scan", "drain"}, ns : Namespaces, key : StoreKeys]
      \cup [kind : {"push", "pop", "qclear", "append", "logscan",
                    "add", "cget", "cset", "cdelete", "clear"}]

Outcome(op, n, d) ==
    CASE op.kind = "put"     -> statePut(d, op.ns, op.key, n)
      [] op.kind = "get"     -> stateGetOne(d, op.ns, op.key)
      [] op.kind = "delete"  -> stateDeleteKey(d, op.ns, op.key)
      [] op.kind = "range"   -> stateDeleteRange(d, op.ns, 1, op.key)
      [] op.kind = "scan"    -> Done(d, stateScan(d, op.ns))
      [] op.kind = "drain"   -> stateDrain(d, op.ns)
      [] op.kind = "push"    -> QueuePush(d, n)
      [] op.kind = "pop"     -> QueuePop(d)
      [] op.kind = "qclear"  -> QueueClear(d)
      [] op.kind = "append"  -> StateAppend(d, n)
      [] op.kind = "logscan" -> StateLogScan(d, 0)
      [] op.kind = "add"     -> AttachCounterAdd(d, 1)
      [] op.kind = "cget"    -> AttachCounterGet(d)
      [] op.kind = "cset"    -> AttachCounterSet(d, n)
      [] op.kind = "cdelete" -> AttachCounterDelete(d)
      [] op.kind = "clear"   -> ExecutionClear(d)
=============================================================================
