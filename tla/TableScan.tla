------------------------------ MODULE TableScan ------------------------------
(***************************************************************************)
(* A scan of a table function (handleBind, handleInit and initTable of     *)
(* protocol.go, TableProducerState.Produce, AsTableFunction of             *)
(* table_typed.go, rehydrateTableProducer of rehydrate.go): the engine     *)
(* binds, opens a first stream and then, as far as OnInit allows, further  *)
(* streams of the same execution, which share its work queue.  Over HTTP   *)
(* the state of a stream crosses a turn in a token, any process may serve  *)
(* the turn, and a turn whose answer is lost is asked for again.           *)
(***************************************************************************)
EXTENDS TableFunctions

CONSTANTS
    Scanned,     \* the functions of this instance
    Counts, Sizes, Steps,   \* the arguments
    Streams,     \* the streams the engine is ready to open
    Processes,   \* the processes that serve turns; a byte stream has the one of its number
    MaxMishaps   \* turns whose answer is lost or whose token does not decode

ScannedAssumption == Scanned \subseteq Functions /\ Streams \subseteq Processes

VARIABLES
    call,       \* the function, its arguments and the transport
    bound,      \* the bind: "no", "asked" for secrets, "yes", "refused"
    queue,      \* the work queue of the execution
    streams,    \* each stream and its state
    batches,    \* the batches delivered, in the order of their arrival
    profile,    \* what the processes have put into storage, each under its own id
    lost,       \* the work items taken by turns whose answer was lost
    restarted,  \* whether a stream had to begin with a new state
    mishaps

vars == <<call, bound, queue, streams, batches, profile, lost, restarted, mishaps>>

Arguments == [n : Counts, size : Sizes, step : Steps, flag : BOOLEAN]
Calls == [fn : Scanned, args : Arguments, transport : {"pipe", "http"}]

\* The arguments in which two calls of a function can differ.
Sized == {"sequence", "double_sequence", "nested_sequence", "make_series_range", "make_series_step",
          "profiling_demo", "order_echo", "late_materialization", "struct_settings",
          "partitioned_batch_index_marked", "disjoint_range_partitioned", "overlapping_range_partitioned",
          "user_exported", "user_unexported", "user_encoder", "user_interface",
          "user_null_keys", "filter_echo", "dynamic_filter_echo", "value_prune", "cache_parallel", "cache_ordered"}
Stepped == {"sequence", "double_sequence", "make_series_step", "late_materialization", "struct_settings",
            "partitioned_sequence"}
Relevant(c) ==
    /\ c.fn \notin Sized => c.args.size = Max(Sizes)
    /\ c.fn \notin Stepped => c.args.step = Max(Steps)
    /\ c.fn \notin {"sequence", "rowid_sequence", "late_materialization", "cache_revalidatable"} => ~c.args.flag

d == Describe(call.fn, call.args)

Closed == [status |-> "closed", state |-> NewState(Once(0, Identity))]

-----------------------------------------------------------------------------
\* Without the look at unexported fields.
checkGobStateKinds(state) == state # "interface"

\* AsTableFunction refuses a state type that would not survive the token: an unexported
\* field that is not marked transient, or an interface, channel or function.  A type with
\* an encoding of its own is left alone.
checkGobState(state) == state \in {"exported", "encoder"}

\* What a state is after a turn: gob drops unexported fields, here the cursor.
gobRoundTrip(state, s) ==
    IF state = "unexported" THEN [s EXCEPT !.index = 0, !.remaining = d.total] ELSE s

Init ==
    /\ call \in {c \in Calls : Relevant(c)}
    /\ bound = IF checkGobState(Describe(call.fn, call.args).state) THEN "no" ELSE "refused"
    /\ queue = <<>>
    /\ streams = [r \in Streams |-> Closed]
    /\ batches = <<>>
    /\ profile = [q \in Processes |-> 0]
    /\ lost = <<>>
    /\ restarted = FALSE
    /\ mishaps = 0

\* OnBind; a function that needs scoped secrets answers the first bind with the request.
handleBind ==
    /\ bound \in {"no", "asked"}
    /\ bound' = CASE ~d.ok -> "refused"
                  [] d.lookups /\ bound = "no" -> "asked"
                  [] OTHER -> "yes"
    /\ UNCHANGED <<call, queue, streams, batches, profile, lost, restarted, mishaps>>

Failed == \E r \in Streams : streams[r].status = "failed"
Opened == {r \in Streams : streams[r].status # "closed"}

Open(r) ==
    streams' = [streams EXCEPT ![r] = [status |-> IF d.fails = "init" THEN "failed" ELSE "open",
                                       state |-> NewState(d)]]

\* The primary init runs OnInit, which queues the work, and then NewState.
initPrimary(r) ==
    /\ bound = "yes" /\ Opened = {}
    /\ queue' = d.queue
    /\ Open(r)
    /\ UNCHANGED <<call, bound, batches, profile, lost, restarted, mishaps>>

\* A secondary init names the execution: no OnInit, a state of its own.
initSecondary(r) ==
    /\ bound = "yes" /\ Opened # {} /\ ~Failed
    /\ streams[r].status = "closed"
    /\ Cardinality(Opened) < d.workers
    /\ Open(r)
    /\ UNCHANGED <<call, bound, queue, batches, profile, lost, restarted, mishaps>>

Servers(r) == IF call.transport = "http" THEN Processes ELSE {r}

\* profiling_demo puts the rows it has produced into storage, under the process that
\* serves it: a table function has no substream id.
Snapshot(q, answer) ==
    IF call.fn = "profiling_demo" /\ answer.kind = "batch"
    THEN [profile EXCEPT ![q] = answer.state.index] ELSE profile

\* A batch without rows that repeats the one before is not kept apart from it.
Received(batch) ==
    IF batch.rows = <<>> /\ batches # <<>> /\ Last(batches) = batch THEN batches
    ELSE Append(batches, batch)

\* One tick: Process, and the batch it emitted.
Produce(r) ==
    /\ streams[r].status = "open" /\ ~Failed
    /\ \E f \in {d} : \E answer \in {Process(f, streams[r].state, queue)} :
         /\ queue' = answer.queue
         /\ streams' = [streams EXCEPT ![r] =
              [status |-> CASE answer.kind = "batch" -> "open"
                            [] answer.kind = "error" -> "failed"
                            [] OTHER -> "done",
               state |-> [answer.state EXCEPT !.advertised = f.cache = "stream" /\ (@ \/ answer.kind = "batch")]]]
         /\ batches' = IF answer.kind \in {"batch", "last"}
                       THEN Received([stream |-> r, rows |-> answer.rows,
                                      index |-> answer.index, values |-> answer.values,
                                      cached |-> Advertises(f, streams[r].state)])
                       ELSE batches
         /\ \E q \in Servers(r) : profile' = Snapshot(q, answer)
    /\ UNCHANGED <<call, bound, lost, restarted, mishaps>>

\* Over HTTP the answer of a turn is lost, and the client keeps its token.  What the turn
\* took from the queue, or put into storage, it has taken and put.
ProduceUnheard(r) ==
    /\ call.transport = "http" /\ mishaps < MaxMishaps
    /\ streams[r].status = "open" /\ ~Failed
    /\ LET answer == Process(d, streams[r].state, queue)
       IN  /\ queue' = answer.queue
           /\ lost' = lost \o SubSeq(queue, 1, Len(queue) - Len(answer.queue))
           /\ \E q \in Servers(r) : profile' = Snapshot(q, answer)
    /\ mishaps' = mishaps + 1
    /\ UNCHANGED <<call, bound, streams, batches, restarted>>

\* An HTTP turn: the state goes out in the token and comes back from it.
Turn(r) ==
    /\ call.transport = "http"
    /\ streams[r].status = "open" /\ ~Failed
    /\ streams' = [streams EXCEPT ![r].state = gobRoundTrip(d.state, @)]
    /\ UNCHANGED <<call, bound, queue, batches, profile, lost, restarted, mishaps>>

\* The state does not decode, which only a type with an encoding of its own can bring
\* about: rehydrateTableProducer goes on with a new one.
TurnAnew(r) ==
    /\ call.transport = "http" /\ mishaps < MaxMishaps
    /\ streams[r].status = "open" /\ ~Failed
    /\ d.state = "encoder"
    /\ streams' = [streams EXCEPT ![r].state = NewState(d)]
    /\ restarted' = TRUE
    /\ mishaps' = mishaps + 1
    /\ UNCHANGED <<call, bound, queue, batches, profile, lost>>

Done == Opened # {} /\ \A r \in Opened : streams[r].status = "done"
Over == (bound = "refused" \/ Failed \/ Done) /\ UNCHANGED vars

Next ==
    \/ handleBind \/ Over
    \/ \E r \in Streams : initPrimary(r) \/ initSecondary(r) \/ Produce(r)
                        \/ ProduceUnheard(r) \/ Turn(r) \/ TurnAnew(r)

\* The engine binds, opens its first stream, and goes on reading.
Engine == handleBind \/ \E r \in Streams : initPrimary(r) \/ Produce(r)

Fairness == WF_vars(Engine)

Spec == Init /\ [][Next]_vars /\ Fairness
-----------------------------------------------------------------------------
(***************************************************************************)
(* Properties.                                                             *)
(***************************************************************************)
Delivered == FlattenSeq([i \in DOMAIN batches |-> batches[i].rows])
Times(s, row) == Cardinality({i \in DOMAIN s : s[i] = row})

\* The rows the call stands for, in order.
ExpectedLength ==
    LET a == call.args
        fn == call.fn
    IN  CASE d.process \in {"once", "burst", "nonMonotone"} -> d.total
          [] fn \in {"ten_thousand", "make_series_float", "make_pairs_str"} -> Fixed
          [] fn = "make_series_range" -> Cardinality({v \in a.size..a.n : v < a.n})
          [] fn = "make_series_step" ->
               Cardinality({v \in a.size..a.n : v < a.n /\ (v - a.size) % a.step = 0})
          [] fn = "make_series_csv" -> Cardinality({i \in 1..a.n : i % 2 = 1})
          [] fn \in {"country_partitioned_sales", "trailing_partition_sales", "cache_partitioned", "cache_partition_scope"} -> Countries * Clip(a.n)
          [] fn = "region_year_partitioned" -> (Countries + 1) * Clip(a.n)
          [] fn \in {"cache_partition_multicol", "cache_partition_parallel"} -> 4 * a.n
          [] fn = "cache_partition_proj" -> 2 * a.n
          [] fn \in {"cache_poison", "cache_external_fail"} -> 3
          [] fn = "partitioned_with_explicit_override" -> 3 * Clip(a.n)
          [] fn \in {"disjoint_range_partitioned", "overlapping_range_partitioned"} ->
               Clip(a.n) * rowsPerPartition(a.size)
          [] fn = "user_null_keys" -> Countries * a.size
          [] OTHER -> Clip(a.n)
Expected ==
    LET row == d.row
    IN  [i \in 1..ExpectedLength |-> row[i - 1]]
          \o IF call.fn = "broken_non_monotone_batch_index" THEN <<42>> ELSE <<>>

\* However many streams share the scan, whatever the order of their ticks, and wherever
\* the turns fall, no row comes twice, and a scan that ends has brought every row but
\* those of work items that went with a lost answer: a turn that is asked for again
\* continues from its token, and from a queue that has moved on.  The state must decode,
\* or the scan begins anew (GenerateBatch, QueuePop, checkGobState, initTable,
\* rehydrateTableProducer).
TableRowsExact ==
    LET have == Delivered
        want == Expected
        gone == FoldLeft(LAMBDA n, item : n + (item.end - item.start), 0, lost)
    IN  ~restarted =>
          /\ \A row \in ToSet(have) : Times(have, row) <= Times(want, row)
          /\ Done => Len(have) + gone = Len(want)
          /\ lost # <<>> => d.queue # <<>>

\* What the optimizer was told holds of the rows: no more of them than Cardinality's Max,
\* none outside the range of Statistics.  And the rows in storage that DynamicToString
\* adds up are no fewer than those delivered, and over a byte stream exactly those (over
\* HTTP every process that served a turn has the running count).
PromisesKept ==
    LET f == d
        have == Delivered
        told == MapThenSumSet(LAMBDA q : profile[q], Processes)
    IN  ~restarted =>
          /\ f.card >= 0 => Len(have) <= f.card
          /\ f.bounds # <<>> => \A row \in ToSet(have) : f.bounds[1] <= row /\ row <= f.bounds[2]
          /\ call.fn = "profiling_demo" =>
               /\ Len(have) <= told
               /\ call.transport = "pipe" => told = Len(have)

\* The annotations of a batch are true of its rows, and of the others: the partition
\* values are the least and the greatest of the batch's keys that are not NULL, a single
\* value where the partitions are single-valued; ranges of a disjoint partitioning do not
\* meet, as long as a partition has no more rows than the keys are apart; the batches in
\* the order of their index are the sequence, if no answer took a work item with it; and
\* a client that keeps a result sees so on the first batch of each stream, whichever
\* rows it has (EmitPartitioned, columnMinMax, EmitBatchIndex, cacheTTL).
AnnotationsTrue ==
  LET f == d
      keys(i) == {r[1] : r \in ToSet(batches[i].rows)} \ {NullKey}
  IN
    ~Broken(call.fn) /\ ~restarted =>
      /\ \A i \in DOMAIN batches :
           f.mark = "partition" /\ batches[i].rows # <<>> =>
             /\ batches[i].values # <<>>
             /\ keys(i) # {} => batches[i].values = <<Min(keys(i)), Max(keys(i))>>
             /\ f.kind = "single" => batches[i].values[1] = batches[i].values[2]
             /\ f.kind = "disjoint" /\ rowsPerPartition(call.args.size) <= KeyStride =>
                  \A j \in DOMAIN batches : i # j =>
                    \/ batches[i].values[2] < batches[j].values[1]
                    \/ batches[j].values[2] < batches[i].values[1]
      /\ f.mark = "index" /\ Done /\ lost = <<>> =>
           LET inOrder == SortSeq(batches, LAMBDA x, y : x.index < y.index)
           IN  FlattenSeq([i \in DOMAIN inOrder |-> inOrder[i].rows]) = Expected
      /\ \A i \in DOMAIN batches :
           batches[i].cached =
             (/\ f.cache # "none"
              /\ f.cache = "every" \/ \A j \in 1..i - 1 : batches[j].stream # batches[i].stream)

\* The call asks for batches of no rows of a generator that has some.
Stalls == d.ok /\ d.size = 0 /\ d.total > 0

\* Every scan that starts comes to an end, unless it was called with a batch size of zero
\* that its bind lets pass (GenerateBatch, Process, handleBind).
TableScanEnds == <>(bound = "refused" \/ Failed \/ Done \/ Stalls)

=============================================================================
