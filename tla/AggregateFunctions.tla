-------------------------- MODULE AggregateFunctions --------------------------
(***************************************************************************)
(* The aggregates of examples/aggregate under the calls the framework      *)
(* makes of them: bind, updates of batches by the threads of a query,      *)
(* merges of the threads' states, finalize; and, for the windowed ones,    *)
(* the evaluation of frames over a stored partition.                       *)
(*                                                                         *)
(* A function is described by which rows it skips, what it keeps of the    *)
(* others and what it makes of that in the end.  Numbers are integers: a   *)
(* mean is its total and its count, a printed label its parts.  Sums stay  *)
(* in the range of their type.                                             *)
(***************************************************************************)
EXTENDS Integers, Sequences, FiniteSetsExt, SequencesExt, TLC

CONSTANTS
    Null,         \* SQL NULL, and a state or an argument that is not there
    Failed,       \* the result of a group that cannot be built
    Names,        \* the functions to choose from
    MaxThreads,   \* of the query; the first is the one the others are merged into
    Groups,
    Values,       \* of a numeric column
    Weights,      \* of the second column
    Axes,         \* values of an axes struct: coordinates, some of them Null
    AxisTypes,    \* Arrow types of the coordinates
    Text,         \* the strings that coordinates of a string axis stand for, in order
    MaxCells,     \* VGI_NEST_TENSOR_MAX_CELLS
    MaxRows,
    ByteBits,     \* bits of a byte of a packed mask (8)
    Partitions,   \* the row counts of window partitions
    Framings      \* the frames asked for, row after row

AxisNames == <<"a", "b">>

-----------------------------------------------------------------------------
(***************************************************************************)
(* Descriptions.                                                           *)
(***************************************************************************)
\* Which rows count, what of them is kept, and what the result is.
Aggregates(skips, keeps, final) ==
    [skips |-> skips, keeps |-> keeps, final |-> final, amount |-> "value", empty |-> Null,
     ordered |-> FALSE, window |-> "none"]

vgi_count == [Aggregates("never", "count", "count") EXCEPT !.empty = 0]

vgi_sum == Aggregates("anyNull", "total", "total")

vgi_avg == Aggregates("anyNull", "mean", "mean")

vgi_weighted_sum == [Aggregates("anyNull", "total", "total") EXCEPT !.amount = "product"]

vgi_listagg == [Aggregates("anyNull", "items", "joined") EXCEPT !.ordered = TRUE]

vgi_percentile == Aggregates("anyNull", "items", "percentile")

vgi_sum_all == [Aggregates("allNull", "total", "total") EXCEPT !.amount = "sum"]

vgi_generic_sum == Aggregates("anyNull", "total", "total")

\* The dynamic aggregates are placeholders with one implementation.
stubAggregate == Aggregates("anyNull", "mean", "counted")

vgi_window_sum == [vgi_sum EXCEPT !.window = "sum"]

\* It declares window support and has none.
vgi_window_sum_batch == vgi_sum

\* Outside of a window it is the mean of its rows.
vgi_window_median == [vgi_avg EXCEPT !.window = "median"]

vgi_window_listagg == [vgi_listagg EXCEPT !.window = "joined"]

vgi_streaming_sum == [vgi_sum EXCEPT !.window = "sum"]

secret_typed_sum == Aggregates("anyNull", "total", "total")

test_same_name_agg(schema) == [Aggregates("anyNull", "total", schema) EXCEPT !.empty = <<schema, 0>>]

nest_tensor ==
    [Aggregates("noAxes", "items", "tensor") EXCEPT !.amount = "cell", !.empty = Null]

Described(name) ==
    CASE name = "vgi_count" -> vgi_count
      [] name = "vgi_sum" -> vgi_sum
      [] name = "vgi_avg" -> vgi_avg
      [] name = "vgi_weighted_sum" -> vgi_weighted_sum
      [] name = "vgi_listagg" -> vgi_listagg
      [] name = "vgi_percentile" -> vgi_percentile
      [] name = "vgi_sum_all" -> vgi_sum_all
      [] name = "vgi_generic_sum" -> vgi_generic_sum
      [] name \in {"vgi_dynamic_agg", "vgi_dynamic_ml_agg"} -> stubAggregate
      [] name = "vgi_window_sum" -> vgi_window_sum
      [] name = "vgi_window_sum_batch" -> vgi_window_sum_batch
      [] name = "vgi_window_median" -> vgi_window_median
      [] name = "vgi_window_listagg" -> vgi_window_listagg
      [] name = "vgi_streaming_sum" -> vgi_streaming_sum
      [] name = "secret_typed_sum" -> secret_typed_sum
      [] name = "main.test_same_name_agg" -> test_same_name_agg("main")
      [] name = "data.test_same_name_agg" -> test_same_name_agg("data")
      [] name = "nest_tensor" -> nest_tensor

-----------------------------------------------------------------------------
(***************************************************************************)
(* Bind.  "arg" is the percentile in quarters, the type of the input or    *)
(* of the coordinates, or the use_ssl of the secret, by the function.      *)
(***************************************************************************)
Arguments(name) ==
    CASE name = "vgi_percentile" -> (-1)..5 \cup {Null}
      [] name = "vgi_generic_sum" -> {"int64", "int32", "float64", "float32", "uint8"}
      [] name = "secret_typed_sum" -> BOOLEAN \cup {Null}
      [] name = "nest_tensor" -> AxisTypes
      [] name = "vgi_sum_all" -> {0, 2}
      [] OTHER -> {Null}

\* The percentile is in [0, 1] and no NULL literal; without one the bind is that of the
\* median, 2.
bindPercentile(arg) == arg \in 0..4

validateCoordType(type) == type \notin {"float16", "float32", "float64", "struct", "list", "map"}

\* Whether OnBind accepts the call.
OnBind(name, arg) ==
    CASE name = "vgi_percentile" -> bindPercentile(arg)
      [] name = "vgi_sum_all" -> arg > 0
      [] name = "nest_tensor" -> validateCoordType(arg)
      [] OTHER -> TRUE

\* The type of the result, where the bind chooses it.
ResultType(name, arg) ==
    CASE name = "vgi_generic_sum" -> arg
      [] name = "secret_typed_sum" -> IF arg = TRUE THEN "float64" ELSE "int64"
      [] OTHER -> "declared"

\* The types a column of the result can be built for.
buildGenericSumColumn(type) == type \in {"declared", "int64", "int32", "float64", "float32"}

-----------------------------------------------------------------------------
(***************************************************************************)
(* Update and Combine.                                                     *)
(***************************************************************************)
\* The row does not change the state, nor make one.
Skipped(f, row) ==
    CASE f.skips = "never" -> FALSE
      [] f.skips = "anyNull" -> row.value = Null \/ (f.amount = "product" /\ row.weight = Null)
      [] f.skips = "allNull" -> row.value = Null /\ row.weight = Null
      [] f.skips = "noAxes" -> row.axes = Null

OrZero(x) == IF x = Null THEN 0 ELSE x

Amount(f, row) ==
    CASE f.amount = "product" -> row.value * row.weight
      [] f.amount = "sum" -> OrZero(row.value) + OrZero(row.weight)
      [] f.amount \in {"value", "cell"} -> OrZero(row.value)

NewState == [total |-> 0, count |-> 0, items |-> <<>>]

\* EnsureState, and what the function does to the state it gets.
Add(f, state, row) ==
    LET s == IF state = Null THEN NewState ELSE state
    IN  [total |-> IF f.keeps \in {"total", "mean"} THEN s.total + Amount(f, row) ELSE 0,
         count |-> IF f.keeps \in {"count", "mean"} THEN s.count + 1 ELSE 0,
         items |-> IF f.keeps = "items"
                     THEN Append(s.items, IF f.amount = "cell" THEN [value |-> row.value, at |-> row.axes]
                                          ELSE row.value)
                     ELSE <<>>]

\* The rows of a batch that one group's state takes in.
Counted(f, batch, g) == SelectSeq(batch, LAMBDA row : row.group = g /\ ~Skipped(f, row))

\* A coordinate as text: a number's digits or the string itself, after the type's letter.
scalarKey(type, x) == IF type = "utf8" THEN <<"s:">> \o Text[x] ELSE <<"i:", ToString(x)>>

\* The key of a row's coordinates joins the names and values of the axes.
buildCoordKey(type, at) ==
    FlattenSeq([a \in DOMAIN at |->
                  (IF a > 1 THEN <<"|">> ELSE <<>>) \o <<AxisNames[a], "=">> \o scalarKey(type, at[a])])

\* nest_tensor refuses a NULL coordinate, and a key that comes twice for a group in
\* the same batch.
AcceptsCells(type, rows) ==
    /\ \A i \in DOMAIN rows : \A a \in DOMAIN rows[i].axes : rows[i].axes[a] # Null
    /\ \A i, j \in DOMAIN rows :
         buildCoordKey(type, rows[i].axes) = buildCoordKey(type, rows[j].axes) => i = j

Accepts(f, type, batch) ==
    f.amount = "cell" => \A g \in Groups : AcceptsCells(type, Counted(f, batch, g))

Update(f, state, rows) == FoldLeft(LAMBDA s, row : Add(f, s, row), state, rows)

\* Mutant: the merged mean forgets the rows of the source.
CombineTotals(source, target) ==
    [total |-> source.total + target.total, count |-> target.count,
     items |-> target.items \o source.items]

\* The target's part comes first.
Combine(source, target) ==
    [total |-> source.total + target.total, count |-> source.count + target.count,
     items |-> target.items \o source.items]

\* A row of the merge batch of handleAggregateCombine.
Merged(source, target) ==
    IF source = Null /\ target = Null THEN Null
    ELSE Combine(IF source = Null THEN NewState ELSE source, IF target = Null THEN NewState ELSE target)

-----------------------------------------------------------------------------
(***************************************************************************)
(* Finalize.                                                               *)
(***************************************************************************)
Product(s) == FoldLeft(LAMBDA x, y : x * y, 1, s)

\* The distinct values of axis a, sorted, and where a value is among them.
sortedKeys(cells, a) == SetToSortSeq({cells[i].at[a] : i \in DOMAIN cells}, <)
keyIndex(keys, x) == (CHOOSE i \in DOMAIN keys : keys[i] = x) - 1

flatIndex(shape, coords) ==
    FoldLeft(LAMBDA idx, a : idx * shape[a] + coords[a], 0, [a \in DOMAIN shape |-> a])

RECURSIVE buildNestedTensor(_, _, _, _)
buildNestedTensor(shape, depth, base, lookup) ==
    IF depth = Len(shape) THEN lookup[base]
    ELSE LET stride == Product(SubSeq(shape, depth + 2, Len(shape)))
         IN  [i \in 1..shape[depth + 1] |->
                buildNestedTensor(shape, depth + 1, base + (i - 1) * stride, lookup)]

\* The tensor of a group and its axes, unless it has too many cells or two values
\* for one of them.
materialiseGroup(cells) ==
    LET axes == [a \in DOMAIN cells[1].at |-> sortedKeys(cells, a)]
        shape == [a \in DOMAIN axes |-> Len(axes[a])]
        flat == [i \in DOMAIN cells |->
                   flatIndex(shape, [a \in DOMAIN axes |-> keyIndex(axes[a], cells[i].at[a])])]
        lookup == [n \in 0..(Product(shape) - 1) |->
                     IF n \notin {flat[i] : i \in DOMAIN cells} THEN Null
                     ELSE cells[CHOOSE i \in DOMAIN cells : flat[i] = n].value]
    IN  IF Product(shape) > MaxCells \/ \E i, j \in DOMAIN cells : i # j /\ flat[i] = flat[j]
        THEN Failed
        ELSE [tensor |-> buildNestedTensor(shape, 0, 0, lookup), axes |-> axes]

\* The value at the percentile of the sorted values; arg is in quarters.
percentileOf(values, arg) ==
    LET sorted == SortSeq(values, <)
        idx == (arg * Len(sorted)) \div 4
    IN  sorted[1 + Min({idx, Len(sorted) - 1})]

Finalize(f, arg, state) ==
    IF state = Null THEN f.empty
    ELSE CASE f.final = "count" -> state.count
           [] f.final = "total" -> state.total
           [] f.final = "mean" -> <<state.total, state.count>>
           [] f.final = "counted" -> state.total
           [] f.final = "joined" -> state.items
           [] f.final = "percentile" -> percentileOf(state.items, arg)
           [] f.final = "tensor" -> materialiseGroup(state.items)
           [] f.final \in {"main", "data"} -> <<f.final, state.total>>

\* The column of the result.  For a group without rows nest_tensor appends to the
\* tensor and to each axis but not to the struct of the axes, which is then too
\* short for the column.
buildColumn(f, type, final) ==
    /\ buildGenericSumColumn(type)
    /\ \A g \in Groups : final[g] # Failed
    /\ f.final = "tensor" => \A g \in Groups : final[g] # Null

-----------------------------------------------------------------------------
(***************************************************************************)
(* Windows.                                                                *)
(***************************************************************************)
\* Bit i of the packed mask; no mask keeps every row.
unpackBoolMask(packed, rowCount) ==
    [i \in 0..(rowCount - 1) |->
       packed = <<>> \/ (i \div ByteBits < Len(packed) /\ packed[i \div ByteBits + 1][i % ByteBits])]

\* The values of a frame, in order, that are neither masked nor NULL.
frameValues(partition, subframes) ==
    LET mask == unpackBoolMask(partition.mask, Len(partition.values))
        rows == FlattenSeq([k \in DOMAIN subframes |->
                              [j \in 1..(subframes[k][2] - subframes[k][1]) |-> subframes[k][1] + j - 1]])
        kept == SelectSeq(rows, LAMBDA i : mask[i] /\ partition.values[i + 1] # Null)
    IN  [k \in DOMAIN kept |-> partition.values[kept[k] + 1]]

\* An even number of values has the mean of the two in the middle.
median(values) ==
    LET sorted == SortSeq(values, <)
        n == Len(sorted)
    IN  IF n % 2 = 1 THEN <<sorted[n \div 2 + 1], 1>>
        ELSE <<sorted[n \div 2] + sorted[n \div 2 + 1], 2>>

Window(f, partition, subframes) ==
    LET values == frameValues(partition, subframes)
    IN  IF values = <<>> THEN Null
        ELSE CASE f.window = "sum" -> FoldLeft(LAMBDA x, y : x + y, 0, values)
               [] f.window = "joined" -> values
               [] f.window = "median" -> median(values)

\* The subframes of row i of a batched request, of the lists that hold all rows'.
framesOf(frames, perRow, i) ==
    LET offset == FoldLeft(LAMBDA x, y : x + y, 0, SubSeq(perRow, 1, i - 1))
    IN  SubSeq(frames, offset + 1, offset + perRow[i])

-----------------------------------------------------------------------------
(***************************************************************************)
(* A query.                                                                *)
(***************************************************************************)
VARIABLES
    query,    \* the function and its argument; never changes
    phase,
    fed,      \* thread -> the rows it was given, in order
    states,   \* thread, group -> the state, Null if there is none
    result,   \* group -> what Finalize answered
    answers   \* the window partition, the frames asked for and the answers

vars == <<query, phase, fed, states, result, answers>>

Threads == 1..MaxThreads

f == Described(query.name)

Fed == FoldLeft(LAMBDA n, s : n + Len(s), 0, fed)

RowsOf(g) ==
    [group : {g}, value : Values \cup {Null}, weight : Weights, axes : Axes]

\* A column the function does not take has one value.
Rows ==
    {row \in UNION {RowsOf(g) : g \in Groups} :
       /\ f.amount \notin {"product", "sum"} => row.weight = CHOOSE w \in Weights : w # Null
       /\ f.amount = "cell" => row.value = CHOOSE v \in Values : TRUE
       /\ f.amount # "cell" => row.axes = Null}

\* The values of a tensor are told apart by when they came.
Numbered(batch) ==
    IF f.amount # "cell" THEN batch
    ELSE [i \in DOMAIN batch |-> [batch[i] EXCEPT !.value = Fed + i]]

Init ==
    /\ query \in UNION {[name : {n}, arg : Arguments(n)] : n \in Names}
    /\ phase = "bind"
    /\ fed = [t \in Threads |-> <<>>]
    /\ states = [t \in Threads |-> [g \in Groups |-> Null]]
    /\ result = Null
    /\ answers = Null

Bind ==
    /\ phase = "bind"
    /\ phase' = IF OnBind(query.name, query.arg) THEN "update" ELSE "refused"
    /\ UNCHANGED <<query, fed, states, result, answers>>

\* handleAggregateUpdate on a batch of a thread: a batch the function refuses ends
\* the query and changes no state.
UpdateBatch(t) ==
    /\ phase = "update"
    /\ \E n \in 1..Min({2, MaxRows - Fed}) : \E rows \in [1..n -> Rows] :
         LET batch == Numbered(rows) IN
         /\ fed' = [fed EXCEPT ![t] = @ \o batch]
         /\ IF Accepts(f, query.arg, batch)
            THEN /\ states' = [states EXCEPT ![t] =
                                 [g \in Groups |-> Update(f, states[t][g], Counted(f, batch, g))]]
                 /\ UNCHANGED phase
            ELSE phase' = "failed" /\ UNCHANGED states
    /\ UNCHANGED <<query, result, answers>>

\* The other threads' groups are merged into the first's, then finalized, those
\* whose rows were all filtered out as well; one group that cannot be built fails
\* the request.
CombineAndFinalize ==
    LET merged(g) == FoldLeft(LAMBDA target, thread : Merged(thread[g], target),
                              states[1][g], Tail(states))
        final == [g \in Groups |-> Finalize(f, query.arg, merged(g))]
    IN  /\ phase = "update"
        /\ IF buildColumn(f, ResultType(query.name, query.arg), final)
           THEN phase' = "done" /\ result' = final
           ELSE phase' = "failed" /\ UNCHANGED result
        /\ UNCHANGED <<query, fed, states, answers>>

\* The engine packs the mask of a partition.
Pack(mask) ==
    [b \in 1..((Len(mask) + ByteBits - 1) \div ByteBits) |->
       [k \in 0..(ByteBits - 1) |->
          (b - 1) * ByteBits + k < Len(mask) /\ mask[(b - 1) * ByteBits + k + 1]]]

\* handleAggregateWindowInit stores a partition and handleAggregateWindowBatch
\* evaluates the frames of its first rows.
EvaluateWindow ==
    /\ phase = "update" /\ Fed = 0
    /\ f.window # "none"
    /\ \E n \in Partitions, framing \in Framings : \E values \in [1..n -> Values \cup {Null}] :
       \E mask \in [1..n -> BOOLEAN] \cup {<<>>} :
         LET partition == [values |-> values, mask |-> IF mask = <<>> THEN <<>> ELSE Pack(mask)]
             frames == FlattenSeq(framing)
             perRow == [i \in DOMAIN framing |-> Len(framing[i])]
         IN  /\ \A k \in DOMAIN frames : frames[k][2] <= n
             /\ answers' = [values |-> values, mask |-> mask, framing |-> framing,
                            out |-> [i \in DOMAIN perRow |-> Window(f, partition, framesOf(frames, perRow, i))]]
    /\ phase' = "done"
    /\ UNCHANGED <<query, fed, states, result>>

Next == Bind \/ CombineAndFinalize \/ EvaluateWindow \/ \E t \in Threads : UpdateBatch(t)

Spec == Init /\ [][Next]_vars

-----------------------------------------------------------------------------
(***************************************************************************)
(* Properties                                                              *)
(***************************************************************************)
\* The rows of group g, the first thread's first.
RowsFed(g) == SelectSeq(FlattenSeq(fed), LAMBDA row : row.group = g)

Total(S, Op(_)) == FoldLeft(LAMBDA x, row : x + Op(row), 0, S)

\* What each function means, over the rows of its group.
Meaning(rows) ==
    LET known == SelectSeq(rows, LAMBDA row : row.value # Null)
        total == Total(known, LAMBDA row : row.value)
        at == SelectSeq(rows, LAMBDA row : row.axes # Null)
        both == SelectSeq(known, LAMBDA row : row.weight # Null)
        name == query.name
    IN CASE name = "vgi_count" -> Len(rows)
         [] name = "vgi_weighted_sum" ->
              IF both = <<>> THEN Null ELSE Total(both, LAMBDA row : row.value * row.weight)
         [] name = "vgi_sum_all" ->
              IF \A i \in DOMAIN rows : rows[i].value = Null /\ rows[i].weight = Null THEN Null
              ELSE Total(rows, LAMBDA row : OrZero(row.value)) + Total(rows, LAMBDA row : OrZero(row.weight))
         [] name \in {"main.test_same_name_agg", "data.test_same_name_agg"} -> <<f.final, total>>
         [] name = "nest_tensor" ->
              [cells |-> [x \in {at[i].axes : i \in DOMAIN at} |->
                            (CHOOSE row \in ToSet(at) : row.axes = x).value]]
         [] name # "nest_tensor" /\ known = <<>> -> Null
         [] name \in {"vgi_avg", "vgi_window_median"} -> <<total, Len(known)>>
         [] name \in {"vgi_listagg", "vgi_window_listagg"} -> [i \in DOMAIN known |-> known[i].value]
         [] OTHER -> total

\* v is at the percentile of the rows: as many are below it as the fraction says.
AtPercentile(v, rows) ==
    LET known == {i \in DOMAIN rows : rows[i].value # Null}
        n == Cardinality(known)
        rank == Min({(query.arg * n) \div 4, n - 1})
    IN  IF known = {} THEN v = Null
        ELSE /\ Cardinality({i \in known : rows[i].value < v}) <= rank
             /\ Cardinality({i \in known : rows[i].value <= v}) > rank

\* Every coordinate of the tensor's axes holds the value of the row that has it, and
\* NULL if none has; every row is at a coordinate.
HoldsCells(r, cells) ==
    /\ \A x \in DOMAIN r.axes[1] : \A y \in DOMAIN r.axes[2] :
         LET at == <<r.axes[1][x], r.axes[2][y]>>
         IN  r.tensor[x][y] = IF at \in DOMAIN cells THEN cells[at] ELSE Null
    /\ \A at \in DOMAIN cells : at[1] \in ToSet(r.axes[1]) /\ at[2] \in ToSet(r.axes[2])
    /\ \A a \in DOMAIN r.axes : \A i \in 1..(Len(r.axes[a]) - 1) : r.axes[a][i] < r.axes[a][i + 1]

\* However the rows of a query are cut into batches and spread over threads, the
\* finalized value of a group is what the function means over all of the group's
\* rows: NULLs skipped, means weighted by the rows behind them, a group without rows
\* NULL or zero, lists in the order of the merge, tensors with every value at its
\* coordinates (Update, Combine and Finalize of examples/aggregate).
AggregatesExact ==
    (phase = "done" /\ result # Null) =>
      \A g \in Groups :
        LET rows == RowsFed(g)
            meant == Meaning(rows)
        IN  CASE query.name = "vgi_percentile" -> AtPercentile(result[g], rows)
              [] query.name = "nest_tensor" -> HoldsCells(result[g], meant.cells)
              [] OTHER -> result[g] = meant

\* No coordinate has the separator of keys in it.
Unseparated(rows) ==
    query.arg = "utf8" =>
      \A i \in DOMAIN rows : \A a \in DOMAIN rows[i].axes :
        rows[i].axes[a] # Null => "|" \notin ToSet(Text[rows[i].axes[a]])

\* nest_tensor fails for what a tensor cannot hold: a NULL coordinate, two rows at one,
\* more cells than the limit; in which batches and threads the rows came makes no
\* difference (buildCoordKey, materialiseGroup).  It fails for nothing else, unless strings
\* with a separator give two rows of a batch one key, or a group has no rows, which
\* fails the column, see buildColumn.
TensorRefusals ==
    (query.name = "nest_tensor" /\ phase \in {"done", "failed"}) =>
      LET rows(g) == SelectSeq(RowsFed(g), LAMBDA row : row.axes # Null)
          holds(g) ==
            LET r == rows(g) IN
              /\ \A i \in DOMAIN r : \A a \in DOMAIN r[i].axes : r[i].axes[a] # Null
              /\ \A i, j \in DOMAIN r : r[i].axes = r[j].axes => i = j
              /\ r = <<>> \/ MaxCells >= Product([a \in DOMAIN r[1].axes |->
                                Cardinality({r[i].axes[a] : i \in DOMAIN r})])
      IN  /\ phase = "done" => \A g \in Groups : holds(g)
          /\ (\A g \in Groups : rows(g) # <<>> /\ Unseparated(rows(g)) /\ holds(g))
               => phase = "done"

\* The answer for each row of a window is that of its own frames over the rows the
\* mask keeps, whatever the rows before it asked for; a frame without a value is NULL
\* (handleAggregateWindowBatch, Window of examples/aggregate/window.go).
WindowsExact ==
    answers # Null =>
      \A i \in DOMAIN answers.framing :
        LET at == {r \in DOMAIN answers.values :
                     /\ \E k \in DOMAIN answers.framing[i] :
                          r > answers.framing[i][k][1] /\ r <= answers.framing[i][k][2]
                     /\ answers.mask = <<>> \/ answers.mask[r]
                     /\ answers.values[r] # Null}
            v == answers.out[i]
            sum(S) == MapThenSumSet(LAMBDA r : answers.values[r], S)
        IN  IF at = {} THEN v = Null
            ELSE CASE f.window = "sum" -> v = sum(at)
                   [] f.window = "joined" ->
                        v = [k \in 1..Cardinality(at) |-> answers.values[SetToSortSeq(at, <)[k]]]
                   [] f.window = "median" ->
                        LET below(S) == {r \in S : v[2] * answers.values[r] <= v[1]}
                            above(S) == {r \in S : v[2] * answers.values[r] >= v[1]}
                        IN  /\ v # Null
                            /\ 2 * Cardinality(below(at)) >= Cardinality(at)
                            /\ 2 * Cardinality(above(at)) >= Cardinality(at)
=============================================================================
