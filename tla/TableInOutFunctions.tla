------------------------- MODULE TableInOutFunctions -------------------------
(***************************************************************************)
(* The functions of examples/table_in_out under the calls the framework    *)
(* makes of them: batches of rows answered in one reply or in pages, by    *)
(* several substreams of a query; finalize streams; the sink, combine and  *)
(* source phases of the buffering ones.  The client may keep results the   *)
(* replies let it keep, and take rows from there.                          *)
(*                                                                         *)
(* A row has two columns.  A function is described by what it makes of a   *)
(* row or a batch, and by what it does at the end of the input.  A printed *)
(* value is the tuple of its parts.                                        *)
(***************************************************************************)
EXTENDS Integers, Sequences, FiniteSetsExt, SequencesExt

CONSTANTS
    Null,         \* SQL NULL, and what is not there
    Names,        \* the functions to choose from
    Streams,      \* the substreams, or the sinking threads, of the query
    InputRows,    \* the input rows to choose from
    MaxRows,      \* of a batch
    MaxBatches,   \* of the input
    MaxInput,     \* rows of the input
    PageSize,     \* the page_size argument of the paged functions
    RowsPerCall,  \* blendedSlicedRowsPerCall (3)
    SourceRows,   \* orderedSourceNRows (16)
    StateBytes    \* what large_state keeps of a batch (1 MB)

-----------------------------------------------------------------------------
(***************************************************************************)
(* Descriptions.                                                           *)
(***************************************************************************)
\* What a function makes of a row, whether the engine pairs its output with input
\* rows, the column types it is tried with, and its arguments.
InOut(makes) ==
    [shape |-> "stream", makes |-> makes, blended |-> FALSE, cache |-> Null, project |-> FALSE,
     filter |-> FALSE, parents |-> FALSE, perCall |-> Null, ends |-> "nothing", types |-> {"int64"}, args |-> {0}]

Blended(makes) == [InOut(makes) EXCEPT !.blended = TRUE]

echo == [InOut("same") EXCEPT !.project = TRUE, !.filter = TRUE, !.types = {"int64", "varchar"}]

slow_cancellable_inout == InOut("same")

repeat_inputs == [InOut("repeated") EXCEPT !.args = {0, 1, 2}]

filter_by_setting == [InOut("atLeast") EXCEPT !.args = {0, 2}]

echo_witness == [InOut("width") EXCEPT !.project = TRUE, !.types = {"int64", "varchar"}]

secret_in_out == [InOut("withSecret") EXCEPT !.args = {"", "secret"}]

test_same_name_transform == [InOut("tagged") EXCEPT !.args = {"main", "data"}]

unnest_tensor_rows == [InOut("cells") EXCEPT !.types = {"int64", "tensor"}]

Summing(ends) == [InOut("nothing") EXCEPT !.ends = ends, !.types = {"int64", "varchar"}]

exception_process == Summing("zero")

exception_finalize == Summing("fails")

substream_partial_sum == [Summing("total") EXCEPT !.types = {"int64"}]

multi_batch_finish == [Summing("totalFirst") EXCEPT !.types = {"int64"}]

\* The arity picks the overload: latitude, longitude and altitude.
geo_encode == [Blended("geohash") EXCEPT !.args = {0, 1}]

geo_encode3 == [Blended("geohash3") EXCEPT !.args = {0, 1}]

row_sum == [Blended("rowSum") EXCEPT !.args = {FALSE, TRUE}]

blended_drop == Blended("nothing")

blended_any == [Blended("first") EXCEPT !.types = {"int64", "varchar"}]

blended_any_varargs == [Blended("same") EXCEPT !.types = {"int64", "varchar"}]

blended_explode == [Blended("explode") EXCEPT !.parents = TRUE]

\* A user's fan-out that has the framework apply the pushed filters.
filtered_explode == [blended_explode EXCEPT !.filter = TRUE]

projectable_blended == [Blended("scaled") EXCEPT !.project = TRUE]

\* Cache control: its lifetime, whether it holds for every value by itself, and
\* whether the client may ask if it is still good.
CacheControl(ttl, perValue, revalidatable) ==
    [ttl |-> ttl, perValue |-> perValue, revalidatable |-> revalidatable]

cached_explode ==
    [Blended("explodeByRound") EXCEPT !.parents = TRUE, !.cache = CacheControl(300, TRUE, FALSE)]

cached_double == [Blended("doubled") EXCEPT !.cache = CacheControl(300, TRUE, FALSE)]

cached_echo == [InOut("same") EXCEPT !.cache = CacheControl(300, FALSE, FALSE)]

cached_reval_echo == [InOut("same") EXCEPT !.cache = CacheControl(0, FALSE, TRUE)]

cached_reval_double == [Blended("doubled") EXCEPT !.cache = CacheControl(0, FALSE, TRUE)]

secret_cached_lateral ==
    [Blended("secret") EXCEPT !.args = {Null, "secret"}, !.cache = CacheControl(300, TRUE, FALSE)]

\* The arguments of the paged functions: cache_ttl, fail_on_page, revalidate and
\* not_modified_more.
pagedArgSpecs ==
    {a \in [size : {0, PageSize}, ttl : {0, 300}, fail : {0, 2}, revalidate : BOOLEAN, moreUnmodified : BOOLEAN] :
       a.moreUnmodified => a.revalidate}

blended_paged == [Blended("paged") EXCEPT !.parents = TRUE, !.args = pagedArgSpecs]

paged_explode == [InOut("paged") EXCEPT !.args = pagedArgSpecs]

blended_sliced ==
    [Blended("sliced") EXCEPT !.parents = TRUE, !.perCall = RowsPerCall, !.args = {a \in pagedArgSpecs :
                                                        a.fail = 0 /\ ~a.revalidate}]

\* What a buffering function appends of a batch, what combine makes of the log,
\* what the source emits, and the step at which it fails.
Buffers(appends, combines, emits) ==
    [shape |-> "buffer", appends |-> appends, combines |-> combines, emits |-> emits, fails |-> "never",
     inOrder |-> FALSE, project |-> FALSE, filter |-> FALSE, types |-> {"int64"}, args |-> {0}]

buffer_input == [Buffers("batch", "nothing", "log") EXCEPT !.types = {"int64", "varchar"}]

echo_buffering == [buffer_input EXCEPT !.project = TRUE, !.filter = TRUE]

ordered_buffer_input == [buffer_input EXCEPT !.inOrder = TRUE]

batch_index_buffer_input == Buffers("indexed", "sorts", "log")

sum_all_columns == [Buffers("sums", "adds", "log") EXCEPT !.types = {"int64", "float64", "varchar"}]

sum_all_columns_simple_distributed == sum_all_columns

cached_sum_all == sum_all_columns

large_state == [Buffers("bytes", "measures", "log") EXCEPT !.types = {"int64", "float64"}]

ordered_source == Buffers("nothing", "numbers", "id")

buffer_emit_wide == [Buffers("nothing", "nothing", "wide") EXCEPT !.args = {0, 2}]

slow_cancellable_buffering == [Buffers("nothing", "nothing", "wide") EXCEPT !.args = {1}]

test_same_name_buffered == [Buffers("tagged", "nothing", "log") EXCEPT !.args = {"main", "data"}]

crash_on_process == [buffer_input EXCEPT !.fails = "process"]

crash_on_combine == [buffer_input EXCEPT !.fails = "combine"]

crash_on_finalize == [buffer_input EXCEPT !.fails = "finalize"]

\* It waits until the query is cancelled.
hang_on_process == [buffer_input EXCEPT !.fails = "process"]

\* What the worker registers.
Described ==
    [echo |-> echo, slow_cancellable_inout |-> slow_cancellable_inout,
     repeat_inputs |-> repeat_inputs, filter_by_setting |-> filter_by_setting,
     echo_witness |-> echo_witness, secret_in_out |-> secret_in_out,
     test_same_name_transform |-> test_same_name_transform,
     unnest_tensor_rows |-> unnest_tensor_rows, exception_process |-> exception_process,
     exception_finalize |-> exception_finalize, substream_partial_sum |-> substream_partial_sum,
     multi_batch_finish |-> multi_batch_finish, geo_encode |-> geo_encode,
     geo_encode3 |-> geo_encode3, row_sum |-> row_sum, blended_drop |-> blended_drop,
     blended_any |-> blended_any, blended_any_varargs |-> blended_any_varargs,
     blended_explode |-> blended_explode, filtered_explode |-> filtered_explode,
     projectable_blended |-> projectable_blended, cached_explode |-> cached_explode,
     cached_double |-> cached_double, cached_echo |-> cached_echo,
     cached_reval_echo |-> cached_reval_echo, cached_reval_double |-> cached_reval_double,
     secret_cached_lateral |-> secret_cached_lateral, blended_paged |-> blended_paged,
     paged_explode |-> paged_explode, blended_sliced |-> blended_sliced,
     buffer_input |-> buffer_input, echo_buffering |-> echo_buffering,
     ordered_buffer_input |-> ordered_buffer_input,
     batch_index_buffer_input |-> batch_index_buffer_input, sum_all_columns |-> sum_all_columns,
     sum_all_columns_simple_distributed |-> sum_all_columns_simple_distributed,
     cached_sum_all |-> cached_sum_all, large_state |-> large_state,
     ordered_source |-> ordered_source, buffer_emit_wide |-> buffer_emit_wide,
     slow_cancellable_buffering |-> slow_cancellable_buffering,
     test_same_name_buffered |-> test_same_name_buffered, crash_on_process |-> crash_on_process,
     crash_on_combine |-> crash_on_combine, crash_on_finalize |-> crash_on_finalize,
     hang_on_process |-> hang_on_process]

-----------------------------------------------------------------------------
(***************************************************************************)
(* What becomes of a row.                                                  *)
(***************************************************************************)
VARIABLES
    call,     \* the function, its arguments and what is pushed to it; never changes
    phase,    \* of the query
    fed,      \* the input batches, in the order of their batch index
    got,      \* what the client has for each of them, or Null
    turn,     \* the call each substream has under way, or Null
    state,    \* the user state of each substream
    stored,   \* ExecutionStorage: the totals the substreams have put
    log,      \* the state log of the execution
    ids,      \* the finalize states left to drain
    flushed,  \* the rows of the finalize streams
    memo      \* results the client keeps: their input, answer and cache control

vars == <<call, phase, fed, got, turn, state, stored, log, ids, flushed, memo>>

fn == Described[call.name]

OrZero(v) == IF v = Null THEN 0 ELSE v

Total(numbers) == FoldLeft(LAMBDA a, b : a + b, 0, numbers)

\* math.Round of a number of halves, in halves: away from zero.
Round(v) == IF v >= 0 THEN 2 * ((v + 1) \div 2) ELSE -2 * ((1 - v) \div 2)

\* Coordinates are in halves: every precision above zero keeps them.
roundTo(v, precision) == IF precision = 0 THEN Round(v) ELSE v

Abs(v) == IF v < 0 THEN -v ELSE v

HasNull(cols) == \E c \in ToSet(cols) : c = Null

\* NULL if a coordinate is NULL, and the rounded coordinates if not.
geoEncode(cols) ==
    IF HasNull(cols) THEN <<Null>>
    ELSE <<[i \in DOMAIN cols |-> roundTo(cols[i], call.arg)]>>

sumOfRow(row) ==
    IF HasNull(row) THEN <<Null>>
    ELSE <<Total([i \in DOMAIN row |-> IF call.arg THEN Abs(row[i]) ELSE row[i]])>>

doubled(row) == IF row[1] = Null THEN <<Null>> ELSE <<2 * row[1]>>

sameNameTag(row) == IF row[1] = Null THEN <<Null>> ELSE <<<<call.arg, row[1]>>>>

scaled(row) == IF row[1] = Null THEN <<Null, Null>> ELSE <<10 * row[1], 100 * row[1]>>

\* The output row of the functions that make one row of one.
Map(row) ==
    CASE fn.makes = "same" -> row
      [] fn.makes = "first" -> <<row[1]>>
      [] fn.makes = "width" -> [i \in DOMAIN row |-> Len(call.columns)]
      [] fn.makes = "withSecret" -> row \o <<call.arg>>
      [] fn.makes = "secret" -> <<call.arg>>
      [] fn.makes = "tagged" -> sameNameTag(row)
      [] fn.makes = "geohash" -> geoEncode(row)
      [] fn.makes = "geohash3" -> geoEncode(row \o <<row[2]>>)
      [] fn.makes = "rowSum" -> sumOfRow(row)
      [] fn.makes = "doubled" -> doubled(row)
      [] fn.makes = "scaled" -> scaled(row)

Maps == {"same", "first", "width", "withSecret", "secret", "tagged", "geohash", "geohash3", "rowSum",
         "doubled", "scaled"}

\* How many rows a fan-out makes of a row: none of NULL or a negative number.
Fan(row) == Max({OrZero(row[1]), 0})

-----------------------------------------------------------------------------
(***************************************************************************)
(* Tensors.  A column of tensors holds its cells in one array, with the    *)
(* offsets of the inner lists in a second and of the outer ones in a       *)
(* third.                                                                  *)
(***************************************************************************)
\* The lengths of the axes; a NULL struct has empty lists.
shape(row) == IF HasNull(row) THEN <<0, 0>> ELSE <<Fan(row), Max({row[2], 0})>>

\* The lengths of the inner lists, and the cells, of a column.
InnerLists(rows) ==
    FlattenSeq([r \in DOMAIN rows |-> [i \in 1..shape(rows[r])[1] |-> shape(rows[r])[2]]])

Cells(rows) ==
    FlattenSeq([r \in DOMAIN rows |->
      FlattenSeq([i \in 1..shape(rows[r])[1] |->
        [j \in 1..shape(rows[r])[2] |-> <<r, i, j>>]])])

\* Where a list begins: after those before it.
ValueOffset(lengths, n) == Total(SubSeq(lengths, 1, n - 1))

\* Every cell of a row's tensor with its coordinates, the last axis fastest.
walkTensor(rows, r) ==
    LET n     == shape(rows[r])
        outer == ValueOffset([k \in DOMAIN rows |-> shape(rows[k])[1]], r)
        leaf(i, j) == Cells(rows)[ValueOffset(InnerLists(rows), outer + i) + j]
    IN FlattenSeq([i \in 1..n[1] |-> [j \in 1..n[2] |-> <<leaf(i, j), i, j>>]])

-----------------------------------------------------------------------------
(***************************************************************************)
(* Pages.                                                                  *)
(***************************************************************************)
\* The user state of a stream: what the summing functions add up, and PagedState.
Start ==
    [batches |-> 0, total |-> 0, rows |-> 0, counts |-> <<>>, row |-> 1, offset |-> 0, callRows |-> 0,
     page |-> 0, emptyFirst |-> FALSE, bump |-> 0]

\* -1 as in the code: the whole output in one reply.
OneReply == -1

pagedCounts(rows) == [i \in DOMAIN rows |-> Fan(rows[i])]

\* The state a new input starts with, and the cache control of its first reply.
pagedBegin(rows, validator) ==
    LET st == [Start EXCEPT !.counts = pagedCounts(rows)]
        stale(etag, unmodified) == [ttl |-> 0, perValue |-> FALSE, revalidatable |-> TRUE, etag |-> etag,
                                    unmodified |-> unmodified]
    IN IF ~call.arg.revalidate
         THEN [state |-> st, cache |-> IF call.arg.ttl = 0 THEN Null
                                       ELSE [ttl |-> call.arg.ttl, perValue |-> FALSE, revalidatable |-> FALSE,
                                             etag |-> Null, unmodified |-> FALSE]]
       ELSE IF validator = Null
         THEN [state |-> [st EXCEPT !.bump = OneReply], cache |-> stale("v1", FALSE)]
       ELSE IF call.arg.moreUnmodified
         THEN [state |-> [st EXCEPT !.bump = 1000, !.emptyFirst = TRUE], cache |-> stale("v1", TRUE)]
       ELSE [state |-> [st EXCEPT !.bump = 1000], cache |-> stale("v2", FALSE)]

\* The loop that fills a page, row after row of the input.
RECURSIVE fillPage(_, _, _)
fillPage(st, page, size) ==
    IF st.row > Len(st.counts) \/ Len(page) >= size THEN [state |-> st, page |-> page]
    ELSE LET take == Min({st.counts[st.row] - st.offset, size - Len(page)})
             rest == st.counts[st.row] - st.offset - take
         IN fillPage([st EXCEPT !.row = IF rest = 0 THEN @ + 1 ELSE @,
                                !.offset = IF rest = 0 THEN 0 ELSE @ + take],
                     page \o [k \in 1..take |-> [parent |-> st.row, value |-> st.offset + k - 1]],
                     size)

\* The next page, whether there is another, and the state after it: rows without
\* output are passed over.
nextPage(st, size) ==
    LET filled == fillPage(st, <<>>, size)
        ahead  == {r \in filled.state.row..Len(st.counts) : st.counts[r] > 0}
        row    == Min(ahead \cup {Len(st.counts) + 1})
    IN [state |-> [filled.state EXCEPT !.row = row], page |-> filled.page, more |-> row <= Len(st.counts)]

\* No page at all is asked to hold more than the whole output.
Whole(st) == Total(st.counts) + 1

pagedNext(st, cache) ==
    LET turned == [st EXCEPT !.page = @ + 1]
        next   == nextPage(turned, IF st.bump = OneReply THEN Whole(st) ELSE call.arg.size)
        bump   == IF st.bump = OneReply THEN 0 ELSE st.bump
        cols(item) == IF fn.makes = "sliced" THEN <<item.value + bump, st.callRows>>
                      ELSE <<item.value + bump>>
    IN IF turned.page = call.arg.fail
         THEN [fails |-> TRUE, state |-> turned]
       ELSE IF turned.page = 1 /\ st.emptyFirst
         THEN [fails |-> FALSE, state |-> turned, batch |-> <<>>, parents |-> <<>>, more |-> TRUE, cache |-> cache]
       ELSE [fails |-> FALSE, state |-> next.state, more |-> next.more, cache |-> cache,
             batch   |-> [k \in DOMAIN next.page |-> cols(next.page[k])],
             parents |-> [k \in DOMAIN next.page |-> next.page[k].parent]]

-----------------------------------------------------------------------------
(***************************************************************************)
(* A reply.                                                                *)
(***************************************************************************)
\* What a function makes of a batch: its rows, and the input row of each if the
\* function says it.
Repeated(rows, n) == FlattenSeq([k \in 1..Max({n, 1}) |-> rows])

exploded(rows) ==
    FlattenSeq([r \in DOMAIN rows |-> [k \in 1..Fan(rows[r]) |-> [parent |-> r, cols |-> <<k - 1>>]]])

\* The first row of every fan-out, then the second of those that have one, and so on.
explodedByRound(rows) ==
    LET rounds == Max({0} \cup {Fan(rows[r]) : r \in DOMAIN rows})
        those(k) == SelectSeq([r \in DOMAIN rows |-> r], LAMBDA r : Fan(rows[r]) >= k)
    IN FlattenSeq([k \in 1..rounds |->
         [i \in DOMAIN those(k) |-> [parent |-> those(k)[i], cols |-> <<k - 1>>]]])

Made(rows) ==
    LET pair(items) == [batch |-> [k \in DOMAIN items |-> items[k].cols],
                        parents |-> [k \in DOMAIN items |-> items[k].parent]]
        alone(batch) == [batch |-> batch, parents |-> <<>>]
    IN CASE fn.makes = "nothing" -> alone(<<>>)
         [] fn.makes = "repeated" -> alone(Repeated(rows, call.arg))
         [] fn.makes = "atLeast" ->
              alone(SelectSeq(rows, LAMBDA row : row[1] # Null /\ OrZero(row[1]) >= call.arg))
         [] fn.makes = "cells" ->
              alone(FlattenSeq([r \in DOMAIN rows |-> walkTensor(rows, r)]))
         [] fn.makes = "explode" -> pair(exploded(rows))
         [] fn.makes = "explodeByRound" -> pair(explodedByRound(rows))
         [] OTHER -> alone([r \in DOMAIN rows |-> Map(rows[r])])

\* Whether an output row passes the pushed filter; one on a NULL does not.
Passes(cols) == call.filter = Null \/ (cols[1] # Null /\ OrZero(cols[1]) >= OrZero(call.filter))

KeptAt(batch) == SelectSeq([i \in DOMAIN batch |-> i], LAMBDA i : Passes(batch[i]))

\* Mutant: the input rows are those of the batch before the filter.
filterParentRowsOfAll(batch, parents) ==
    LET at == KeptAt(batch)
    IN [batch |-> [k \in DOMAIN at |-> batch[at[k]]], parents |-> [k \in DOMAIN at |-> parents[k]]]

\* The rows the filter keeps, with their input rows.
filterParentRows(batch, parents) ==
    LET at == KeptAt(batch)
    IN [batch |-> [k \in DOMAIN at |-> batch[at[k]]], parents |-> [k \in DOMAIN at |-> parents[at[k]]]]

selectColumns(cols) ==
    IF Len(cols) > Len(call.columns) THEN [c \in DOMAIN call.columns |-> cols[call.columns[c]]] ELSE cols

\* The emit of a reply: filtered, then narrowed to the columns asked for.  A reply
\* without parent rows answers the input row by row.
Emitted(made) ==
    LET kept == IF fn.parents THEN filterParentRows(made.batch, made.parents)
                ELSE [batch |-> SelectSeq(made.batch, Passes), parents |-> <<>>]
    IN [k \in DOMAIN kept.batch |->
          [parent |-> IF fn.parents THEN kept.parents[k] ELSE k,
           cols   |-> IF fn.project THEN selectColumns(kept.batch[k]) ELSE kept.batch[k]]]

-----------------------------------------------------------------------------
(***************************************************************************)
(* The query.                                                              *)
(***************************************************************************)
ColumnsOf(d) == IF d.project THEN {<<1, 2>>, <<2>>} ELSE {<<1, 2>>}

FiltersOf(d) == IF d.filter THEN {Null, 1} ELSE {Null}

Calls ==
    UNION {[name : {n}, type : Described[n].types, arg : Described[n].args,
            columns : ColumnsOf(Described[n]), filter : FiltersOf(Described[n])] : n \in Names}

Init ==
    /\ call \in Calls
    /\ phase = "bind"
    /\ fed = <<>> /\ got = <<>>
    /\ turn = [s \in Streams |-> Null]
    /\ state = [s \in Streams |-> Start]
    /\ stored = <<>>
    /\ log = <<>>
    /\ ids = <<>>
    /\ flushed = <<>>
    /\ memo = {}

\* sumColumnsOnBind: there is a column to sum.
sumColumnsOnBind == call.type \in {"int64", "float64"}

checkPagedArgs == call.arg.size >= 1

\* What OnBind checks.
OnBind ==
    CASE fn.shape = "buffer" -> fn.appends = "sums" => sumColumnsOnBind
      [] fn.shape = "stream" -> /\ fn.ends \in {"zero", "fails"} => sumColumnsOnBind
                                /\ fn.makes = "cells" => call.type = "tensor"
                                /\ fn.makes \in {"paged", "sliced"} => checkPagedArgs

Bind ==
    /\ phase = "bind"
    /\ phase' = IF OnBind THEN "input" ELSE "refused"
    /\ UNCHANGED <<call, fed, got, turn, state, stored, log, ids, flushed, memo>>

(***************************************************************************)
(* What the client keeps.                                                  *)
(***************************************************************************)
Entries(input) == {e \in memo : e.input = input}

Fresh(input) == \E e \in Entries(input) : e.cache.ttl > 0

PerValue == \E e \in memo : e.cache.perValue

KeptAnswer(input) == (CHOOSE e \in Entries(input) : TRUE).answer

\* The rows a call is made for: those whose value has no result of its own.
Asked(rows) == IF PerValue THEN SelectSeq(rows, LAMBDA row : ~Fresh(<<row>>)) ELSE rows

ValidatorOf(rows) ==
    IF \E e \in Entries(rows) : e.cache.revalidatable
      THEN (CHOOSE e \in Entries(rows) : e.cache.revalidatable).cache.etag ELSE Null

OfParent(out, r) ==
    LET items == SelectSeq(out, LAMBDA item : item.parent = r)
    IN [k \in DOMAIN items |-> items[k].cols]

\* The answer to a batch: for a blended function row by row, some of them kept ones.
Assembled(rows, asked, out) ==
    LET place(r) == Len(SelectSeq(SubSeq(rows, 1, r), LAMBDA row : ~Fresh(<<row>>)))
    IN IF ~fn.blended THEN [k \in DOMAIN out |-> out[k].cols]
       ELSE [r \in DOMAIN rows |->
               IF rows = asked THEN OfParent(out, r)
               ELSE IF Fresh(<<rows[r]>>) THEN KeptAnswer(<<rows[r]>>)[1]
               ELSE OfParent(out, place(r))]

\* What a complete answer in one reply adds to what is kept.
Kept(asked, out, cache) ==
    IF cache.perValue THEN {[input |-> <<asked[r]>>, answer |-> <<OfParent(out, r)>>, cache |-> cache] : r \in DOMAIN asked}
    ELSE {[input |-> asked, cache |-> cache,
           answer |-> IF fn.blended THEN [r \in DOMAIN asked |-> OfParent(out, r)] ELSE [k \in DOMAIN out |-> out[k].cols]]}

Remember(entries) == {e \in memo : \A f \in entries : e.input # f.input} \cup entries

(***************************************************************************)
(* The input of a streaming function.                                      *)
(***************************************************************************)
\* A row that fills a page is of interest to functions that fan out.
FansOut == fn.shape = "stream" /\ fn.makes \in {"explode", "explodeByRound", "paged", "sliced", "cells"}

Batches ==
    LET rows == {row \in InputRows : FansOut \/ Fan(row) # PageSize}
    IN  UNION {[1..n -> rows] : n \in 0..MaxRows}

\* The client has the whole answer: no call is made.
Served(s, rows) ==
    /\ fn.shape = "stream"
    /\ rows # <<>>
    /\ IF PerValue THEN Asked(rows) = <<>> ELSE Fresh(rows)
    /\ fed' = Append(fed, rows)
    /\ got' = Append(got, [changed |-> FALSE, sizes |-> <<>>,
                           answer |-> IF PerValue THEN [r \in DOMAIN rows |-> KeptAnswer(<<rows[r]>>)[1]]
                                      ELSE KeptAnswer(rows)])
    /\ UNCHANGED <<call, phase, turn, state, stored, log, ids, flushed, memo>>

CacheOf(rows, unmodified) ==
    IF fn.cache = Null THEN Null
    ELSE [ttl |-> fn.cache.ttl, perValue |-> fn.cache.perValue, revalidatable |-> fn.cache.revalidatable,
          etag |-> IF fn.cache.revalidatable THEN rows ELSE Null, unmodified |-> unmodified]

\* Process of a batch: the state after it, and the reply.
Processed(st, rows, validator) ==
    LET made  == Made(rows)
        same  == fn.cache # Null /\ fn.cache.revalidatable /\ validator = rows
        after == [st EXCEPT !.batches = @ + 1, !.rows = @ + Len(rows),
                            !.total = @ + Total([r \in DOMAIN rows |-> OrZero(rows[r][1])])]
        begun == pagedBegin(rows, validator)
    IN CASE fn.makes = "paged" -> pagedNext(begun.state, begun.cache)
         [] fn.makes = "sliced" ->
              IF Len(rows) > RowsPerCall THEN [fails |-> TRUE, state |-> st]
              ELSE pagedNext([Start EXCEPT !.counts = pagedCounts(rows), !.callRows = Len(rows)],
                             IF call.arg.ttl = 0 THEN Null
                             ELSE [ttl |-> call.arg.ttl, perValue |-> TRUE, revalidatable |-> FALSE,
                                   etag |-> Null, unmodified |-> FALSE])
         [] OTHER ->
              [fails   |-> \/ call.name = "exception_process" /\ after.batches % 2 = 0
                           \/ fn.makes = "width" /\ call.type = "varchar",
               state   |-> after,
               batch   |-> IF same THEN <<>> ELSE made.batch,
               parents |-> IF same THEN <<>> ELSE made.parents,
               more    |-> FALSE,
               cache   |-> CacheOf(rows, same)]

\* A reply reaches the client.  An answer that is not modified is the one the client
\* has; a client refuses one that goes on.  A whole answer may be kept.
Receive(s, t, reply, answers) ==
    LET out  == t.out \o Emitted([batch |-> reply.batch, parents |-> reply.parents])
        stale == reply.cache # Null /\ reply.cache.unmodified
        answer == IF stale THEN KeptAnswer(t.asked) ELSE Assembled(t.rows, t.asked, out)
        sizes == Append(t.sizes, Len(reply.batch))
    IN /\ state' = [state EXCEPT ![s] = reply.state]
       /\ IF reply.more
            THEN /\ phase' = IF stale THEN "failed" ELSE phase
                 /\ turn' = [turn EXCEPT ![s] = [t EXCEPT !.out = out, !.sizes = sizes]]
                 /\ got' = answers
                 /\ UNCHANGED memo
            ELSE /\ turn' = [turn EXCEPT ![s] = Null]
                 /\ got' = [answers EXCEPT ![t.index] = [changed |-> t.changed, answer |-> answer, sizes |-> sizes]]
                 /\ memo' = IF reply.cache # Null /\ ~stale /\ Len(t.sizes) = 0
                              THEN Remember(Kept(t.asked, out, reply.cache)) ELSE memo
                 /\ UNCHANGED phase

Fail(answers) ==
    /\ phase' = "failed"
    /\ got' = answers
    /\ UNCHANGED <<turn, state, memo>>

\* A batch is sent, with the validator of the result the client has for it.  The
\* summing functions put their totals under the key of their substream.
Process(s, rows) ==
    LET asked == Asked(rows)
        validator == ValidatorOf(asked)
        reply == Processed(state[s], asked, validator)
        t == [index |-> Len(fed) + 1, rows |-> rows, asked |-> asked, changed |-> validator # Null, out |-> <<>>, sizes |-> <<>>]
    IN /\ fn.shape = "stream"
       /\ turn[s] = Null
       /\ ~(rows # <<>> /\ IF PerValue THEN asked = <<>> ELSE Fresh(rows))
       /\ fn.perCall # Null => Len(rows) <= RowsPerCall
       /\ fed' = Append(fed, rows)
       /\ stored' = IF fn.ends \in {"total", "totalFirst"}
                      THEN [k \in DOMAIN stored \cup {s} |-> IF k = s THEN reply.state ELSE stored[k]]
                      ELSE stored
       /\ IF reply.fails
            THEN Fail(Append(got, Null))
            ELSE Receive(s, t, reply, Append(got, Null))
       /\ UNCHANGED <<call, log, ids, flushed>>

\* A continuation tick: the next page, from the state alone.
Resume(s) ==
    LET reply == pagedNext(state[s], Null)
    IN /\ phase = "input"
       /\ fn.shape = "stream"
       /\ turn[s] # Null
       /\ IF reply.fails THEN Fail(got) ELSE Receive(s, turn[s], reply, got)
       /\ UNCHANGED <<call, fed, stored, log, ids, flushed>>

Quiet == \A s \in Streams : turn[s] = Null

\* The input is over: every substream has a finalize stream to open.
CloseInput ==
    /\ phase = "input"
    /\ fn.shape = "stream"
    /\ Quiet
    /\ phase' = "source"
    /\ ids' = SetToSeq(Streams)
    /\ UNCHANGED <<call, fed, got, turn, state, stored, log, flushed, memo>>

WithoutFirst(seq, i) == SubSeq(seq, 1, i - 1) \o SubSeq(seq, i + 1, Len(seq))

\* Collect removes what it returns.
Collect == <<>>

\* The rows a finalize stream has, of the totals that are stored.
Finalized ==
    LET total == Total([k \in 1..Len(SetToSeq(DOMAIN stored)) |-> stored[SetToSeq(DOMAIN stored)[k]].total])
        rows  == Total([k \in 1..Len(SetToSeq(DOMAIN stored)) |-> stored[SetToSeq(DOMAIN stored)[k]].rows])
    IN CASE fn.ends = "nothing" -> <<>>
         [] fn.ends = "zero" -> <<<<0>>>>
         [] fn.ends = "total" -> <<<<total>>>>
         [] fn.ends = "totalFirst" -> [i \in 1..rows |-> IF i = 1 THEN <<total>> ELSE <<0>>]

\* The init of a finalize stream, in any order of the substreams.
FinalizeStream(i) ==
    /\ phase = "source"
    /\ fn.shape = "stream"
    /\ IF fn.ends = "fails"
         THEN /\ phase' = "failed"
              /\ UNCHANGED <<ids, stored, flushed>>
         ELSE /\ flushed' = flushed \o Finalized
              /\ stored' = IF fn.ends \in {"total", "totalFirst"} THEN Collect ELSE stored
              /\ ids' = WithoutFirst(ids, i)
              /\ phase' = IF Len(ids) = 1 THEN "done" ELSE phase
    /\ UNCHANGED <<call, fed, got, turn, state, log, memo>>

-----------------------------------------------------------------------------
(***************************************************************************)
(* Buffering functions.                                                    *)
(***************************************************************************)
\* A thread takes a batch.  Those of a sink that depends on the order are sent one
\* after the other.
Sink(s, rows) ==
    /\ fn.shape = "buffer"
    /\ turn[s] = Null
    /\ fn.inOrder => Quiet
    /\ fed' = Append(fed, rows)
    /\ turn' = [turn EXCEPT ![s] = Len(fed) + 1]
    /\ UNCHANGED <<call, phase, got, state, stored, log, ids, flushed, memo>>

\* The sums of the columns of some rows.
sumBatch(rows) == [c \in 1..2 |-> Total([r \in DOMAIN rows |-> OrZero(rows[r][c])])]

tagBatch(rows) == [r \in DOMAIN rows |-> sameNameTag(rows[r])]

\* Process of a batch: what it appends, and under which key.
Appended(rows, index) ==
    CASE fn.appends = "batch" -> <<[key |-> "buf", index |-> 0, rows |-> rows]>>
      [] fn.appends = "indexed" -> <<[key |-> "unsorted", index |-> index, rows |-> rows]>>
      [] fn.appends = "sums" -> <<[key |-> "partial", index |-> 0, rows |-> <<sumBatch(rows)>>]>>
      [] fn.appends = "tagged" -> <<[key |-> "buf", index |-> 0, rows |-> tagBatch(rows)]>>
      [] fn.appends = "bytes" -> <<[key |-> "large", index |-> 0, rows |-> <<StateBytes>>]>>
      [] fn.appends = "nothing" -> <<>>

ProcessBatch(s) ==
    /\ phase = "input"
    /\ fn.shape = "buffer"
    /\ turn[s] # Null
    /\ turn' = [turn EXCEPT ![s] = Null]
    /\ IF fn.fails = "process"
         THEN phase' = "failed" /\ UNCHANGED log
         ELSE log' = log \o Appended(fed[turn[s]], turn[s]) /\ UNCHANGED phase
    /\ UNCHANGED <<call, fed, got, state, stored, ids, flushed, memo>>

\* StateLogScan of a key.
Scan(key) == SelectSeq(log, LAMBDA entry : entry.key = key)

RowsOf(entries) == FlattenSeq([k \in DOMAIN entries |-> entries[k].rows])

\* Mutant: the entries stay in the order they came.
sortIndexedNot(entries) == entries

\* sort.SliceStable by the batch index.
sortIndexed(entries) == SortSeq(entries, LAMBDA a, b : a.index < b.index)

Buf(rows) == <<[key |-> "buf", index |-> 0, rows |-> rows]>>

\* What combine appends.
Combined ==
    CASE fn.combines = "sorts" -> sortIndexed(Scan("unsorted"))
      [] fn.combines = "adds" -> Buf(<<sumBatch(RowsOf(Scan("partial")))>>)
      [] fn.combines = "measures" ->
           LET bytes == Total(RowsOf(Scan("large"))) IN Buf(<<<<bytes, bytes>>>>)
      [] OTHER -> <<>>

\* singleValueRow wants int64 columns.
CombineFails == fn.fails = "combine" \/ (fn.combines = "measures" /\ call.type # "int64")

CombineAll ==
    /\ phase = "input"
    /\ fn.shape = "buffer"
    /\ Quiet
    /\ IF CombineFails
         THEN phase' = "failed" /\ UNCHANGED <<log, ids>>
         ELSE /\ phase' = "source"
              /\ log' = log \o [k \in DOMAIN Combined |-> [Combined[k] EXCEPT !.key = "buf"]]
              /\ ids' = IF fn.combines = "numbers" THEN [i \in 1..SourceRows |-> i - 1] ELSE <<0>>
    /\ UNCHANGED <<call, fed, got, turn, state, stored, flushed, memo>>

Sourced(id) ==
    CASE fn.emits = "log" -> RowsOf(Scan("buf"))
      [] fn.emits = "id" -> <<<<id>>>>
      [] fn.emits = "wide" -> [i \in 1..call.arg |-> <<i - 1>>]

\* A source stream, in any order unless the source depends on it; the framework
\* filters its rows and narrows them.
Source(i) ==
    LET kept == SelectSeq(Sourced(ids[i]), Passes)
    IN /\ phase = "source"
       /\ fn.shape = "buffer"
       /\ fn.emits = "id" => i = 1
       /\ IF fn.fails = "finalize"
            THEN phase' = "failed" /\ UNCHANGED <<ids, flushed>>
            ELSE /\ flushed' = flushed \o [k \in DOMAIN kept |-> selectColumns(kept[k])]
                 /\ ids' = WithoutFirst(ids, i)
                 /\ phase' = IF Len(ids) = 1 THEN "done" ELSE phase
       /\ UNCHANGED <<call, fed, got, turn, state, stored, log, memo>>

Feed(s) ==
    /\ phase = "input"
    /\ turn[s] = Null
    /\ Len(fed) < MaxBatches
    /\ \E rows \in Batches :
           /\ Len(FlattenSeq(fed)) + Len(rows) <= MaxInput
           /\ Process(s, rows) \/ Served(s, rows) \/ Sink(s, rows)

Next ==
    \/ Bind
    \/ \E s \in Streams : Feed(s) \/ Resume(s) \/ ProcessBatch(s)
    \/ CloseInput \/ CombineAll
    \/ \E i \in DOMAIN ids : FinalizeStream(i) \/ Source(i)

Spec == Init /\ [][Next]_vars

-----------------------------------------------------------------------------
(***************************************************************************)
(* Properties                                                              *)
(***************************************************************************)
\* What the r-th row of a batch stands for in the output, before the filter.
Meaning(rows, r, changed) ==
    LET n == shape(rows[r])
        base == IF changed THEN 1000 ELSE 0
    IN CASE fn.makes \in Maps -> <<Map(rows[r])>>
         [] fn.makes \in {"explode", "explodeByRound", "paged", "sliced"} ->
              [k \in 1..Fan(rows[r]) |-> <<base + k - 1>>]
         [] fn.makes = "cells" ->
              [k \in 1..(n[1] * n[2]) |->
                 LET i == ((k - 1) \div n[2]) + 1 j == ((k - 1) % n[2]) + 1 IN <<<<r, i, j>>, i, j>>]
         [] fn.makes = "atLeast" ->
              IF rows[r][1] # Null /\ OrZero(rows[r][1]) >= call.arg THEN <<rows[r]>> ELSE <<>>
         [] OTHER -> <<>>

Shown(cols) == IF fn.project THEN [c \in DOMAIN call.columns |-> cols[call.columns[c]]] ELSE cols

Visible(outputs) ==
    LET kept == SelectSeq(outputs, Passes) IN [k \in DOMAIN kept |-> Shown(kept[k])]

\* The answer to a batch: for a blended function that to each of its rows.
Expected(rows, changed) ==
    LET each == [r \in DOMAIN rows |->
                   Visible(IF fn.makes = "width" THEN <<[c \in 1..2 |-> Len(call.columns)]>> ELSE Meaning(rows, r, changed))]
    IN IF fn.blended THEN each
       ELSE IF fn.makes = "repeated" THEN FlattenSeq([n \in 1..Max({call.arg, 1}) |-> rows])
       ELSE FlattenSeq(each)

\* The call_rows column is that of the call that was made, kept or not.
WithoutCallRows(answer) ==
    IF fn.makes # "sliced" THEN answer
    ELSE [r \in DOMAIN answer |-> [k \in DOMAIN answer[r] |-> <<answer[r][k][1]>>]]

\* The replies to an input are full pages: each has page_size rows but the last, and
\* the last has some unless it is the only one (nextPage).
PagesFull ==
    fn.shape = "stream" /\ fn.makes \in {"paged", "sliced"} =>
      \A i \in DOMAIN got :
        got[i] # Null /\ (fn.makes = "sliced" \/ ~call.arg.revalidate \/ got[i].changed) =>
          LET sizes == got[i].sizes
          IN /\ \A k \in 1..(Len(sizes) - 1) : sizes[k] = call.arg.size
             /\ Len(sizes) > 1 => Last(sizes) \in 1..call.arg.size

\* Every input row has its own output, and only that: however its batch is answered,
\* in one reply or in pages that cut through rows, by a fan-out that interleaves the
\* rows, filtered by the framework together with its parent rows, or from a result
\* the client was told to keep and that a validator did or did not confirm; and pages
\* are full ("the last page is never followed by an empty one", nextPage).
InOutRowsExact ==
    /\ PagesFull
    /\ \A i \in DOMAIN got :
           got[i] # Null => WithoutCallRows(got[i].answer) = Expected(fed[i], got[i].changed)

AllRows == FlattenSeq(fed)

Bag(seq) == [v \in ToSet(seq) |-> Cardinality({k \in DOMAIN seq : seq[k] = v})]

\* The sum functions and the buffering functions end with what their whole input
\* stands for, whatever the order in which substreams and threads came: every
\* substream's total counted once, every buffered row once, and in the order of the
\* input where the sink or the batch index keeps it.
FinalRowsExact ==
    phase = "done" =>
      LET x == Total([k \in DOMAIN AllRows |-> OrZero(AllRows[k][1])])
          y == Total([k \in DOMAIN AllRows |-> OrZero(AllRows[k][2])])
          firsts == [k \in DOMAIN flushed |-> flushed[k][1]]
      IN CASE fn.shape = "stream" /\ fn.ends = "nothing" -> flushed = <<>>
           [] fn.shape = "stream" /\ fn.ends = "zero" -> flushed = [s \in 1..Cardinality(Streams) |-> <<0>>]
           [] fn.shape = "stream" /\ fn.ends = "total" ->
                Len(flushed) = Cardinality(Streams) /\ Total(firsts) = x
           [] fn.shape = "stream" /\ fn.ends = "totalFirst" ->
                Len(flushed) = Len(AllRows) /\ Total(firsts) = x
           [] fn.shape = "buffer" ->
                /\ fn.appends = "batch" => Bag(flushed) = Bag(Visible(AllRows))
                /\ fn.appends = "indexed" \/ fn.inOrder => flushed = AllRows
                /\ fn.appends = "sums" => flushed = <<<<x, y>>>>
                /\ fn.appends = "bytes" => flushed = <<<<StateBytes * Len(fed), StateBytes * Len(fed)>>>>
                /\ fn.appends = "tagged" => Bag(flushed) = Bag(tagBatch(AllRows))
                /\ fn.emits = "id" => firsts = [k \in 1..SourceRows |-> k - 1]
                /\ fn.emits = "wide" => firsts = [k \in 1..call.arg |-> k - 1]
=============================================================================
