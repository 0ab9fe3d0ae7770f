---------------------------- MODULE TableFunctions ----------------------------
(***************************************************************************)
(* The table functions of examples/table, and the generator helpers they   *)
(* are written with (table_generate.go, batch_emit.go).                    *)
(*                                                                         *)
(* A function is described by what a scan of it depends on: whether the    *)
(* bind accepts the arguments, how many workers OnInit allows and the work *)
(* items it queues, the row at each index, how Process cuts rows into      *)
(* batches and annotates them, and what Cardinality and Statistics say of  *)
(* the result.  A row carries the columns whose values differ from row to  *)
(* row; a label printed from an index is that index.                       *)
(***************************************************************************)
EXTENDS Integers, Sequences, SequencesExt, FiniteSets, FiniteSetsExt

CONSTANTS
    DefaultBatch,   \* the rows of a batch where the caller names none (1000, 1024, 2048)
    ChunkSize,      \* partitionChunkSize, batchIndexChunk (1000)
    KeyStride,      \* between the keys of disjoint partitions (1000)
    Countries,      \* pcCountries (5)
    MaxChunks,      \* cacheParallelMaxChunks (24)
    Fixed,          \* rows of a generator of fixed length (10, 10000)
    Now             \* the current version of the versioned tables (3)

Unknown == -1       \* a cardinality that is not given, a batch without an index
NullKey == -2       \* a partition key that is NULL
Clip(n) == Max({n, 0})
AtMost(a, b) == Min({a, b})

-----------------------------------------------------------------------------
(***************************************************************************)
(* Descriptions.                                                           *)
(***************************************************************************)
\* Process is GenerateBatch over an index and a number of remaining rows.
Generator(total, size, row) ==
    [process |-> "generate", ok |-> TRUE, total |-> total, size |-> size, row |-> row,
     workers |-> 1, queue |-> <<>>, card |-> Unknown, bounds |-> <<>>,
     mark |-> "none", kind |-> "none", explicit |-> <<>>, fails |-> "never",
     lookups |-> FALSE, cache |-> "none", state |-> "exported"]

\* Process emits everything, sets Done, and finishes when it is called again.
Once(total, row) == [Generator(total, total, row) EXCEPT !.process = "once"]

\* Process emits everything and finishes in the same call.
Burst(total, row) == [Generator(total, total, row) EXCEPT !.process = "burst"]

\* Process pops a work item when it has none, and generates from it.
Chunked(items, row) ==
    [Generator(0, ChunkSize, row) EXCEPT !.process = "chunks", !.workers = 4, !.queue = items]

\* Process pops a work item and emits it whole.
Popped(items, row) == [Chunked(items, row) EXCEPT !.process = "items"]

Identity == [i \in Int |-> i]

-----------------------------------------------------------------------------
(***************************************************************************)
(* Generators.                                                             *)
(***************************************************************************)
\* The maximum forgets the increment.
sequenceUnscaled(a) ==
    [Generator(a.n, a.size, [i \in Int |-> i * a.step]) EXCEPT
       !.ok = ~a.flag /\ a.size >= 1 /\ a.step >= 1,
       !.card = a.n,
       !.bounds = IF a.n <= 0 THEN <<>> ELSE <<0, a.n - 1>>]

sequence(a) ==
    [Generator(a.n, a.size, [i \in Int |-> i * a.step]) EXCEPT
       !.ok = ~a.flag /\ a.size >= 1 /\ a.step >= 1,
       !.card = a.n,
       !.bounds = IF a.n <= 0 THEN <<>> ELSE <<0, (a.n - 1) * a.step>>]

double_sequence(a) == [sequence(a) EXCEPT !.ok = TRUE]

ten_thousand == Generator(Fixed, AtMost(DefaultBatch, Fixed), Identity)

\* The metadata struct and the list of the last indices are functions of the index.
nested_sequence(a) ==
    [Generator(a.n, a.size, [i \in Int |-> <<i, [k \in 1..AtMost(i + 1, 2) |-> Clip(i - 1) + k - 1]>>])
       EXCEPT !.card = a.n]

projected_data(a) == [Generator(a.n, DefaultBatch, [i \in Int |-> <<i, i * i>>]) EXCEPT !.card = a.n]

repeat_value(a) == Generator(Clip(a.n), DefaultBatch, [i \in Int |-> a.step])

\* layout and row_id_type must be among three choices each.
rowid_sequence(a) == [Generator(Clip(a.n), DefaultBatch, Identity) EXCEPT !.ok = ~a.flag]

make_series_count(a) == [Generator(Clip(a.n), DefaultBatch, Identity) EXCEPT !.ok = a.n >= 0]

\* From size to n, which may be empty.
make_series_range(a) == Generator(Clip(a.n - a.size), DefaultBatch, [i \in Int |-> a.size + i])

seriesLength(start, stop, step) == Clip((stop - start + step - 1) \div step)

make_series_step(a) ==
    [Generator(seriesLength(a.size, a.n, a.step), DefaultBatch, [i \in Int |-> a.size + i * a.step])
       EXCEPT !.ok = a.step >= 1]

\* The parts of the list that parse, in order: every other one does.
make_series_csv(a) ==
    LET parts == [i \in 1..Clip(a.n) |-> IF i % 2 = 1 THEN i ELSE Unknown]
        values == SelectSeq(parts, LAMBDA p : p # Unknown)
    IN  Generator(Len(values), DefaultBatch, [i \in Int |-> values[i + 1]])

make_series_float(a) == Generator(Fixed, DefaultBatch, [i \in Int |-> i * a.step])

make_pairs_int(a) == Generator(Clip(a.n), DefaultBatch, [i \in Int |-> <<i, i * a.step>>])

make_pairs_str(a) == Generator(Fixed, DefaultBatch, Identity)

\* repeatScalar: n copies of one element, by doubling what there is.
repeatScalar(n) ==
    LET grown[len \in Nat] == IF len >= n THEN len ELSE grown[len + AtMost(len, n - len)]
    IN  IF n <= 0 THEN 0 ELSE grown[1]

\* GenerateBatch written out, with columns of repeatScalar.
constant_columns(a) ==
    [Generator(a.n, DefaultBatch, [i \in Int |-> a.step]) EXCEPT !.process = "repeat", !.card = a.n]

profiling_demo(a) == [Generator(a.n, a.size, [i \in Int |-> i * a.step]) EXCEPT !.card = a.n]

proj_repro_strict(a) == [Generator(a.n, a.n, Identity) EXCEPT !.card = a.n]
proj_repro_full_schema(a) == [Generator(a.n, a.n, Identity) EXCEPT !.card = a.n]
proj_repro_chunked(a) == [Generator(a.n, 2, Identity) EXCEPT !.card = a.n]

\* Four workers, and each has a state that covers all rows.
proj_repro_multi_worker(a) == [proj_repro_chunked(a) EXCEPT !.workers = 4]

typed_probe(a) == [Generator(a.n, a.n, Identity) EXCEPT !.card = a.n]

union_varargs(a) == Generator(Clip(a.n), Clip(a.n) + 1, Identity)

order_echo(a) == [Generator(a.n, a.size, Identity) EXCEPT !.card = a.n]
sample_echo(a) == order_echo(a)

\* row_id is the index, or half of it when duplicates are asked for; ord is NULL on
\* every step-th row.
late_materialization(a) ==
    [Generator(a.n, a.size, [i \in Int |->
        <<IF a.flag THEN i \div 2 ELSE i, IF a.step > 0 /\ i % a.step = 0 THEN Unknown ELSE i>>])
       EXCEPT !.card = a.n]

settings_aware(a) == [Generator(a.n, DefaultBatch, [i \in Int |-> <<i, i * a.step>>]) EXCEPT !.card = a.n]
struct_settings(a) ==
    [Generator(a.n, DefaultBatch, [i \in Int |-> <<a.size + i * a.step, i>>]) EXCEPT !.card = a.n]
named_params_echo(a) == settings_aware(a)

\* One row a call.
logging_generator(a) == Generator(a.n, 1, Identity)
slow_cancellable(a) == Generator(a.n, 1, Identity)
generator_exception(a) == [Generator(a.n, 1, Identity) EXCEPT !.fails = "end"]

-----------------------------------------------------------------------------
(***************************************************************************)
(* Scans of a few fixed rows.                                              *)
(***************************************************************************)
departments_scan == Once(3, [i \in Int |-> i + 1])
employees_scan == Once(5, [i \in Int |-> <<i + 1, <<1, 1, 2, 2, 3>>[i + 1]>>])
projects_scan == Once(3, [i \in Int |-> <<<<1, 1, 2>>[i + 1], i>>])
products_scan == Once(3, [i \in Int |-> i + 1])
same_name_table == Once(1, Identity)
projection_sequence == Once(Fixed, Identity)
colors_scan == [Burst(3, [i \in Int |-> i + 1]) EXCEPT !.card = 3]

\* Version 0 stands for the current one; a version that is not a key is refused.
ResolveVersion(v) == IF v = 0 THEN Now ELSE v

versioned_data(a) ==
    LET v == ResolveVersion(a.n)
    IN  IF v \notin 1..3 THEN [Once(0, Identity) EXCEPT !.ok = FALSE]
        ELSE Once(<<3, 5, 4>>[v], [i \in Int |-> <<v, i + 1>>])

versioned_constraints(a) ==
    LET v == ResolveVersion(a.n)
    IN  IF v \notin 1..3 THEN [Once(0, Identity) EXCEPT !.ok = FALSE]
        ELSE Once(<<2, 3, 3>>[v], [i \in Int |-> <<v, i + 1>>])

\* The version comes with the scan, and a bad one fails the init, not the bind.
tt_pushdown(a) ==
    LET v == IF a.n = 0 THEN 2 ELSE a.n
    IN  IF v \notin 1..2 THEN [Once(0, Identity) EXCEPT !.fails = "init"]
        ELSE Once(5 * v, [i \in Int |-> <<i + 1, v>>])

\* The cols variant takes the version from its argument, and has no rows for a bad one.
tt_pushdown_cols(a) == [tt_pushdown(a) EXCEPT !.fails = "never"]

\* The value the bind settled on; here the first call of its transaction, so the one it asks for.
tx_cached_value(a) == [Once(1, [i \in Int |-> a.step]) EXCEPT !.card = 1]

secret_demo(a) == Burst(Clip(a.n), Identity)

\* The first bind answers with the secrets it needs, the second has them.
scoped_secret_demo == [Burst(1, Identity) EXCEPT !.lookups = TRUE]
multi_secret_demo == [Burst(1, Identity) EXCEPT !.lookups = TRUE]

-----------------------------------------------------------------------------
(***************************************************************************)
(* Work queues.                                                            *)
(***************************************************************************)
\* The chunks of 0..count-1, in order.
pushChunks(count, chunk) ==
    LET chunks == (Clip(count) + chunk - 1) \div chunk
    IN  [p \in 1..chunks |-> [pid |-> p - 1, start |-> (p - 1) * chunk, end |-> AtMost(p * chunk, count)]]

pushIndexQueue(n, rows) ==
    [p \in 1..n |-> [pid |-> p - 1, start |-> (p - 1) * rows, end |-> p * rows]]

partitioned_sequence(a) ==
    [Chunked(pushChunks(a.n, ChunkSize), [i \in Int |-> i * a.step]) EXCEPT !.card = a.n]

\* One function under three order promises, which the engine reads.
partitioned_order_modes(a) == [Chunked(pushChunks(a.n, ChunkSize), Identity) EXCEPT !.card = a.n]

partitioned_batch_index(a) ==
    [Popped(pushChunks(a.n, ChunkSize), Identity) EXCEPT !.card = a.n, !.mark = "index"]

partitioned_batch_index_marked(a) ==
    LET chunk == IF a.size <= 0 THEN ChunkSize ELSE a.size
    IN  [Popped(pushChunks(a.n, chunk), [i \in Int |-> <<i \div chunk, i % chunk>>])
           EXCEPT !.card = a.n, !.mark = "index"]

\* One batch per partition; a row is its partition key and its number in the partition.
Partitioned(n, rows, key(_, _), kind) ==
    [Popped(pushIndexQueue(n, rows), [i \in Int |-> <<key(i \div rows, i % rows), i % rows>>])
       EXCEPT !.mark = "partition", !.kind = kind]

Own(p, i) == p

country_partitioned_sales(a) == Partitioned(Countries, Clip(a.n), Own, "single")

trailing_partition_sales(a) ==
    [Partitioned(Countries, Clip(a.n), Own, "single") EXCEPT !.ok = a.n >= 1, !.explicit = <<"own">>]

\* Two partition columns: their pair.
region_year_partitioned(a) == Partitioned(Countries + 1, Clip(a.n), Own, "single")

partitioned_with_explicit_override(a) ==
    [Partitioned(3, Clip(a.n), Own, "single") EXCEPT !.explicit = <<"own">>]

rowsPerPartition(size) == IF size <= 0 THEN Fixed ELSE size

disjoint_range_partitioned(a) ==
    Partitioned(Clip(a.n), rowsPerPartition(a.size), LAMBDA p, i : p * KeyStride + i, "disjoint")

overlapping_range_partitioned(a) ==
    Partitioned(Clip(a.n), rowsPerPartition(a.size), LAMBDA p, i : p * (KeyStride \div 2) + i, "overlapping")

-----------------------------------------------------------------------------
(***************************************************************************)
(* Fixtures that break the contract of their annotation on purpose.        *)
(***************************************************************************)
BrokenPartition(a) == [Once(Clip(a.n), [i \in Int |-> <<0, i>>]) EXCEPT !.mark = "partition", !.kind = "single"]

broken_missing_batch_index_tag(a) == Once(Clip(a.n), Identity)
broken_batch_index_overflow(a) == [Once(Clip(a.n), Identity) EXCEPT !.mark = "index"]
broken_non_monotone_batch_index(a) ==
    [Once(Clip(a.n), Identity) EXCEPT !.mark = "index", !.process = "nonMonotone"]
broken_missing_partition_values(a) == [BrokenPartition(a) EXCEPT !.mark = "none"]
broken_partition_min_neq_max(a) == [BrokenPartition(a) EXCEPT !.explicit = <<"other">>]
broken_partition_values_no_annotation(a) ==
    [BrokenPartition(a) EXCEPT !.kind = "none", !.explicit = <<"own">>]
broken_partition_column_absent_from_batch(a) == [BrokenPartition(a) EXCEPT !.kind = "absent"]

-----------------------------------------------------------------------------
(***************************************************************************)
(* Functions that show the filters they were given, and scans with columns *)
(* that must be filtered: the rows do not depend on the filters, which the *)
(* framework or the engine applies (FilterPushdown).                       *)
(***************************************************************************)
filter_echo(a) == [Generator(a.n, a.size, Identity) EXCEPT !.card = a.n]
bool_filter_echo(a) == [Generator(a.n, a.n, [i \in Int |-> <<i, i % 3>>]) EXCEPT !.card = a.n]
dict_filter_echo(a) == [Generator(a.n, a.size, [i \in Int |-> <<i, i % 3>>]) EXCEPT !.card = a.n]
filter_echo_table == Once(Fixed, Identity)
filter_echo_partitioned(a) == [Chunked(pushChunks(a.n, ChunkSize), Identity) EXCEPT !.card = a.n]
expression_filter_test(a) ==
    [Generator(a.n, DefaultBatch, [i \in Int |-> <<i, i % 5, (i + 1) % 5>>]) EXCEPT !.card = a.n]
filtered_columns_echo(a) == [Generator(Clip(a.n), DefaultBatch, Identity) EXCEPT !.card = a.n]

\* The points of a square grid, row by row.
spatial_filter_example(a) ==
    LET cols == Min({c \in 1..Max({1, a.n}) : c * c >= a.n})
    IN  [Generator(a.n, a.size, [i \in Int |-> <<i, i % cols, i \div cols>>]) EXCEPT !.card = a.n]

\* Downwards, so that a Top-N above it keeps tightening its filter.
dynamic_filter_echo(a) == [Generator(a.n, a.size, [i \in Int |-> a.n - 1 - i]) EXCEPT !.card = a.n]

\* Without a filter on n it is the sequence.
value_prune(a) == [Generator(a.n, a.size, Identity) EXCEPT !.card = a.n, !.fails = IF a.n < 0 THEN "init" ELSE "never"]

rff_simple_scan == Once(3, [i \in Int |-> <<i + 1, 10 * (i + 1)>>])
rff_none_scan == rff_simple_scan
rff_struct_scan == Once(3, [i \in Int |-> <<i + 1, 100 * (i + 1)>>])
rff_nested_scan == Once(3, [i \in Int |-> i + 1])
rff_multi_scan == Once(2, [i \in Int |-> <<i + 1, 100 * (i + 1)>>])
rff_rowid_scan == Once(Fixed, [i \in Int |-> <<i, i * 10>>])

-----------------------------------------------------------------------------
(***************************************************************************)
(* Functions whose result the engine may keep.  They advertise it on their *)
(* first batch ("index": the batch that starts at row 0, "stream": the     *)
(* first of each stream) or on each batch ("every").                       *)
(***************************************************************************)
Kept(f, mode) == [f EXCEPT !.cache = mode]

cacheable_numbers(a) == Kept([Generator(a.n, DefaultBatch, Identity) EXCEPT !.ok = a.n >= 0], "index")
cache_no_store(a) == [cacheable_numbers(a) EXCEPT !.cache = "none"]
cache_scoped_txn(a) == cacheable_numbers(a)
cache_big(a) == cacheable_numbers(a)
cache_bench(a) == cacheable_numbers(a)
cache_filtered(a) == cacheable_numbers(a)
cache_types(a) == [cacheable_numbers(a) EXCEPT !.row = [i \in Int |-> <<i, i % 5 = 0>>]]
cache_multicol(a) == [cacheable_numbers(a) EXCEPT !.size = a.n, !.row = [i \in Int |-> <<i, i * 10, i * 100>>]]

cache_nonce == Kept(Once(1, Identity), "every")
cache_whoami == cache_nonce
secret_cache_nonce == cache_nonce
test_same_name_cached == cache_nonce
cache_projection == Kept(Once(3, [i \in Int |-> i + 1]), "every")

\* An unknown version is the current one.
cache_versioned_scan(a) ==
    LET v == IF a.n \in 1..3 THEN a.n ELSE Now
    IN  Kept(Once(<<3, 2, 4>>[v], [i \in Int |-> <<v, i + 1>>]), "every")

\* A client whose tag still matches is told so, with no rows.
cache_revalidatable(a) == Kept(Once(IF a.flag THEN 0 ELSE 1, Identity), "every")

\* A batch that may be kept, and then a failure: the error of Process, or a batch the
\* client cannot fetch.
cache_poison == Kept([Generator(3, 3, Identity) EXCEPT !.fails = "end"], "index")
cache_external_fail == Kept([Generator(3, 3, Identity) EXCEPT !.process = "external"], "index")

cache_parallel(a) ==
    LET chunk == Max({1, (Clip(a.n) + MaxChunks - 1) \div MaxChunks})
    IN  Kept([Chunked(pushChunks(a.n, chunk), Identity) EXCEPT !.size = a.size, !.ok = a.n >= 0 /\ a.size >= 1],
             "stream")

cache_ordered(a) ==
    Kept([Chunked(pushChunks(a.n, Max({a.size, 1})), Identity) EXCEPT
            !.size = DefaultBatch, !.mark = "index", !.ok = a.n >= 0 /\ a.size >= 1], "stream")

\* One stream walks over the partitions, a batch each.
Walk(n, rows, mode) ==
    Kept([Partitioned(n, rows, Own, "single") EXCEPT
            !.process = "generate", !.queue = <<>>, !.workers = 1, !.total = n * rows, !.size = rows,
            !.ok = rows >= 1], mode)

cache_partitioned(a) == Walk(Countries, a.n, "stream")
cache_partition_scope(a) == Walk(Countries, a.n, "every")
cache_partition_multicol(a) == Walk(4, a.n, "every")
cache_partition_proj(a) == [Walk(2, a.n, "every") EXCEPT !.explicit = <<"own">>]

\* The last partition is that of NULL.
cache_partition_parallel(a) ==
    Kept([Partitioned(4, a.n, Own, "single") EXCEPT !.explicit = <<"own">>, !.ok = a.n >= 1], "every")

-----------------------------------------------------------------------------
(***************************************************************************)
(* Functions of a user: with a state that is carried as its type allows,   *)
(* and with partition keys that may be NULL.                               *)
(***************************************************************************)
user_exported(a) == Generator(a.n, a.size, Identity)
user_unexported(a) == [user_exported(a) EXCEPT !.state = "unexported"]
user_encoder(a) == [user_exported(a) EXCEPT !.state = "encoder"]
user_interface(a) == [user_exported(a) EXCEPT !.state = "interface"]

\* Partitions that begin with a row without a key.
user_null_keys(a) == Partitioned(Countries, a.size, LAMBDA q, i : IF i = 0 THEN NullKey ELSE q, "single")

Functions ==
    {"sequence", "double_sequence", "ten_thousand", "nested_sequence", "projected_data", "repeat_value",
     "rowid_sequence", "make_series_count", "make_series_range", "make_series_step", "make_series_csv",
     "make_series_float", "make_pairs_int", "make_pairs_str", "constant_columns", "profiling_demo",
     "proj_repro_strict", "proj_repro_full_schema", "proj_repro_chunked", "proj_repro_multi_worker",
     "typed_probe", "union_varargs", "order_echo", "sample_echo", "late_materialization", "settings_aware",
     "struct_settings", "named_params_echo", "logging_generator", "slow_cancellable", "generator_exception",
     "departments_scan", "employees_scan", "projects_scan", "products_scan", "same_name_table",
     "projection_sequence", "colors_scan", "versioned_data", "versioned_constraints", "tt_pushdown",
     "tt_pushdown_cols", "tx_cached_value", "secret_demo", "scoped_secret_demo", "multi_secret_demo",
     "partitioned_sequence", "partitioned_order_modes", "partitioned_batch_index",
     "partitioned_batch_index_marked", "country_partitioned_sales", "trailing_partition_sales",
     "region_year_partitioned", "partitioned_with_explicit_override", "disjoint_range_partitioned",
     "overlapping_range_partitioned", "broken_missing_batch_index_tag", "broken_batch_index_overflow",
     "broken_non_monotone_batch_index", "broken_missing_partition_values", "broken_partition_min_neq_max",
     "broken_partition_values_no_annotation", "broken_partition_column_absent_from_batch",
     "filter_echo", "bool_filter_echo", "dict_filter_echo", "filter_echo_table", "filter_echo_partitioned",
     "expression_filter_test", "spatial_filter_example", "filtered_columns_echo", "dynamic_filter_echo", "value_prune",
     "rff_simple_scan", "rff_none_scan", "rff_struct_scan", "rff_nested_scan", "rff_multi_scan",
     "rff_rowid_scan", "cacheable_numbers", "cache_no_store", "cache_scoped_txn", "cache_big",
     "cache_bench", "cache_filtered", "cache_types", "cache_multicol", "cache_nonce",
     "cache_whoami", "secret_cache_nonce", "test_same_name_cached", "cache_projection", "cache_versioned_scan",
     "cache_revalidatable", "cache_poison", "cache_external_fail", "cache_parallel", "cache_ordered",
     "cache_partitioned", "cache_partition_scope", "cache_partition_multicol", "cache_partition_proj", "cache_partition_parallel",
     "user_exported", "user_unexported", "user_encoder", "user_interface", "user_null_keys"}

Broken(fn) ==
    fn \in {"broken_missing_batch_index_tag", "broken_batch_index_overflow",
            "broken_non_monotone_batch_index", "broken_missing_partition_values", "broken_partition_min_neq_max"}

\* The function of a name.
Describe(fn, a) ==
    CASE fn = "sequence" -> sequence(a)
      [] fn = "double_sequence" -> double_sequence(a)
      [] fn = "ten_thousand" -> ten_thousand
      [] fn = "nested_sequence" -> nested_sequence(a)
      [] fn = "projected_data" -> projected_data(a)
      [] fn = "repeat_value" -> repeat_value(a)
      [] fn = "rowid_sequence" -> rowid_sequence(a)
      [] fn = "make_series_count" -> make_series_count(a)
      [] fn = "make_series_range" -> make_series_range(a)
      [] fn = "make_series_step" -> make_series_step(a)
      [] fn = "make_series_csv" -> make_series_csv(a)
      [] fn = "make_series_float" -> make_series_float(a)
      [] fn = "make_pairs_int" -> make_pairs_int(a)
      [] fn = "make_pairs_str" -> make_pairs_str(a)
      [] fn = "constant_columns" -> constant_columns(a)
      [] fn = "profiling_demo" -> profiling_demo(a)
      [] fn = "proj_repro_strict" -> proj_repro_strict(a)
      [] fn = "proj_repro_full_schema" -> proj_repro_full_schema(a)
      [] fn = "proj_repro_chunked" -> proj_repro_chunked(a)
      [] fn = "proj_repro_multi_worker" -> proj_repro_multi_worker(a)
      [] fn = "typed_probe" -> typed_probe(a)
      [] fn = "union_varargs" -> union_varargs(a)
      [] fn = "order_echo" -> order_echo(a)
      [] fn = "sample_echo" -> sample_echo(a)
      [] fn = "late_materialization" -> late_materialization(a)
      [] fn = "settings_aware" -> settings_aware(a)
      [] fn = "struct_settings" -> struct_settings(a)
      [] fn = "named_params_echo" -> named_params_echo(a)
      [] fn = "logging_generator" -> logging_generator(a)
      [] fn = "slow_cancellable" -> slow_cancellable(a)
      [] fn = "generator_exception" -> generator_exception(a)
      [] fn = "departments_scan" -> departments_scan
      [] fn = "employees_scan" -> employees_scan
      [] fn = "projects_scan" -> projects_scan
      [] fn = "products_scan" -> products_scan
      [] fn = "same_name_table" -> same_name_table
      [] fn = "projection_sequence" -> projection_sequence
      [] fn = "colors_scan" -> colors_scan
      [] fn = "versioned_data" -> versioned_data(a)
      [] fn = "versioned_constraints" -> versioned_constraints(a)
      [] fn = "tt_pushdown" -> tt_pushdown(a)
      [] fn = "tt_pushdown_cols" -> tt_pushdown_cols(a)
      [] fn = "tx_cached_value" -> tx_cached_value(a)
      [] fn = "secret_demo" -> secret_demo(a)
      [] fn = "scoped_secret_demo" -> scoped_secret_demo
      [] fn = "multi_secret_demo" -> multi_secret_demo
      [] fn = "partitioned_sequence" -> partitioned_sequence(a)
      [] fn = "partitioned_order_modes" -> partitioned_order_modes(a)
      [] fn = "partitioned_batch_index" -> partitioned_batch_index(a)
      [] fn = "partitioned_batch_index_marked" -> partitioned_batch_index_marked(a)
      [] fn = "country_partitioned_sales" -> country_partitioned_sales(a)
      [] fn = "trailing_partition_sales" -> trailing_partition_sales(a)
      [] fn = "region_year_partitioned" -> region_year_partitioned(a)
      [] fn = "partitioned_with_explicit_override" -> partitioned_with_explicit_override(a)
      [] fn = "disjoint_range_partitioned" -> disjoint_range_partitioned(a)
      [] fn = "overlapping_range_partitioned" -> overlapping_range_partitioned(a)
      [] fn = "broken_missing_batch_index_tag" -> broken_missing_batch_index_tag(a)
      [] fn = "broken_batch_index_overflow" -> broken_batch_index_overflow(a)
      [] fn = "broken_non_monotone_batch_index" -> broken_non_monotone_batch_index(a)
      [] fn = "broken_missing_partition_values" -> broken_missing_partition_values(a)
      [] fn = "broken_partition_min_neq_max" -> broken_partition_min_neq_max(a)
      [] fn = "broken_partition_values_no_annotation" -> broken_partition_values_no_annotation(a)
      [] fn = "broken_partition_column_absent_from_batch" -> broken_partition_column_absent_from_batch(a)
      [] fn = "filter_echo" -> filter_echo(a)
      [] fn = "bool_filter_echo" -> bool_filter_echo(a)
      [] fn = "dict_filter_echo" -> dict_filter_echo(a)
      [] fn = "filter_echo_table" -> filter_echo_table
      [] fn = "filter_echo_partitioned" -> filter_echo_partitioned(a)
      [] fn = "expression_filter_test" -> expression_filter_test(a)
      [] fn = "spatial_filter_example" -> spatial_filter_example(a)
      [] fn = "filtered_columns_echo" -> filtered_columns_echo(a)
      [] fn = "dynamic_filter_echo" -> dynamic_filter_echo(a)
      [] fn = "value_prune" -> value_prune(a)
      [] fn = "rff_simple_scan" -> rff_simple_scan
      [] fn = "rff_none_scan" -> rff_none_scan
      [] fn = "rff_struct_scan" -> rff_struct_scan
      [] fn = "rff_nested_scan" -> rff_nested_scan
      [] fn = "rff_multi_scan" -> rff_multi_scan
      [] fn = "rff_rowid_scan" -> rff_rowid_scan
      [] fn = "cacheable_numbers" -> cacheable_numbers(a)
      [] fn = "cache_no_store" -> cache_no_store(a)
      [] fn = "cache_scoped_txn" -> cache_scoped_txn(a)
      [] fn = "cache_big" -> cache_big(a)
      [] fn = "cache_bench" -> cache_bench(a)
      [] fn = "cache_filtered" -> cache_filtered(a)
      [] fn = "cache_types" -> cache_types(a)
      [] fn = "cache_multicol" -> cache_multicol(a)
      [] fn = "cache_nonce" -> cache_nonce
      [] fn = "cache_whoami" -> cache_whoami
      [] fn = "secret_cache_nonce" -> secret_cache_nonce
      [] fn = "test_same_name_cached" -> test_same_name_cached
      [] fn = "cache_projection" -> cache_projection
      [] fn = "cache_versioned_scan" -> cache_versioned_scan(a)
      [] fn = "cache_revalidatable" -> cache_revalidatable(a)
      [] fn = "cache_poison" -> cache_poison
      [] fn = "cache_external_fail" -> cache_external_fail
      [] fn = "cache_parallel" -> cache_parallel(a)
      [] fn = "cache_ordered" -> cache_ordered(a)
      [] fn = "cache_partitioned" -> cache_partitioned(a)
      [] fn = "cache_partition_scope" -> cache_partition_scope(a)
      [] fn = "cache_partition_multicol" -> cache_partition_multicol(a)
      [] fn = "cache_partition_proj" -> cache_partition_proj(a)
      [] fn = "cache_partition_parallel" -> cache_partition_parallel(a)
      [] fn = "user_exported" -> user_exported(a)
      [] fn = "user_unexported" -> user_unexported(a)
      [] fn = "user_encoder" -> user_encoder(a)
      [] fn = "user_interface" -> user_interface(a)
      [] fn = "user_null_keys" -> user_null_keys(a)

-----------------------------------------------------------------------------
(***************************************************************************)
(* Process.  The state is an index, the rows that remain from there, and a *)
(* flag (Done, HasChunk).  An answer is a batch, the end, both or an error.*)
(***************************************************************************)
NewState(d) == [index |-> 0, remaining |-> d.total, flag |-> FALSE, advertised |-> FALSE, pid |-> 0]

RowsFrom(d, index, count) == [k \in 1..Clip(count) |-> d.row[index + k - 1]]

Answer(kind, rows, state, queue) ==
    [kind |-> kind, rows |-> rows, index |-> Unknown, values |-> <<>>, state |-> state, queue |-> queue]

Finish(state, queue) == Answer("finish", <<>>, state, queue)

GenerateBatch(d, s, queue) ==
    LET size == AtMost(d.size, s.remaining)
        rest == [s EXCEPT !.index = @ + size, !.remaining = @ - size]
    IN  IF s.remaining <= 0 THEN Finish(s, queue)
        ELSE Answer("batch", RowsFrom(d, s.index, size), rest, queue)

\* The first value for both.
columnMinMaxFirst(keys) == IF keys = {} THEN <<0, 0>> ELSE <<Min(keys), Min(keys)>>

\* The values a partition column has in a batch; NULLs do not count, and a column of
\* nothing else has the zero value.
columnMinMax(keys) == IF keys = {} THEN <<0, 0>> ELSE <<Min(keys), Max(keys)>>

EmitPartitioned(d, answer) ==
    LET keys == {r[1] : r \in ToSet(answer.rows)} \ {NullKey}
        span == columnMinMax(keys)
    IN  CASE d.kind = "none" /\ d.explicit # <<>> -> [answer EXCEPT !.kind = "error"]
          [] d.kind = "none" \/ answer.rows = <<>> -> answer
          [] d.explicit = <<"own">> -> [answer EXCEPT !.values = span]
          [] d.explicit = <<"other">> -> [answer EXCEPT !.values = <<span[1] + 1, span[2]>>]
          [] d.kind = "absent" -> [answer EXCEPT !.kind = "error"]
          [] d.kind = "single" /\ span[1] # span[2] -> [answer EXCEPT !.kind = "error"]
          [] OTHER -> [answer EXCEPT !.values = span]

Emit(d, answer, pid) ==
    CASE d.mark = "index" -> [answer EXCEPT !.index = pid]
      [] d.mark = "partition" -> EmitPartitioned(d, answer)
      [] OTHER -> answer

\* The work item the stream takes next: the queue is shared by the streams of the scan.
QueuePop(queue) == Head(queue)

processChunks(d, s, queue) ==
    LET item == QueuePop(queue)
        fresh == [s EXCEPT !.index = item.start, !.remaining = item.end - item.start, !.flag = TRUE,
                           !.pid = item.pid]
    IN  CASE s.flag /\ s.remaining > 0 -> Emit(d, GenerateBatch(d, s, queue), s.pid)
          [] queue = <<>> -> Finish(s, queue)
          [] OTHER -> Emit(d, GenerateBatch(d, fresh, Tail(queue)), item.pid)

processItems(d, s, queue) ==
    LET item == QueuePop(queue)
    IN  IF queue = <<>> THEN Finish(s, queue)
        ELSE Emit(d, Answer("batch", RowsFrom(d, item.start, item.end - item.start), s, Tail(queue)), item.pid)

processOnce(d, s, queue) ==
    IF s.flag THEN Finish(s, queue)
    ELSE Emit(d, Answer("batch", RowsFrom(d, 0, d.total), [s EXCEPT !.flag = TRUE], queue), 2^30)

\* A second batch whose index is below the first, and the end.
processNonMonotone(d, s, queue) ==
    IF s.flag THEN [Answer("last", <<42>>, s, queue) EXCEPT !.index = 3]
    ELSE [processOnce(d, s, queue) EXCEPT !.index = 10]

\* A batch has as many rows as its columns.
processRepeat(d, s, queue) ==
    LET answer == GenerateBatch(d, s, queue)
    IN  [answer EXCEPT !.rows = RowsFrom(d, s.index, repeatScalar(Len(@)))]

\* cacheTTL, cacheControl: whether a batch says that the result may be kept.
Advertises(d, s) ==
    CASE d.cache = "index" -> s.index = 0
      [] d.cache = "stream" -> ~s.advertised
      [] OTHER -> d.cache = "every"

\* After the rows an empty batch that stands for a remote one.
processExternal(d, s, queue) ==
    IF s.remaining <= 0 /\ ~s.flag THEN Answer("batch", <<>>, [s EXCEPT !.flag = TRUE], queue)
    ELSE GenerateBatch(d, s, queue)

Process(d, s, queue) ==
    CASE d.fails = "end" /\ s.remaining <= 0 -> Answer("error", <<>>, s, queue)
      [] d.process = "generate" /\ s.remaining > 0 -> Emit(d, GenerateBatch(d, s, queue), 0)
      [] d.process = "generate" -> GenerateBatch(d, s, queue)
      [] d.process = "external" -> processExternal(d, s, queue)
      [] d.process = "once" -> processOnce(d, s, queue)
      [] d.process = "nonMonotone" -> processNonMonotone(d, s, queue)
      [] d.process = "repeat" -> processRepeat(d, s, queue)
      [] d.process = "burst" -> Answer("last", RowsFrom(d, 0, d.total), s, queue)
      [] d.process = "chunks" -> processChunks(d, s, queue)
      [] d.process = "items" -> processItems(d, s, queue)

=============================================================================
