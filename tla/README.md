# Verification of vgi-go

TLA+ models of the VGI worker library for Go, the TLC runs that check them on
small instances, and proofs that TLAPS checks for every size.

VGI lets DuckDB call functions and read catalogs that live in a worker process.
The two talk Arrow IPC over pipes, a Unix socket, TCP or HTTP. A worker offers
scalar, table, table-in-out, table-buffering and aggregate functions, and
catalogs. What makes it hard is that one query is served by **several worker
processes and threads**, and that **over HTTP a worker keeps nothing between
turns**. State then lives in one of three places: the memory of a process, the
shared function storage, or a token the client sends back. The project checks
that it does not matter to the answer which of them is used.

## 1. The system

| Part | State | Operations | What is hard |
|---|---|---|---|
| table functions (`protocol.go`, `table_typed.go`, `table_generate.go`, `rehydrate.go`, `examples/table`) | the stream's user state, live or in a token; a work queue per execution | bind, primary and secondary init, produce | live and HTTP streams must give the same rows; streams share a queue |
| splits (`splits.go`, `split_token.go`) | plan pages, tokens, claims of readers | plan, redeem, produce | a token is redeemed again, in another process, after the catalog changed |
| table-in-out exchange (`protocol.go`, `continuation.go`, `state_serialize.go`, `rehydrate.go`) | the user's state, pending output, validators | input batch, continuation tick, close | live and HTTP streams must answer alike; a turn may be repeated |
| table-in-out finalize (`protocol.go`, `storage.go`) | one stored state per substream; the flush, its cursor, the state log | Put, Collect, finalize init, produce, move to the log | substreams of one process, streams sharing a log, a lost answer |
| table buffering (`table_buffering_rpc.go`) | recipe in the log, recipe cache per process, buffered batches | sink init, process, combine, finalize, destructor | calls name only an execution and reach any process |
| aggregates (`aggregate_*.go`) | arguments of bind, group states, window partitions, all stored | bind, update, combine, finalize, destructor, window calls | load, compute and save are separate steps without a lock |
| streaming aggregates (`aggregate_streaming.go`) | sessions in the memory of a process | open, chunk, close | a session is looked up and used under two locks; processes restart |
| filter pushdown (`filter_v2.go`, `filter_pushdown.go`, `filter_helpers*.go`) | decoded predicates | decode, apply, prune by accessors | three-valued logic read through two views |
| dynamic filters (`filter_v2.go`, `filter_delta_history.go`) | predicates with a revision per identifier; over HTTP a compacted delta history in the cursor | apply a delta, record it, replay the history, restore the order | a delta is sent once, a compacted replay must end in the same filters |
| execution storage (`storage.go`, `worker.go`) | the storages a process knows, tracked, pending and stale executions | cleanup hook, `getOrCreateStorage`, Put | nothing tells a process that an execution is over |
| function storage (`function_storage*.go`, `storage/cfdo`) | state, log, queue and counter tables | put, get, scan, drain, push, pop, append, increment | over HTTP: lost, late and repeated requests, paging |
| attaches (`catalog.go`, `crypto.go`, `attach_ticket.go`, `catalog_route.go`) | none in the worker: sealed values and tickets that clients hold | attach, begin a transaction, seal a ticket, redeem it | the next request reaches another process, a restarted one, one whose clock differs |
| function resolution (`worker.go`, `overload.go`, `catalog_route.go`) | a registry per kind, and the home of each registration beside it | register, import a sub-catalog, resolve, list | one name in several catalogs, schemas and overloads |
| in-memory catalog (`memory_catalog.go`) | per attach: a version, a tree of schemas, tables and views | DDL, catalog_contents | two critical sections in one request, answers out of order |
| writable catalog (`writable_*.go`) | schemas, tables and rows in SQLite | DDL, insert, update, delete, migration | a statement is several transactions, a process may die in between |
| catalog publication (`catalog_publication*.go`) | cache and pending table of each manager, repository of manifests | warm, renew, publish, import, invalidate | managers race over conditional writes; references expire |

How they meet: an attach names the catalog of every later call, and function
resolution finds the implementation there. Table buffering, aggregates,
table-in-out and table functions keep their state in the function storage,
through the execution storage. Dynamic filters, exchange, finalize and table
streams travel in the same HTTP state token. Both kinds of catalog answer the
same catalog_contents request, which publication can answer by reference.

## 2. Modules

Every component has a module, with the definitions named after the Go functions
they translate (`map` in `PROJECT.json` gives the lines). Payloads, names and
expressions are model values or members of a small set. Just before some
definitions stands a wrong version of them (`OpenAttachTicket_NoSkew`,
`splitRangesNoRemainder`), kept to show that a property notices; `PROJECT.json`
lists these under `mutants`.

Scans and filters:

- **TableFunctions** describes every function of `examples/table`: what its bind
  accepts, the workers and work items of `OnInit`, the row at each index, how
  `Process` cuts and annotates batches, and what `Cardinality` and `Statistics`
  say. **TableScan** runs a scan of one: bind with its secrets, inits, turns,
  live or with `gob` and `rehydrateTableProducer` between them. Over HTTP any
  process serves a turn, the answer may be lost (`ProduceUnheard`), and a state
  that does not decode is replaced by a new one (`TurnAnew`).
- **SplitFunctions** is the same for the split fixtures (`Plan`, `Redeem`,
  `Process`), and **SplitScan** their plans, claims, lost attempts and repeated
  redemptions. The catalog's version may move while a plan is in use.
- **FilterExpressions** is the document's expressions: validation, rendering and
  evaluation under three-valued logic. **FilterHelpers** is the public `Filter`
  shapes, their own evaluation by column position, and the accessors that read
  bounds and values off them.
  **FilterPushdown** puts both in a scan: decode, prune, apply.
- **FilterDeltaHistory**: `live` is what a byte-stream worker holds, `cur` what
  an HTTP turn rebuilds. `applyTick` is a delta applied by a turn and recorded
  by `recordFilterDelta`; `StartTurn`, `ReplayDelta`, `restorePredicateOrder`
  and `EndTurn` are the next turn. Expressions parse or do not.

Streams of table-in-out functions:

- **StreamParams**: the `ProcessParams` of a stream as a function of field
  names, built by the inits and rebuilt by `rebuildProcessParams` from the
  recipe a token carries.
- **TableInOutExchange**: `Exchange` is one turn of the server, on the state it
  has in memory or in `token`. `fn` says how many replies the function gives
  each input, whether it keeps the continuation rules, and which replies it emits
  raw, past the helpers. `SendWrong` is a client that does not keep them.
- **FinalizeFlush**: `Put` is a substream's state, under its id or, for a client
  that sends none, under the process (`workerKey`); `Finalize` the finalize
  init, `Produce` and `produceFromLog` the turns, `GobEncode` with
  `offloadFlush` and `StateAppend` the move of a flush out of the token.
- **TableInOutFunctions**: what the functions of `examples/table_in_out` make of
  a row, a batch and the end of the input, in one reply or in pages, with
  results the client may keep.

Functions with state in the storage, and the storage:

- **TableBuffering**: `SendProcess`/`SendCombine`, `loadBufferingParams`,
  `storeParams`, then `Process` or `Combine` are one unary call, in steps as
  long as nothing holds a lock. `Destructor` and `StateLogClear` are the two
  halves of the destructor. `deployment` is the set of executions and processes,
  and whether calls may fail.
- **Aggregate**: a request is its loads and its save. A state is the bag of
  rows it has seen, each with the arguments the function had at the time. The
  client is DuckDB: threads with groups of their own, combined into one.
- **AggregateFunctions**: what each example aggregate keeps of its rows and makes
  of them, for any division into batches and threads, and over window frames.
- **StreamingSessions**: `Open`, `Chunk` and `Close` on the sessions of each
  process, with the example's running sum, and restarts. A partition key has any
  number of columns and is the bytes `PartitionKey` hashes.
- **StorageCleanup**: `OnDispatchStart`, `getOrCreateStorage`, `Put` and
  `OnDispatchEnd` around each stream, on several processes; a clear may fail, and
  a process may end (`Exit`).
- **StorageOperations** is what each storage operation does in one step, the
  SQLite implementation. **FunctionStorage** is the promise to overlapping
  callers: every call takes effect at one moment, at most once. **CfDoStorage**
  is the HTTP client with its retries, attempt ids and pages, and implements
  FunctionStorage; the Durable Object at the other end is external.

Catalogs:

- **Attaches**: an envelope is a record that opens under its key and associated
  data. `AttachOptions` and `AttachTicket` are the two requests that reach
  `CatalogAttach`, `sealAttach` makes a ticket, `CatalogTransactionBegin` a
  transaction. A later request finds its catalog through `dispatchRouted`
  (catalog requests), `lookupAggregate` (function calls) or `catalogOfAttachPtr`
  (the opening of a streaming session).
  `Restart` and clocks that are apart are the environment.
- **FunctionResolution**: the registrations of one name. The register actions,
  then `prepareRoutes`; `resolveFunction`, `resolveAggregate` and
  `functionListing` are operators on the result.
- **MemoryCatalog**: a handler is one step, as it holds the mutex;
  catalog_contents is two (`contents`, `answerCatalogContents`), and the
  arrival of the answer is a third (`Answer`).
- **WritableCatalog**: a statement is a sequence of store calls, `Crash` may
  end it between two of them.
- **CatalogPublication**: goroutines of one or two managers, one step per
  critical section or remote call; `Expire`, `ChangeCatalog` and `Crash` are
  the environment.

**FilterDeltaHistoryProofs** and **MemoryCatalogProofs** hold the theorems. The
`MC` modules give the constants values. Most of them join components that share
a subject, and a behaviour takes one of these (`which`).

## 3. Runs

`tlc -config X.cfg M` in this directory repeats a run; `PROJECT.json` lists them
with their properties.

| Run | Module, configuration | What it shows |
|---|---|---|
| `filters` | MCFilters | `Apply` keeps exactly the rows the predicates ask for (`AppliedExactly`); no function that prunes by bounds or value lists loses one of them (`PruningSound`); a public filter whose columns are in place means what the evaluated tree means (`ViewsAgree`); an HTTP turn rebuilds the live filters (`RebuiltMatchesLive`) in the live order, from a bounded history, and is never refused (`ReplayFaithful`) |
| `scans` | MCScans | no row comes twice and none is missing, whatever the streams, turns, splits, losses and repeated claims, except rows of a work item that went with a lost answer (`TableRowsExact`, `ScanExact`); cardinalities and statistics are true of the rows (`PromisesKept`), partition values and batch annotations of their batch (`AnnotationsTrue`); batch indices rise in a reader's stream while splits keep to their stride (`BatchIndexRises`); every scan ends but one with batches of size zero (`ScansEnd`) |
| `streams` | MCStreams | every client gets each input's replies once and in order, live or by tokens, with turns repeated (`RepliesInOrder`); validators stay with their input, and cache control emitted through the helpers with its first reply (`CachingPerInput`); every substream's last state is handed out once, given substream ids or a process each (`EverySubstreamOnce`) and in order (`FlushInOrder`); a token holds one batch at most and nothing is logged twice (`FlushCostLinear`); a function is told on every turn what it was told on the first (`ParamsSurvive`); streams end (`StreamsEnd`) |
| `functions` | MCFunctions | buffering: output whole, any process serves any call (`FinalizedWhole`), what stays after the destructor, and where (`LeftAtEnd`); aggregates: every row counted once in its group (`ResultExact`), partitions served and arguments seen until the end (`CallsServed`); running totals are those of the session's own rows, unless strings of a key hold its marks (`TotalsExact`); the example functions compute what they mean over all their rows (`AggregatesExact`, `InOutRowsExact`, `FinalRowsExact`) |
| `storage` | MCStorage | the Durable Object client implements FunctionStorage (`ImplementsStorage`, a refinement), and what a worker concludes from answers is true (`AnswersTrue`); processes each kept for one query at a time: no running execution loses rows (`LiveKept`), and the only rows nobody will remove are those whose clear failed or whose process ended (`CleanupOwed`) |
| `catalogs` | MCCatalogs | contents kept under the reported version are current (`CacheSound`), schemas stay a tree (`TreeClosed`); NOT NULL stays true (`NotNullHolds`) and nothing is orphaned (`NothingOrphaned`) by statements that may die between two store calls; an attach and its transactions mean the same in every process and after restarts, or are refused (`AttachesLast`); a ticket restores its attach until it expires and not after (`TicketRestores`); a call runs the best of what its catalog lists (`ResolvesAsListed`) |
| `publication` | MCCatalogPublication | every durable, cached or served snapshot is one whole revision (`PublishedWhole`); the pending table names exactly those who publish (`PendingOwned`); no stale invalidation or commit destroys a publication (`NoLostPublication`) |
| `filter_replay_unparseable` | MCFilterDeltaReplay | **violation**: finding 1 |
| `cleanup_pooled` | MCStorageCleanup, MCStorageCleanupPooled.cfg | **violation**: finding 2 |
| `writable_own_catalog` | MCWritableCatalog, MCWritableCatalogTwo.cfg | **violation**: finding 3 |
| `string_list_bounds` | MCFilters, MCFiltersLists.cfg | **violation**: finding 4 |
| `streaming_float_keys` | MCStreamingSessions | **violation**: finding 5 |

**Bounds, and why they are enough.** Each bound is the least at which the hazard
can happen, and each property has a mutated definition under which it fails
within the same bounds.

- Filters: three identifiers (one in the snapshot, one new, one required), two
  updates per delta and three deltas: a delta kept for one identifier then
  carries a superseded update of another, which is the delicate case.
  Predicates: two at a time, four levels deep, over the values 0, 1, 2 and NULL:
  below, at and above every bound. String lists are left to finding 4.
- Scans: up to five rows in batches of none, one or three, two streams, two
  chunks each, two processes, one lost answer or undecodable token; partitions
  of one and three rows, keys two apart. Splits: four rows in up to three splits,
  planned in up to three pages, two readers, one lost attempt, two catalog
  versions: remainders, empty splits and a plan that is stale; and ten rows with
  batch indices, which fill the stride of two in three splits and exceed it in
  two. `split_skewed` with one split is left out (section 5).
- Streams: two inputs, three replies, two repeated turns: first, middle and last
  replies, and an input after a continued one. Two substreams over two
  processes, three batches (more than one token holds). Three turns of params,
  with no optional field filled in, each alone, or all.
- Functions: two executions, two processes, two threads and two batches for
  buffering; three threads (so that merges can chain), two groups and three rows
  for aggregates; chunks of two rows and one restart for sessions, with no
  key column, one of numbers, and two of strings that hold the marks of a key; axes of
  numbers and of strings with the separator in them for tensors; for the
  table-in-out examples two streams, two batches of up to two rows and three rows
  in all, pages of two against fan-outs of none, two and three.
- Storage: two clients, three calls, two attempts; scans and drains of two pages.
  Cleanup: four executions, one more than processes, so that an ended execution
  can be forgotten while everyone is busy elsewhere.
- Catalogs: two overlapping requests and three statements on a schema and one
  nested in it; two writable catalogs, two row identifiers, two tables born; two
  processes whose clocks are apart by the skew allowed, two attaches or an
  attach and a ticket, one restart, time past expiry and skew; three
  registrations of a name over two workers, three catalogs and two schemas, with
  signatures that are exact, of one family, ANY and varargs.
- Publication: two goroutines, two managers, two revisions, two manifests.

**Deadlock** is checked in `publication`, `scans` and the violation runs about
replay, cleanup and the writable catalogs. Elsewhere a query ends or a bound
stops the model.

**Fairness.** `streams` and `scans` state liveness. In both the worker answers
each request it received, which the serving loop of the RPC library does, and
the client goes on until its input and the output are exhausted, which is
DuckDB's pull loop (`Engine` in the scans). Nothing else is fair: losses,
repeated turns, wrong clients and catalog changes may happen or not, and losses
are bounded by `MaxRetries`, `MaxLosses` and `MaxMishaps`, as a client that loses
every answer finishes nothing.

## 4. Findings

1. **An unreadable stale upsert can fail a replay.** `applyDelta` skips a stale
   update without parsing it, so a delta that is kept for another identifier may
   hold an expression that never parsed. When the delta that had made it stale
   is compacted away, the replay finds it fresh, parses it and fails the turn.
   A live stream goes on. `filter_delta_history.go` says "Every document here
   was validated when it first arrived".
2. **A pooled process cleans up a running execution.** The hook removes what the
   previous dispatch used and this one did not. A process that serves a stream
   of another query between two streams of an execution, or while other
   processes still serve it, removes the execution's rows. The comment in
   `worker.go` says that the deferral by one dispatch handles these cases. Where
   a process works for one query at a time it does (run `storage`).
3. **A statement can write to another catalog.** `findWritableTable` takes the
   first writable catalog that has the table's name, in map order, instead of
   the one the statement was bound through.
4. **The bounds of a list of strings are its first value.** `arrayBoundsScalar`
   (`filter_helpers.go`) orders values with `scalarLess` and `scalarGreater`,
   which order no strings, so that `GetColumnBounds` of `c IN ('b', 'a')` is 'b'
   twice. A function that prunes by it loses the rows with 'a'. The comment says
   "(min, max) of an array".
5. **A streaming aggregate's partition key of another type is the whole column.**
   `PartitionKey` (`aggregate_streaming.go`) has cases for integers and strings.
   For any other type it hashes the printed array, so all rows of a chunk share
   one partition and every chunk starts a new one.

## 5. Interleavings the properties leave out

These happen in the models, or were met while translating the code. They are not
stated as properties, because the code's documents do not promise otherwise or
because the passing runs leave the case out, as said here.

- *Invalidate and Warm.* `Invalidate` waits for the pending publication, drops
  the cache entry, then looks up and removes the manifest. A `Warm` that starts
  between the last two caches the manifest again from the repository, and the
  manager serves it until it expires although it is no longer durable.
- *Renew and replace.* Two managers find one manifest expired. One replaces it;
  the other's renewal loses the conditional write, takes the winner, and
  rejects it since its object differs. One request fails although a usable
  manifest is durable; the next succeeds.
- *A panic in build.* `Warm` releases the pending entry without `defer`: a
  panic of the builder that a caller recovers from leaves the key pending for
  ever. Panics are outside the models.
- *Buffering recipes.* The destructor reaches one process. The others that
  served a call keep their recipe for life, and a call that overlaps the
  destructor can put one back. `LeftAtEnd` says that nothing else stays. Answers
  are not affected.
- *Rows that stay.* `OnDispatchEnd` drops its keys before it clears their rows,
  and `ExecutionStorage.Cleanup` discards the errors, so rows whose clear failed
  are never tried again. The keys are in memory: a process that ends leaves the
  rows it owed a clear.
- *No substream ids.* Without one, `Put` keys by the process: two substreams of
  one process overwrite each other, and one served by two processes is counted
  twice. `EverySubstreamOnce` then takes a process for each substream.
- *Aggregate arguments.* `loadAggArgs` logs a storage error and goes on without
  arguments; the value is then computed without them and no error is returned.
  No property sees this. Arguments are stored only if there are constant ones.
- *Aggregate merges.* Two combine requests with one target under way together
  would lose one of them; that DuckDB serialises them is assumed.
- *Writable statements of two sessions.* The run has `Serial = TRUE`. With `Serial = FALSE` a table can be
  created in a schema being dropped, rows can outlive their table, and a
  migration can record NOT NULL over a NULL inserted since its scan.
- *One name, two kinds.* `candidatesFor` takes the first registry that has the
  name, by kind, before `scopeToHome` looks at the catalog. A table function of
  the worker hides a sub-catalog's table-in-out function of the same name.
  `ResolvesAsListed` is checked for names of one kind in a process. The
  function behind a catalog table is likewise not registered when an alias has a
  table function of its name (`RegisterCatalogTablePath`).
- *Attaches that do not open.* `catalogOfAttachPtr` goes on with the worker's own
  catalog. The unary aggregate and buffering calls open the attach for their shard
  key first and are refused; only `handleAggregateStreamingOpen` gets there. After
  a restart with a drawn key, a streaming aggregate of an alias is resolved in the
  worker's own catalog.
- *Tickets of an alias without options of its own.* `seal_attach` asks for none,
  the attach falls back to the worker's, and a required one then refuses it.
  Plain aliases and writable catalogs cannot be sealed at all. A ticket is taken
  for 60 seconds after the instant its comment calls the last.
- *Streams of later turns.* The recipe in a token restores neither order and sample
  hints nor split payloads nor validators; `ParamsSurvive` is about
  the fields it does carry. A state that does not decode is replaced by a new
  one: a table scan then begins again, and repeats its rows. Only a type with an
  encoding of its own can come to that, `checkGobState` refuses the others.
- *Lost turns behind a queue.* `QueuePop` removes the item, and the token that
  holds it is in the answer. A turn that is asked for again takes the next item,
  so the rows of the first are missing from a scan that ends without an error
  (`function.go` says as much of retries). `TableRowsExact` counts them.
- *Profiles over HTTP.* `profiling_demo` stores a running count under the process,
  and the count travels in the token: turns in two processes are added up twice.
  `PromisesKept` claims equality for byte streams only.
- *Raw replies.* `checkReplyStatus` looks at the status alone. A function that
  emits its last reply itself, with `vgi.cache.*` metadata, is not stopped.
- *Filters over projected batches.* `ConstantFilter.Evaluate` and its siblings read
  the column at its position in the bind schema. Over a projected batch that is
  another column, or none. `ViewsAgree` is about filters whose columns are in
  place; `Apply`, which goes by name, is right for all.
- *Keys made of text.* `PartitionKey` ends strings with 0x00 and writes NULL as
  0xff, `buildCoordKey` joins `name=value` with `|`, and neither escapes: two
  string columns can give two partitions one key, or two cells of a tensor one
  coordinate, which is refused within a batch and accepted in two. The comment
  says "uniquely identifying". `TotalsExact` and `AggregatesExact` leave such
  strings out.
- *Stream or window.* `aggregate_streaming.go` calls the stream "purely an
  optimization". Where all values of a frame are NULL, `streaming_sum` answers 0
  and its window callback NULL.
- *Stale plans.* A split token of a memory catalog is pinned to the worker's own
  catalog version, so a plan that DDL has made stale is redeemed.
- *Fixtures at their edges.* `split_skewed` in one split loses its tail;
  `proj_repro_multi_worker` scans the whole in every worker;
  `double_sequence`'s statistics are wrong for a negative increment; generators
  whose bind does not check it never finish with a batch size of zero or less
  (`Stalls`; zero is in the run);
  `disjoint_range_partitioned` overlaps with more than 1000 rows per partition;
  the batch indices of `split_batch_index` fall back in a reader whose split had
  more batches than the stride of 1000, which its comment names as the bound and
  nothing enforces; a partition key that is NULL is skipped, so NULL and one value pass as
  a single value and a batch of NULLs is annotated with zero; `tx_cached_value` reads and
  writes its cache in two steps; `vgi_window_median` is a mean outside windows;
  `nest_tensor` fails a column that has a group without rows.
- *Filters.* `ToSQL` renders the shapes it does not know as `1=1`. NULL elements
  of lists and lists of strings are left out of the passing run.

## 6. Proofs

TLAPS proves, for all values of the constants that satisfy the named ASSUMEs:

- **FilterDeltaHistoryProofs, `RebuiltAlwaysMatchesLive`**: `Spec =>
  []RebuiltMatchesLive`. What the turn holds is the live filters says nothing
  about the history, so it is not inductive. The invariant says *why* each
  predicate is what it is: for every identifier, live holds the snapshot's
  predicate or the result of the **first** delta in the history that carried
  the live revision (`LiveExplained`), no delta carries a later one, a turn in
  the middle of its replay is explained in the same way by the prefix it has
  replayed (`ReplayExplained`), every delta kept is the first carrier of some
  live revision (`Useful`), and the recorded order is the live order
  (`OrderRecorded`). `RecordExplains` shows that compaction keeps this,
  `ReplayKeepsExplained` that a replayed delta does, `ReplayReachesLive` that
  an exhausted replay therefore equals live. It covers revisions that are
  reused, several identifiers in one delta, removals and stale updates.
- **MemoryCatalogProofs, `CacheAlwaysSound`**: contents kept under the version
  still reported are current, with any number of attaches, overlapping requests
  and statements. The invariant relates the version a request has read to the
  contents it will answer with (`RequestFaithful`): until the snapshot is read,
  the version is not ahead; once it is, contents under the current version are
  the current ones. Every statement bumps the version (`DDLKeepsIInv`), which
  makes what was read before it stale rather than wrong. **`TreeAlwaysClosed`**:
  schemas stay a tree that holds every object, at any depth. **`TypeAlwaysOK`**
  is type correctness.

The assumptions: `SetsAssumption`, `SnapshotAssumption` and `BoundAssumption` (the
snapshot gives every identifier a predicate or none, and the bounds are numbers), `PathsAssumption` (paths are
non-empty sequences of names and `main` is one of them), `SettingsAssumption` and
`VersionAssumption`. TLC evaluates all of them.

Only model-checked: liveness, which this prover does not reach; what recursive
evaluations and folds compute for every input (FilterExpressions, the example
functions), which needs induction over data; the refinement of FunctionStorage
by CfDoStorage; and all modules without a proofs module.

## 7. Abstractions shared by the models

- Gob, Arrow and token encodings are taken to be faithful, except where the
  code decides what to encode (`GobEncode` in the exchange and finalize models).
- A storage operation of SQLite is one transaction, so one step.
- All workers run the same build.
- Deltas, batches and rows carry what the properties tell apart: an identifier,
  a revision, a position; in the modules about example functions and filters,
  small integers and NULL. Sums stay in the range of their type, a mean is its
  total and its count, a printed label its parts.
- The ciphers are external: an envelope opens under its key and its associated
  data, and only so. Splits and tickets are used as clients use them.
- DuckDB is modelled as far as the request records and their comments describe
  it: the order of calls, one stream per reader, repeated turns with old tokens.

## 8. Not modelled, and the plan

Left out for good: the ciphers, generated code, the wording of errors, the
building of description records and batches, argument decoding by reflection,
scalar functions, copy formats, the rendering of filters to SQL, the first
version's filter decoder (which nothing calls), the command-line programs and
the start-up of example workers. They are stateless, external, or users of the
library; a unit test reaches them. `PROJECT.json` lists each.

Of functions that are modelled, these parts are left out and not mapped: the
text that the `filter_echo` family, `secret_demo`, `union_varargs` and
`profiling_demo` show in a column or a profile; the values `tx_cached_value`
keeps between the calls of one transaction; the overload `make_pairs` of mixed
types; the token lifetime of `split_short_ttl`; the loading of a batch into the
expression evaluator; and, of `CatalogAttach`, what the answer advertises
(settings, secret types, capabilities) and a validator of the worker's author.

Next, in this order.

1. Writable statements of two sessions that interleave: what still holds.
2. Attach profiles, and the clearing of transaction storage at commit.
3. Constraint records, projection of nested columns and version matching as
   pure algorithms.
4. Proofs: `AttachesLast`; `CleanupOwed` and, for dedicated processes,
   `LiveKept`; `FinalizedWhole` of TableBuffering; `PendingOwned` and
   `NoLostPublication` of CatalogPublication; the refinement of FunctionStorage
   by the SQLite operations.
