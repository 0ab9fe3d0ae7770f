--------------------------- MODULE SplitFunctions ---------------------------
(***************************************************************************)
(* The split-capable table functions of examples/table/splits.go: how each *)
(* divides its scan (Plan), what it makes of the payloads a redemption     *)
(* brings back (Redeem, NewState) and what one call of Process does.       *)
(*                                                                         *)
(* A payload is the tuple of 64-bit words the worker writes into a split,  *)
(* so its length stands for the byte length that the decoders check.  A    *)
(* result of an operator that may fail is [ok |-> FALSE].                  *)
(***************************************************************************)
EXTENDS Integers, Sequences, SequencesExt, FiniteSetsExt

CONSTANTS
    MaxBatch,     \* rows of a batch (1024, 8 and 4 in the code)
    PerPage,      \* splits of a page of split_paginated (4)
    Stride,       \* batch indices of a split of split_batch_index (1000)
    ManySplits,   \* splits of split_many when none are asked for (1000)
    HeadPercent,  \* share of the first split of split_skewed (99)
    Countries     \* the number of partitions of split_partitioned (4)

Fail == [ok |-> FALSE]

\* The functions that share splitPlanner.
Planners == {"split_sequence", "split_zero", "split_empty_ranges", "split_skewed", "split_many",
             "split_paginated", "split_stale_plan", "split_batch_index", "split_cacheable",
             "split_dynamic_filter"}

SplitFns == Planners \cup {"split_fail_at", "split_endless_cursor", "split_echo_filters",
                           "split_partitioned"}

\* A version no live catalog reports.
StaleVersion == 9

-----------------------------------------------------------------------------
(***************************************************************************)
(* Plan.                                                                   *)
(***************************************************************************)
\* Mutant: the remainder goes to no split.
splitRangesNoRemainder(n, k) ==
    [i \in 1..k |-> [lo |-> (i - 1) * (n \div k), hi |-> i * (n \div k)]]

\* The k contiguous ranges [lo, hi) of [0, n), the remainder over the first few.
splitRanges(n, k) ==
    IF k <= 0 THEN <<>>
    ELSE LET base == n \div k
             extra == n % k
             Lo(i) == i * base + Min({i, extra})
         IN  [i \in 1..k |-> [lo |-> Lo(i - 1), hi |-> Lo(i)]]

Shift(ranges, by) == [i \in DOMAIN ranges |-> [lo |-> ranges[i].lo + by, hi |-> ranges[i].hi + by]]

\* An empty range before each range.
emptyRangesPlan(n, k) ==
    LET ranges == splitRanges(n, k)
    IN  FlattenSeq([i \in DOMAIN ranges |-> <<[ranges[i] EXCEPT !.hi = ranges[i].lo], ranges[i]>>])

\* The head in one split, the tail divided over the others.
skewedPlan(n, k) ==
    IF n <= 0 \/ k <= 0 THEN <<>>
    ELSE LET head == (n * HeadPercent) \div 100
         IN  <<[lo |-> 0, hi |-> head]>> \o Shift(splitRanges(n - head, k - 1), head)

manyPlan(n, k) == splitRanges(n, IF k <= 0 THEN ManySplits ELSE k)

plan(fn, n, k) ==
    CASE fn = "split_zero" -> <<>>
      [] fn = "split_empty_ranges" -> emptyRangesPlan(n, k)
      [] fn = "split_skewed" -> skewedPlan(n, k)
      [] fn = "split_many" -> manyPlan(n, k)
      [] OTHER -> splitRanges(n, k)

\* encodeSplit, and encodeSplitOrdinal where the batch index needs the ordinal.
encodeRange(fn, ordinal, r) ==
    IF fn = "split_batch_index" THEN <<ordinal, r.lo, r.hi>> ELSE <<r.lo, r.hi>>

\* What a plan answers: the payloads of its splits, the cursors of the rest, and the
\* version it names (0 names none).
PlanResult(payloads, cursors, version) ==
    [ok |-> TRUE, payloads |-> payloads, next |-> cursors, version |-> version]

\* The page of split_paginated a cursor asks for; any other function has one page.
plannerPlan(fn, args, cursor) ==
    LET ranges == plan(fn, args.n, args.k)
        paged == fn = "split_paginated"
        base == IF paged THEN cursor * PerPage ELSE 0
        lo == Min({base, Len(ranges)})
        hi == IF paged THEN Min({lo + PerPage, Len(ranges)}) ELSE Len(ranges)
    IN  PlanResult([i \in 1..(hi - lo) |-> encodeRange(fn, base + i - 1, ranges[lo + i])],
                   IF paged /\ base + PerPage < Len(ranges) THEN {cursor + 1} ELSE {},
                   IF fn = "split_stale_plan" THEN StaleVersion ELSE 0)

failAtPlan(args) ==
    LET ranges == splitRanges(args.n, args.k)
    IN  PlanResult([i \in DOMAIN ranges |-> <<i - 1, ranges[i].lo, ranges[i].hi>>], {}, 0)

endlessCursorPlan(cursor) == PlanResult(<<<<0, 1>>>>, {cursor + 1}, 0)

\* What the plan call itself saw of the pushdown is baked into the payloads.
echoFiltersPlan(args, sawFilters, nProjection) ==
    PlanResult([i \in 1..args.k |-> <<i - 1, sawFilters, nProjection>>], {}, 0)

partitionedPlan == PlanResult([i \in 1..Countries |-> <<i - 1>>], {}, 0)

Plan(fn, args, cursor) ==
    CASE fn \in Planners -> plannerPlan(fn, args, cursor)
      [] fn = "split_fail_at" -> failAtPlan(args)
      [] fn = "split_endless_cursor" -> endlessCursorPlan(cursor)
      [] fn = "split_echo_filters" -> echoFiltersPlan(args, args.filters, args.projection)
      [] fn = "split_partitioned" -> partitionedPlan

-----------------------------------------------------------------------------
(***************************************************************************)
(* Redeem and NewState.  `NoPayloads' is an init that carried no tokens.   *)
(***************************************************************************)
NoPayloads == <<>>

failAtRedeem(args, payloads) ==
    \A i \in DOMAIN payloads :
        Len(payloads[i]) = 3 /\ (args.failInInit => payloads[i][1] # args.failAt)

Redeem(fn, args, payloads) ==
    fn = "split_fail_at" /\ args.failInInit => failAtRedeem(args, payloads)

\* The words of a payload, by the decoder of the function.
Words(fn) ==
    CASE fn \in {"split_batch_index", "split_fail_at", "split_echo_filters"} -> 3
      [] fn = "split_partitioned" -> 1
      [] OTHER -> 2

\* Mutant: the decoder loses the ordinal.
decodeNoOrdinal(fn, p) ==
    IF Len(p) = 3 THEN [ord |-> 0, lo |-> p[2], hi |-> p[3]]
    ELSE IF Len(p) = 1 THEN [ord |-> p[1], lo |-> 0, hi |-> 0] ELSE [ord |-> 0, lo |-> p[1], hi |-> p[2]]

\* The range a payload names; the partition functions name it by index.
decode(fn, p) ==
    CASE fn \in {"split_batch_index", "split_fail_at"} -> [ord |-> p[1], lo |-> p[2], hi |-> p[3]]
      [] fn = "split_echo_filters" -> [ord |-> p[1], lo |-> p[2], hi |-> p[3]]
      [] fn = "split_partitioned" -> [ord |-> p[1], lo |-> 0, hi |-> 0]
      [] OTHER -> [ord |-> 0, lo |-> p[1], hi |-> p[2]]

\* The cursor over the ranges this reader claimed.  Without tokens a split-only
\* function does not know what to read.
NewState(fn, payloads) ==
    IF payloads = NoPayloads \/ \E i \in DOMAIN payloads : Len(payloads[i]) # Words(fn) THEN Fail
    ELSE LET ranges == [i \in DOMAIN payloads |-> decode(fn, payloads[i])]
         IN  [ok |-> TRUE, ranges |-> ranges, idx |-> 1,
              cur |-> IF ranges = <<>> THEN 0 ELSE ranges[1].lo,
              emitted |-> 0, advertised |-> FALSE, done |-> FALSE]

-----------------------------------------------------------------------------
(***************************************************************************)
(* One call of Process: a batch, the end of the stream, or an error.       *)
(***************************************************************************)
NoIndex == -1

Emit(state, rows, index, advertise) ==
    [kind |-> "batch", state |-> state, rows |-> rows, index |-> index, advertise |-> advertise]

Finish(state) == [kind |-> "finish", state |-> state]

\* Mutant: a drained range still counts as current.
CurrentDrained(s) ==
    LET left == {j \in s.idx..Len(s.ranges) :
                   (IF j = s.idx THEN s.cur ELSE s.ranges[j].lo) <= s.ranges[j].hi}
    IN  IF left = {} THEN Len(s.ranges) + 1 ELSE Min(left)

\* The first range from the cursor on that has a row left.
Current(s) ==
    LET left == {j \in s.idx..Len(s.ranges) :
                   (IF j = s.idx THEN s.cur ELSE s.ranges[j].lo) < s.ranges[j].hi}
    IN  IF left = {} THEN Len(s.ranges) + 1 ELSE Min(left)

\* Ranges are walked in order; one without rows is stepped over.
rangeProcess(fn, args, s) ==
    LET j == Current(s)
        start == IF j = s.idx THEN s.cur ELSE s.ranges[j].lo
        size == Min({s.ranges[j].hi - start, MaxBatch})
        before == IF j = s.idx THEN s.emitted ELSE 0
        after == [s EXCEPT !.idx = j, !.cur = start + size,
                           !.emitted = IF fn = "split_batch_index" THEN before + 1 ELSE 0,
                           !.advertised = @ \/ fn = "split_cacheable"]
    IN  IF j > Len(s.ranges) THEN Finish([s EXCEPT !.idx = j, !.emitted = 0])
        ELSE IF /\ fn = "split_fail_at" /\ args.failAt >= 0
                /\ s.ranges[j].ord = args.failAt /\ start > s.ranges[j].lo
        THEN [kind |-> "error"]
        ELSE Emit(after, [i \in 1..size |-> start + i - 1],
                  IF fn = "split_batch_index" THEN s.ranges[j].ord * Stride + before ELSE NoIndex,
                  fn = "split_cacheable" /\ ~s.advertised)

\* One batch, a row per split claimed.
echoFiltersProcess(s) ==
    IF s.done \/ s.ranges = <<>> THEN Finish(s)
    ELSE Emit([s EXCEPT !.done = TRUE],
              [i \in DOMAIN s.ranges |-> <<s.ranges[i].ord, s.ranges[i].lo, s.ranges[i].hi>>],
              NoIndex, FALSE)

\* A batch per partition; one that has no rows, or does not exist, is stepped over.
partitionedProcess(args, s) ==
    LET left == {j \in s.idx..Len(s.ranges) : args.n > 0 /\ s.ranges[j].ord \in 0..(Countries - 1)}
        j == Min(left)
    IN  IF left = {} THEN Finish([s EXCEPT !.idx = Len(s.ranges) + 1])
        ELSE Emit([s EXCEPT !.idx = j + 1],
                  [i \in 1..args.n |-> <<s.ranges[j].ord, s.ranges[j].ord * 100 + i>>],
                  NoIndex, FALSE)

Process(fn, args, s) ==
    CASE fn = "split_echo_filters" -> echoFiltersProcess(s)
      [] fn = "split_partitioned" -> partitionedProcess(args, s)
      [] OTHER -> rangeProcess(fn, args, s)
=============================================================================
