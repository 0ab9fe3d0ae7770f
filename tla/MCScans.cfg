SPECIFICATION MCSpec
CONSTANTS
  MaxBatch = 2
  PerPage = 2
  Stride = 2
  ManySplits = 4
  HeadPercent = 99
  Countries = 2
  Planned = {"split_sequence", "split_zero", "split_empty_ranges", "split_skewed", "split_many", "split_paginated", "split_stale_plan", "split_batch_index", "split_cacheable", "split_dynamic_filter", "split_fail_at", "split_endless_cursor", "split_echo_filters", "split_partitioned", "sequence"}
  Attaches = {"own", "memory"}
  RowCounts = {0, 1, 2, 3, 4, 10}
  MaxSplits = 3
  MaxGroup = 2
  MaxPages = 3
  MaxLosses = 1
  MaxVersion = 2
  Readers = {1, 2}
  DefaultBatch = 2
  ChunkSize = 2
  KeyStride = 2
  MaxChunks = 2
  Fixed = 3
  Now = 3
  Sizes = {0, 1, 3}
  Steps = {1, 2}
  Streams = {1, 2}
  Processes = {1, 2}
  MaxMishaps = 1
INVARIANT ScanExact TableRowsExact PromisesKept AnnotationsTrue
PROPERTY BatchIndexRises ScansEnd
