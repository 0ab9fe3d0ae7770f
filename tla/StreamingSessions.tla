-------------------------- MODULE StreamingSessions --------------------------
(***************************************************************************)
(* Streaming aggregates (vgi/aggregate_streaming.go) with the running sum  *)
(* of examples/aggregate/streaming.go: open, chunk and close of sessions   *)
(* that live in the memory of the process that opened them.  A chunk looks *)
(* its session up under one lock and folds its rows in under another, so   *)
(* the two are steps of their own.                                         *)
(*                                                                         *)
(* A row is the values of its partition columns and a value to add; Null   *)
(* stands for SQL NULL in either.  A string is the sequence of its bytes,  *)
(* a number one byte, which stands for the eight or four it has.  One      *)
(* execution's chunks come one after another, as the engine sends them;    *)
(* processes may restart between any two steps.                            *)
(***************************************************************************)
EXTENDS Integers, Sequences, FiniteSetsExt, SequencesExt

CONSTANTS
    Executions, Processes,
    Null,
    Partitionings,   \* the partition columns to choose from: their Arrow types, and the
                     \* keys of rows that have them
    MaxChunk,    \* rows of a chunk
    MaxRows,     \* rows of an execution
    MaxRestarts

Values == {Null, 1}
VARIABLES
    partitioning,  \* the one of Partitionings of these sessions
    sessions,      \* process -> executions -> running totals, of the open sessions
    call,          \* execution -> the chunk call in flight
    client,        \* execution -> what the client knows: where it opened, what was answered
    restarts

Types == partitioning.types
Rows == [key : partitioning.keys, value : Values]
Chunks == UNION {[1..n -> Rows] : n \in 1..MaxChunk}

vars == <<partitioning, sessions, call, client, restarts>>

NoCall == [at |-> "none", chunk |-> <<>>, sums |-> <<>>]

NewClient == [opened |-> "none", fed |-> <<>>, answers |-> <<>>, status |-> "new"]

Init ==
    /\ partitioning \in Partitionings
    /\ sessions = [p \in Processes |-> <<>>]
    /\ call = [e \in Executions |-> NoCall]
    /\ client = [e \in Executions |-> NewClient]
    /\ restarts = 0

-----------------------------------------------------------------------------
(***************************************************************************)
(* The running sum.                                                        *)
(***************************************************************************)
EndOfValue == 0
NullMark == 255

\* A column as fmt prints it: the values of all rows.
Printed(chunk, c) ==
    [j \in DOMAIN chunk |-> IF chunk[j].key[c] = Null THEN NullMark ELSE chunk[j].key[c]]

\* What PartitionKey hashes of a value: its bytes, where the type has a case of its own; the
\* whole column, where it has none.
ValueBytes(chunk, c, i) ==
    CASE Types[c] \in {"int64", "int32"} -> <<chunk[i].key[c]>>
      [] Types[c] \in {"utf8", "binary"} -> chunk[i].key[c]
      [] OTHER -> Printed(chunk, c)

\* Mutant: nothing is written for NULL.
PartitionKeyNullUnmarked(chunk, i) ==
    FlattenSeq([c \in DOMAIN Types |->
                  IF chunk[i].key[c] = Null THEN <<>>
                  ELSE Append(ValueBytes(chunk, c, i), EndOfValue)])

\* The partition of row i, as the bytes that are hashed: of every partition column, its
\* value with a zero after it, or the mark of NULL.
PartitionKey(chunk, i) ==
    FlattenSeq([c \in DOMAIN Types |->
                  IF chunk[i].key[c] = Null THEN <<NullMark>>
                  ELSE Append(ValueBytes(chunk, c, i), EndOfValue)])

Total(sums, key) == IF key \in DOMAIN sums THEN sums[key] ELSE 0

\* One row: the total of its partition, with the row's value unless it is NULL.
AddRow(acc, chunk, i) ==
    LET key == PartitionKey(chunk, i)
        total == Total(acc.sums, key) + IF chunk[i].value = Null THEN 0 ELSE chunk[i].value
    IN  [sums |-> IF chunk[i].value = Null THEN acc.sums
                  ELSE [k \in DOMAIN acc.sums \cup {key} |-> IF k = key THEN total ELSE acc.sums[k]],
         out |-> Append(acc.out, total)]

StreamingChunk(sums, chunk) ==
    FoldLeft(LAMBDA acc, i : AddRow(acc, chunk, i),
             [sums |-> sums, out |-> <<>>], [i \in DOMAIN chunk |-> i])

\* The callback that serves the same frame when the engine does not stream it.
Window(partition, frame) ==
    LET counted == {i \in frame : partition[i].value # Null}
    IN  IF counted = {} THEN Null ELSE MapThenSumSet(LAMBDA i : partition[i].value, counted)

-----------------------------------------------------------------------------
(***************************************************************************)
(* The handlers.                                                           *)
(***************************************************************************)
handleAggregateStreamingOpen(e, p) ==
    /\ client[e].status = "new"
    /\ sessions' = [sessions EXCEPT ![p] = [x \in DOMAIN @ \cup {e} |-> IF x = e THEN <<>> ELSE @[x]]]
    /\ client' = [client EXCEPT ![e].opened = p, ![e].status = "open"]
    /\ UNCHANGED <<partitioning, call, restarts>>

\* Whether the process holds the session.
streamingSessionGet(p, e) == e \in DOMAIN sessions[p]

\* The lookup of a chunk call: the session, or the not-found error.
handleAggregateStreamingChunk(e, p) ==
    /\ client[e].status = "open"
    /\ call[e] = NoCall
    /\ \E chunk \in Chunks :
         /\ Len(client[e].fed) + Len(chunk) <= MaxRows
         /\ IF streamingSessionGet(p, e)
            THEN /\ call' = [call EXCEPT ![e] =
                               [at |-> p, chunk |-> chunk,
                                sums |-> IF e \in DOMAIN sessions[p] THEN sessions[p][e] ELSE <<>>]]
                 /\ UNCHANGED client
            ELSE /\ client' = [client EXCEPT ![e].status = "not found"]
                 /\ UNCHANGED call
    /\ UNCHANGED <<partitioning, sessions, restarts>>

\* The rest of the call works on the session it found: one that a close dropped
\* meanwhile is still this call's to fill, and no other call's to see.
StreamingChunkReturns(e) ==
    LET p == call[e].at
        r == StreamingChunk(call[e].sums, call[e].chunk)
    IN  /\ call[e] # NoCall
        /\ call' = [call EXCEPT ![e] = NoCall]
        /\ sessions' = IF e \in DOMAIN sessions[p] THEN [sessions EXCEPT ![p][e] = r.sums] ELSE sessions
        /\ client' = IF client[e].status # "open" THEN client
                     ELSE [client EXCEPT ![e].fed = @ \o call[e].chunk, ![e].answers = @ \o r.out]
        /\ UNCHANGED <<partitioning, restarts>>

\* A chunk without the value column, or with one that is not int64, is refused and
\* leaves the totals as they are.
StreamingChunkFails(e) ==
    /\ call[e] # NoCall
    /\ call' = [call EXCEPT ![e] = NoCall]
    /\ client' = [client EXCEPT ![e].status = IF @ = "open" THEN "failed" ELSE @]
    /\ UNCHANGED <<partitioning, sessions, restarts>>

\* A close drops the session of the process it reaches, if it is there; the engine
\* closes after an error and when the query is cancelled as well.
handleAggregateStreamingClose(e, p) ==
    /\ client[e].status \in {"open", "failed", "not found"}
    /\ sessions' = [sessions EXCEPT ![p] = [x \in DOMAIN @ \ {e} |-> @[x]]]
    /\ client' = [client EXCEPT ![e].status = "closed"]
    /\ UNCHANGED <<partitioning, call, restarts>>

\* A process restarts: its sessions are gone, and the calls it was serving.
Restart(p) ==
    /\ restarts < MaxRestarts
    /\ restarts' = restarts + 1
    /\ sessions' = [sessions EXCEPT ![p] = <<>>]
    /\ call' = [e \in Executions |-> IF call[e].at = p THEN NoCall ELSE call[e]]
    /\ client' = [e \in Executions |->
                    IF call[e].at = p /\ client[e].status = "open"
                    THEN [client[e] EXCEPT !.status = "failed"] ELSE client[e]]
    /\ UNCHANGED partitioning

Next ==
    \/ \E e \in Executions :
         \/ StreamingChunkReturns(e)
         \/ StreamingChunkFails(e)
         \/ \E p \in Processes : \/ handleAggregateStreamingOpen(e, p)
                                 \/ handleAggregateStreamingChunk(e, p)
                                 \/ handleAggregateStreamingClose(e, p)
    \/ \E p \in Processes : Restart(p)

Spec == Init /\ [][Next]_vars
-----------------------------------------------------------------------------
(***************************************************************************)
(* Properties.                                                             *)
(***************************************************************************)
\* The rows up to i of i's partition.
Frame(rows, i) == {j \in 1..i : rows[j].key = rows[i].key}

\* Whether the keys of two partitions never have the same bytes: there is one column, or no
\* string holds a byte that ends a value or stands for NULL.
Distinguished(rows) ==
    \/ Len(Types) <= 1
    \/ \A i \in DOMAIN rows, c \in DOMAIN Types :
         Types[c] \in {"utf8", "binary"} /\ rows[i].key[c] # Null =>
           Range(rows[i].key[c]) \cap {EndOfValue, NullMark} = {}

\* Whatever process a chunk reaches, and whatever restarts and closes come between, a
\* chunk that is answered is answered with the running totals of its partitions over
\* all the rows fed before it (handleAggregateStreamingChunk, PartitionKey): a session
\* that was lost is an error and never a total that starts again. The strings of a key of
\* several columns must not hold the bytes 0x00 and 0xff, which PartitionKey does not
\* escape. Where the rows of the partition so far hold a value, the total is what the
\* Window callback answers for them; where they are all NULL, Window answers NULL and
\* the stream 0.
TotalsExact ==
    \A e \in Executions :
        LET rows == client[e].fed
        IN  /\ DOMAIN client[e].answers = DOMAIN rows
            /\ Distinguished(rows) =>
                 \A i \in DOMAIN rows :
                   LET whole == Window(rows, Frame(rows, i))
                   IN  client[e].answers[i] = IF whole = Null THEN 0 ELSE whole
=============================================================================
