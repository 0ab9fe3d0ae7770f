----------------------------- MODULE FinalizeFlush -----------------------------
(***************************************************************************)
(* The end of a parallel table-in-out query (protocol.go:                  *)
(* initTableInOut, FinalizeProducerState; storage.go: Put, Collect;        *)
(* state_serialize.go; rehydrate.go).                                      *)
(*                                                                         *)
(* Every substream of the query stores its state while it takes input, in  *)
(* the storage all processes share.  Then each substream opens a FINALIZE  *)
(* stream.  The function either collects what is stored, or flushes what   *)
(* its own substream has, and the stream hands the batches out one per     *)
(* turn.  On a byte stream the producer lives between turns.  Over HTTP it *)
(* travels in the token: the first token that would hold more than one     *)
(* batch moves them to the execution's state log, and later tokens hold a  *)
(* cursor.                                                                 *)
(***************************************************************************)
EXTENDS Integers, Sequences, FiniteSets, SequencesExt

CONSTANTS
    Substreams,   \* substreams of the query, as numbers
    Processes,    \* worker processes
    Modes,        \* the kinds of query: transport, shape, what it collects, and whether the
                  \* client sends substream ids
    MaxPuts,      \* how often a substream stores its state
    MaxLosses,    \* answers lost over HTTP
    LogMayFail    \* whether an append to the state log may fail

ASSUME SubstreamsAssumption == Substreams \subseteq Nat \ {0}
ASSUME ModesAssumption ==
    Modes \subseteq [transport : {"bytes", "http"}, shape : {"tableInOut", "tableBuffering"},
                    collects : BOOLEAN, ids : BOOLEAN]
ASSUME BoundAssumption == MaxPuts \in Nat /\ MaxLosses \in Nat /\ LogMayFail \in BOOLEAN

NoKey == 0

VARIABLES
    mode,     \* the one of Modes this query is
    phase,    \* of each substream: what it does next
    puts,     \* how often each substream has stored its state
    servers,  \* the processes that have served turns of its input
    stored,   \* the stored states by worker key
    flush,    \* the batches of each finalize stream
    state,    \* the producer of each finalize stream
    token,    \* the state token its client holds
    emitted,  \* what the current turn emitted: <<>> or one batch
    log,      \* the state log of the execution
    got,      \* the batches the client of each stream has
    failed,   \* streams that failed to append to the log
    losses    \* answers lost so far

vars == <<mode, phase, puts, servers, stored, flush, state, token, emitted, log, got, failed, losses>>

Batches == Substreams \X (1..MaxPuts)

\* FinalizeProducerState: the batches it carries, the next of them, and once they
\* are in the log their key and the id of the last one emitted.
ProducerStart == [ipc |-> <<>>, idx |-> 0, key |-> NoKey, cursor |-> -1]

TypeOK ==
    /\ phase \in [Substreams -> {"input", "ready", "produce", "encode", "append", "answer", "turn", "done"}]
    /\ puts \in [Substreams -> 0..MaxPuts]
    /\ servers \in [Substreams -> SUBSET Processes]
    /\ DOMAIN stored \subseteq Substreams \cup Processes
    /\ \A s \in Substreams :
         /\ state[s].idx \in 0..Len(state[s].ipc)
         /\ state[s].key # NoKey => state[s].ipc = <<>>
         /\ Len(emitted[s]) <= 1
    /\ \A i \in DOMAIN log : log[i].value \in Batches
    /\ losses \in 0..MaxLosses

Init ==
    /\ mode \in Modes
    /\ phase = [s \in Substreams |-> "input"]
    /\ puts = [s \in Substreams |-> 0]
    /\ servers = [s \in Substreams |-> {}]
    /\ stored = <<>>
    /\ flush = [s \in Substreams |-> <<>>]
    /\ state = [s \in Substreams |-> ProducerStart]
    /\ token = [s \in Substreams |-> ProducerStart]
    /\ emitted = [s \in Substreams |-> <<>>]
    /\ log = <<>>
    /\ got = [s \in Substreams |-> <<>>]
    /\ failed = {}
    /\ losses = 0

-----------------------------------------------------------------------------
(***************************************************************************)
(* The INPUT streams.                                                      *)
(***************************************************************************)

\* Mutant: the state is stored under the process that serves the stream.
workerKey_Process(s, p) == p

\* The key of a stream's state: the substream id of the client, or the process that serves
\* the turn when the client sends none.
workerKey(s, p) == IF mode.ids THEN s ELSE p

\* ExecutionStorage.Put, in the process that has the byte stream, or in whichever serves the
\* turn over HTTP.
Put(s, p) ==
    LET key == workerKey(s, p)
    IN /\ phase[s] = "input"
       /\ puts[s] < MaxPuts
       /\ mode.transport = "bytes" => servers[s] \subseteq {p}
       /\ puts' = [puts EXCEPT ![s] = @ + 1]
       /\ servers' = [servers EXCEPT ![s] = @ \cup {p}]
       /\ stored' = [k \in DOMAIN stored \cup {key} |->
                       IF k = key THEN <<s, puts[s] + 1>> ELSE stored[k]]
       /\ UNCHANGED <<phase, flush, state, token, emitted, log, got, failed, losses>>

EndInput(s) ==
    /\ phase[s] = "input"
    /\ puts[s] > 0
    /\ phase' = [phase EXCEPT ![s] = "ready"]
    /\ UNCHANGED <<puts, servers, stored, flush, state, token, emitted, log, got, failed, losses>>

-----------------------------------------------------------------------------
(***************************************************************************)
(* The FINALIZE streams.                                                   *)
(***************************************************************************)

Before(a, b) == a[1] < b[1] \/ (a[1] = b[1] /\ a[2] < b[2])

\* The init of a finalize stream, once all input is in.  A function that collects
\* the stored states removes them, and makes a batch of each.
Finalize(s) ==
    LET states  == {stored[k] : k \in DOMAIN stored}
        batches == IF mode.collects THEN SetToSortSeq(states, Before)
                   ELSE [i \in 1..puts[s] |-> <<s, i>>]
    IN /\ phase[s] = "ready"
       /\ \A t \in Substreams : phase[t] # "input"
       /\ stored' = IF mode.collects THEN <<>> ELSE stored
       /\ flush' = [flush EXCEPT ![s] = batches]
       /\ state' = [state EXCEPT ![s].ipc = batches]
       /\ phase' = [phase EXCEPT ![s] = "produce"]
       /\ UNCHANGED <<puts, servers, token, emitted, log, got, failed, losses>>

\* What follows a turn that emitted a batch: the next one on a byte stream, where
\* the client has it at once; over HTTP the token must be written first.
Emit(s, batch, after) ==
    /\ state' = [state EXCEPT ![s] = after]
    /\ IF mode.transport = "bytes"
         THEN /\ got' = [got EXCEPT ![s] = Append(@, batch)]
              /\ UNCHANGED <<phase, emitted>>
         ELSE /\ emitted' = [emitted EXCEPT ![s] = <<batch>>]
              /\ phase' = [phase EXCEPT ![s] = "encode"]
              /\ UNCHANGED got

Finish(s) ==
    /\ phase' = [phase EXCEPT ![s] = "done"]
    /\ state' = [state EXCEPT ![s] = ProducerStart]
    /\ UNCHANGED <<emitted, got>>

\* Produce, on the batches the producer carries.
Produce(s) ==
    /\ phase[s] = "produce"
    /\ state[s].key = NoKey
    /\ IF state[s].idx >= Len(state[s].ipc) THEN Finish(s)
       ELSE Emit(s, state[s].ipc[state[s].idx + 1], [state[s] EXCEPT !.idx = @ + 1])
    /\ UNCHANGED <<puts, servers, stored, flush, token, log, failed, losses>>

\* StateLogScan(key, cursor, 1).
Following(s) == {i \in DOMAIN log : log[i].key = state[s].key /\ i > state[s].cursor}

\* Mutant: an exhausted log does not finish the stream.
produceFromLog_NoFinish(s) ==
    /\ phase[s] = "produce"
    /\ state[s].key # NoKey
    /\ Following(s) # {}
    /\ LET i == CHOOSE j \in Following(s) : \A k \in Following(s) : j <= k
       IN Emit(s, log[i].value, [state[s] EXCEPT !.cursor = i])
    /\ UNCHANGED <<puts, servers, stored, flush, token, log, failed, losses>>

\* Produce, on a flush that is in the log.
produceFromLog(s) ==
    /\ phase[s] = "produce"
    /\ state[s].key # NoKey
    /\ IF Following(s) = {} THEN Finish(s)
       ELSE LET i == CHOOSE j \in Following(s) : \A k \in Following(s) : j <= k
            IN Emit(s, log[i].value, [state[s] EXCEPT !.cursor = i])
    /\ UNCHANGED <<puts, servers, stored, flush, token, log, failed, losses>>

Remaining(st) == SubSeq(st.ipc, st.idx + 1, Len(st.ipc))

\* Only the worker that ran the init of a table-in-out stream has the storage at
\* hand in a producer that carries its batches: initTableBuffering does not give
\* it, and neither does a token.
HasStorage(s) == mode.shape = "tableInOut" /\ token[s] = ProducerStart

\* Mutant: the batches stay in the token.
offloadFlush_Never(s) == FALSE

\* Whether the token being written moves the batches to the log.
offloadFlush(s) ==
    state[s].key = NoKey /\ HasStorage(s) /\ Len(Remaining(state[s])) >= 2

\* GobEncode: the first token of a flush of more than one batch starts the
\* appends.
GobEncode(s) ==
    /\ phase[s] = "encode"
    /\ phase' = [phase EXCEPT ![s] = IF offloadFlush(s) THEN "append" ELSE "answer"]
    /\ UNCHANGED <<puts, servers, stored, flush, state, token, emitted, log, got, failed, losses>>

\* Mutant: all finalize streams use one log key.
newFinalizeLogKey_Shared(s) == 1

\* A log key of the stream's own.
newFinalizeLogKey(s) == s

Mine(s) == {i \in DOMAIN log : log[i].by = s}

\* One StateAppend.  After the last the producer is switched to the log.
StateAppend(s) ==
    LET rest == Remaining(state[s])
        n    == Cardinality(Mine(s))
    IN /\ phase[s] = "append"
       /\ log' = Append(log, [key |-> newFinalizeLogKey(s), by |-> s, value |-> rest[n + 1]])
       /\ IF n + 1 = Len(rest)
            THEN /\ state' = [state EXCEPT ![s] = [ProducerStart EXCEPT !.key = newFinalizeLogKey(s)]]
                 /\ phase' = [phase EXCEPT ![s] = "answer"]
            ELSE UNCHANGED <<state, phase>>
       /\ UNCHANGED <<puts, servers, stored, flush, token, emitted, got, failed, losses>>

\* An append fails: the producer keeps its batches.
StateAppendFails(s) ==
    /\ LogMayFail
    /\ phase[s] = "append"
    /\ phase' = [phase EXCEPT ![s] = "answer"]
    /\ failed' = failed \cup {s}
    /\ UNCHANGED <<puts, servers, stored, flush, state, token, emitted, log, got, losses>>

\* The client gets the batch and the token, and asks for the next turn.
Answer(s) ==
    /\ phase[s] = "answer"
    /\ got' = [got EXCEPT ![s] = @ \o emitted[s]]
    /\ token' = [token EXCEPT ![s] = state[s]]
    /\ emitted' = [emitted EXCEPT ![s] = <<>>]
    /\ phase' = [phase EXCEPT ![s] = "turn"]
    /\ UNCHANGED <<puts, servers, stored, flush, state, log, failed, losses>>

\* The answer to a continuation is lost; the client asks again with its token.
AnswerLost(s) ==
    /\ phase[s] = "answer"
    /\ token[s] # ProducerStart
    /\ losses < MaxLosses
    /\ losses' = losses + 1
    /\ emitted' = [emitted EXCEPT ![s] = <<>>]
    /\ phase' = [phase EXCEPT ![s] = "turn"]
    /\ UNCHANGED <<puts, servers, stored, flush, state, token, log, got, failed>>

\* A worker rebuilds the producer from the token.
rehydrateFinalize(s) ==
    /\ phase[s] = "turn"
    /\ state' = [state EXCEPT ![s] = token[s]]
    /\ phase' = [phase EXCEPT ![s] = "produce"]
    /\ UNCHANGED <<puts, servers, stored, flush, token, emitted, log, got, failed, losses>>

Next ==
    /\ \E s \in Substreams :
         \/ \E p \in Processes : Put(s, p)
         \/ EndInput(s) \/ Finalize(s) \/ Produce(s) \/ produceFromLog(s)
         \/ GobEncode(s) \/ StateAppend(s) \/ StateAppendFails(s)
         \/ Answer(s) \/ AnswerLost(s) \/ rehydrateFinalize(s)
    /\ UNCHANGED mode

Spec == Init /\ [][Next]_vars

\* Clients end their input and ask for every turn; workers serve every turn.
FairSpec == Spec /\ WF_vars(Next)

-----------------------------------------------------------------------------
(***************************************************************************)
(* Properties                                                              *)
(***************************************************************************)

\* A finalize stream hands out its own batches, in order, each once: not those of
\* another stream of the execution, and no batch again after a lost answer or a
\* change from the token to the log.
FlushInOrder ==
    \A s \in Substreams :
      /\ IsPrefix(got[s], flush[s])
      /\ phase[s] = "done" => got[s] = flush[s]

\* No process has served two substreams, and no substream went from one to another.
Apart ==
    /\ \A s \in Substreams : Cardinality(servers[s]) = 1
    /\ \A s, t \in Substreams : servers[s] = servers[t] => s = t

\* The query's result counts every substream: together the finalize streams hand
\* out the last state of each substream, exactly once, whichever processes serve its turns.
\* For a client that sends no substream ids this takes a process of its own for every
\* substream (Put, workerKey, Collect).
EverySubstreamOnce ==
  mode.collects /\ (mode.ids \/ Apart) =>
    LET places(s) == {<<t, i>> \in Substreams \X (1..Cardinality(Substreams)) :
                        i \in DOMAIN got[t] /\ got[t][i][1] = s}
    IN (\A s \in Substreams : phase[s] = "done") =>
         \A s \in Substreams :
           /\ Cardinality(places(s)) = 1
           /\ \A p \in places(s) : got[p[1]][p[2]] = <<s, puts[s]>>

\* An N-batch flush costs N appends and N small tokens.  A token holds at most one
\* batch, however large the flush, unless the log could not be written, and no
\* batch is appended to the log twice.  This is what table-in-out streams do; the
\* flush of a buffering function stays in its tokens.
FlushCostLinear ==
    /\ mode.shape = "tableInOut" =>
         \A s \in Substreams \ failed : Len(Remaining(token[s])) <= 1
    /\ \A i, j \in DOMAIN log : log[i].value = log[j].value => i = j

\* Every finalize stream comes to its end.
FlushEnds == \A s \in Substreams : phase[s] = "produce" ~> phase[s] = "done"
=============================================================================
