---------------------------- MODULE TableBuffering -----------------------------
(***************************************************************************)
(* The life of table-buffering executions (table_buffering_rpc.go) served  *)
(* by several worker processes that share one function storage.            *)
(*                                                                         *)
(* The sink init writes the recipe of the execution to its state log.  The *)
(* process and combine calls name only the execution: the process that     *)
(* serves one takes the recipe from its own cache, or reads it from the    *)
(* log and caches it.  A finalize stream reads what combine left, and the  *)
(* destructor, at the end of the query, drops the cached recipe and the    *)
(* log.  The function is the one of the examples that restores the order   *)
(* of its input from the batch index (buffering_fixtures.go).              *)
(***************************************************************************)
EXTENDS Integers, Sequences, FiniteSets, SequencesExt

CONSTANTS
    Deployments,  \* the deployments to consider: the executions of the function,
                  \* the worker processes, and whether calls may fail and the client
                  \* end a query with calls under way
    Threads,      \* threads of the client that sink batches
    MaxBatches    \* input batches of an execution

BatchesAssumption == MaxBatches \in Nat
DeploymentAssumption ==
    \A d \in Deployments : d.processes # {} /\ d.mayFail \in BOOLEAN

None == "none"

VARIABLES
    phase,    \* of each execution, as its client knows it
    sent,     \* batches sent for each execution
    call,     \* the call each thread of each execution has under way
    cache,    \* bufferingParams of each process: the executions it has
    log,      \* the state log of each execution
    out,      \* the finalize output of each execution
    refused,  \* executions with a call that found no recipe
    ended,    \* of each execution: the process its destructor came to, the calls that were
              \* still under way then, and whether the log was cleared
    deployment \* one of Deployments; never changes

vars == <<phase, sent, call, cache, log, out, refused, ended, deployment>>

Executions == deployment.executions
Processes == deployment.processes
MayFail == deployment.mayFail

Idle == [pc |-> "idle", at |-> None, kind |-> None, idx |-> 0, recipe |-> None]

Kinds == {"process", "combine"}

TypeOK ==
    /\ phase \in [Executions -> {"new", "sink", "combine", "source", "done", "failed",
                             "ending", "destroyed"}]
    /\ sent \in [Executions -> 0..MaxBatches]
    /\ deployment \in Deployments
    /\ DOMAIN cache \subseteq Processes \X Executions
    /\ \A e \in Executions, t \in Threads :
         /\ call[e][t].pc \in {"idle", "load", "store", "run"}
         /\ call[e][t].pc \in {"store", "run"} => call[e][t].recipe \in Executions
    /\ \A e \in Executions : \A i \in DOMAIN log[e] : log[e][i].key \in {"recipe", "unsorted", "buf"}

Init ==
    /\ deployment \in Deployments
    /\ phase = [e \in Executions |-> "new"]
    /\ sent = [e \in Executions |-> 0]
    /\ call = [e \in Executions |-> [t \in Threads |-> Idle]]
    /\ cache = <<>>
    /\ log = [e \in Executions |-> <<>>]
    /\ out = [e \in Executions |-> None]
    /\ refused = {}
    /\ ended = [e \in Executions |-> [at |-> None, late |-> {}, cleared |-> FALSE]]

Quiet(e) == \A t \in Threads : call[e][t] = Idle

\* A call that returns an error fails the query.
Failed(e) == [phase EXCEPT ![e] = IF @ \in {"ending", "destroyed"} THEN @ ELSE "failed"]

\* StateLogScan of one key, from the start.
Scan(e, key) == SelectSeq(log[e], LAMBDA entry : entry.key = key)

-----------------------------------------------------------------------------
(***************************************************************************)
(* The calls                                                               *)
(***************************************************************************)

\* initTableBuffering, sink phase.  The recipe of an execution is what it was
\* bound to; it is named after the execution.
SinkInit(e, p) ==
    /\ phase[e] = "new"
    /\ log' = [log EXCEPT ![e] = Append(@, [key |-> "recipe", idx |-> 0, recipe |-> e])]
    /\ phase' = [phase EXCEPT ![e] = "sink"]
    /\ UNCHANGED <<sent, call, cache, out, refused, ended>>

\* The client sends a batch, from any thread and to any process.
SendProcess(e, t, p) ==
    /\ phase[e] = "sink"
    /\ call[e][t] = Idle
    /\ sent[e] < MaxBatches
    /\ sent' = [sent EXCEPT ![e] = @ + 1]
    /\ call' = [call EXCEPT ![e][t] = [Idle EXCEPT !.pc = "load", !.at = p, !.kind = "process",
                                                   !.idx = sent[e] + 1]]
    /\ UNCHANGED <<phase, cache, log, out, refused, ended>>

\* The client sends combine, once every process call has returned.
SendCombine(e, t, p) ==
    /\ phase[e] = "sink"
    /\ Quiet(e)
    /\ phase' = [phase EXCEPT ![e] = "combine"]
    /\ call' = [call EXCEPT ![e][t] = [Idle EXCEPT !.pc = "load", !.at = p, !.kind = "combine"]]
    /\ UNCHANGED <<sent, cache, log, out, refused, ended>>

\* The cache has an entry per execution.
cacheKey(p, e) == <<p, e>>

\* loadBufferingParams: the cached recipe, else the one in the log.
loadBufferingParams(e, t) ==
    LET c   == call[e][t]
        key == cacheKey(c.at, e)
        found == Scan(e, "recipe")
    IN /\ c.pc = "load"
       /\ \/ /\ key \in DOMAIN cache
             /\ call' = [call EXCEPT ![e][t].pc = "run", ![e][t].recipe = cache[key]]
             /\ UNCHANGED <<phase, refused>>
          \/ /\ key \notin DOMAIN cache
             /\ found # <<>>
             /\ call' = [call EXCEPT ![e][t].pc = "store", ![e][t].recipe = found[1].recipe]
             /\ UNCHANGED <<phase, refused>>
          \/ /\ key \notin DOMAIN cache
             /\ found = <<>>
             /\ call' = [call EXCEPT ![e][t] = Idle]
             /\ refused' = refused \cup {e}
             /\ phase' = Failed(e)
       /\ UNCHANGED <<sent, cache, log, out, ended>>

\* The end of loadBufferingParams: the recipe read from the log is cached.
storeParams(e, t) ==
    LET c   == call[e][t]
        key == cacheKey(c.at, e)
    IN /\ c.pc = "store"
       /\ cache' = [k \in DOMAIN cache \cup {key} |-> IF k = key THEN c.recipe ELSE cache[k]]
       /\ call' = [call EXCEPT ![e][t].pc = "run"]
       /\ UNCHANGED <<phase, sent, log, out, refused, ended>>

\* handleTableBufferingProcess runs the function, which appends the batch with
\* its index.
Process(e, t) ==
    LET c == call[e][t]
    IN /\ c.pc = "run"
       /\ c.kind = "process"
       /\ log' = [log EXCEPT ![e] = Append(@, [key |-> "unsorted", idx |-> c.idx, recipe |-> c.recipe])]
       /\ call' = [call EXCEPT ![e][t] = Idle]
       /\ UNCHANGED <<phase, sent, cache, out, refused, ended>>

\* Mutant: the batches are taken in the order they came.
Combine_Unsorted(e, t) ==
    LET c    == call[e][t]
        rows == Scan(e, "unsorted")
    IN /\ c.pc = "run"
       /\ c.kind = "combine"
       /\ log' = [log EXCEPT ![e] = @ \o [i \in DOMAIN rows |-> [rows[i] EXCEPT !.key = "buf"]]]
       /\ phase' = [phase EXCEPT ![e] = IF @ = "combine" THEN "source" ELSE @]
       /\ call' = [call EXCEPT ![e][t] = Idle]
       /\ UNCHANGED <<sent, cache, out, refused, ended>>

\* handleTableBufferingCombine: the function sorts the batches by their index and
\* appends them again.
Combine(e, t) ==
    LET c      == call[e][t]
        sorted == SortSeq(Scan(e, "unsorted"), LAMBDA a, b : a.idx < b.idx)
    IN /\ c.pc = "run"
       /\ c.kind = "combine"
       /\ log' = [log EXCEPT ![e] = @ \o [i \in DOMAIN sorted |-> [sorted[i] EXCEPT !.key = "buf"]]]
       /\ phase' = [phase EXCEPT ![e] = IF @ = "combine" THEN "source" ELSE @]
       /\ call' = [call EXCEPT ![e][t] = Idle]
       /\ UNCHANGED <<sent, cache, out, refused, ended>>

\* initTableBuffering, finalize phase, and the stream it opens.
Finalize(e) ==
    /\ phase[e] = "source"
    /\ out' = [out EXCEPT ![e] = Scan(e, "buf")]
    /\ phase' = [phase EXCEPT ![e] = "done"]
    /\ UNCHANGED <<sent, call, cache, log, refused, ended>>

\* A call that fails on the way: before the function has done anything, or with
\* only some of the batches of combine appended.
Fail(e, t) ==
    LET c      == call[e][t]
        sorted == SortSeq(Scan(e, "unsorted"), LAMBDA a, b : a.idx < b.idx)
    IN /\ MayFail
       /\ c # Idle
       /\ \E n \in 0..(IF c.pc = "run" /\ c.kind = "combine" THEN Len(sorted) - 1 ELSE 0) :
            log' = [log EXCEPT ![e] = @ \o [i \in 1..n |-> [sorted[i] EXCEPT !.key = "buf"]]]
       /\ call' = [call EXCEPT ![e][t] = Idle]
       /\ phase' = Failed(e)
       /\ UNCHANGED <<sent, cache, out, refused, ended>>

\* When the client sends the destructor.
Ending(e) ==
    \/ phase[e] \in {"done", "failed"} /\ Quiet(e)
    \/ MayFail /\ phase[e] \notin {"new", "ending", "destroyed"}

Late(e) == {[at |-> call[e][t].at, pc |-> call[e][t].pc] : t \in {u \in Threads : call[e][u] # Idle}}

\* Mutant: the destructor leaves the cache alone.
Destructor_KeepsCache(e, p) ==
    /\ Ending(e)
    /\ phase' = [phase EXCEPT ![e] = "ending"]
    /\ ended' = [ended EXCEPT ![e].at = p, ![e].late = Late(e)]
    /\ UNCHANGED <<sent, call, cache, log, out, refused>>

\* handleTableBufferingDestructor, in any process: the recipe goes from its cache, ...
Destructor(e, p) ==
    /\ Ending(e)
    /\ cache' = [k \in DOMAIN cache \ {cacheKey(p, e)} |-> cache[k]]
    /\ phase' = [phase EXCEPT ![e] = "ending"]
    /\ ended' = [ended EXCEPT ![e].at = p, ![e].late = Late(e)]
    /\ UNCHANGED <<sent, call, log, out, refused>>

\* ... then the log is cleared; an error of StateLogClear is dropped.
StateLogClear(e) ==
    /\ phase[e] = "ending"
    /\ \E cleared \in {TRUE, ~MayFail} :
         /\ log' = IF cleared THEN [log EXCEPT ![e] = <<>>] ELSE log
         /\ ended' = [ended EXCEPT ![e].cleared = cleared]
    /\ phase' = [phase EXCEPT ![e] = "destroyed"]
    /\ UNCHANGED <<sent, call, cache, out, refused>>

Next ==
    /\ \E e \in Executions :
         \/ Finalize(e) \/ StateLogClear(e)
         \/ \E p \in Processes : SinkInit(e, p) \/ Destructor(e, p)
         \/ \E t \in Threads, p \in Processes : SendProcess(e, t, p) \/ SendCombine(e, t, p)
         \/ \E t \in Threads :
              \/ loadBufferingParams(e, t)
              \/ storeParams(e, t)
              \/ Process(e, t)
              \/ Combine(e, t)
              \/ Fail(e, t)
    /\ UNCHANGED deployment

Spec == Init /\ [][Next]_vars

-----------------------------------------------------------------------------
(***************************************************************************)
(* Properties                                                              *)
(***************************************************************************)

\* Whichever threads sank the batches and whichever processes served the calls,
\* an execution's output is its own input: every batch sent, once, in source
\* order, each processed under the execution's own recipe.
FinalizedWhole ==
    \A e \in Executions :
      out[e] # None =>
        out[e] = [i \in 1..sent[e] |-> [key |-> "buf", idx |-> i, recipe |-> e]]

\* A process that has never seen the execution can serve its calls: none is
\* refused for want of a recipe before the destructor.
ServedAnywhere == \A e \in refused : phase[e] = "destroyed"

\* What an execution leaves behind when its calls have ended.  A recipe stays only in
\* processes the destructor did not come to, or where a call was about to load or
\* store it as the destructor ran; entries stay in the log only if a call outlived the
\* destructor or the clear failed, and never a recipe that was cleared, so a process
\* without one cannot take the execution up again (handleTableBufferingDestructor,
\* loadBufferingParams).
LeftAtEnd ==
    \A e \in Executions :
      phase[e] = "destroyed" /\ Quiet(e) =>
        /\ \A p \in Processes :
             <<p, e>> \in DOMAIN cache /\ p = ended[e].at =>
               \E c \in ended[e].late : c.at = p /\ c.pc \in {"load", "store"}
        /\ log[e] # <<>> => ~ended[e].cleared \/ ended[e].late # {}
        /\ ended[e].cleared => Scan(e, "recipe") = <<>>
=============================================================================
