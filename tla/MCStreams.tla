------------------------------ MODULE MCStreams -------------------------------
(***************************************************************************)
(* The streams of table-in-out functions, for TLC: TableInOutExchange, the *)
(* turns of an input stream; FinalizeFlush, the finalize streams; and      *)
(* StreamParams, what a function is told on every turn.  A behaviour takes *)
(* one.                                                                    *)
(*                                                                         *)
(* Two inputs with up to three replies each.  Two substreams: of a live    *)
(* query that collects their states, and of HTTP queries whose functions   *)
(* flush up to three batches of their own. Requests that fill in no        *)
(* optional field, one of them, or all of them.                            *)
(***************************************************************************)
EXTENDS FinalizeFlush

CONSTANTS Transports, NumInputs, MaxReplies, MaxRetries, Nil, MaxTurns, Given, Carried

Query(t, s, c, i) == [transport |-> t, shape |-> s, collects |-> c, ids |-> i]

MCModes ==
    {Query(t, "tableInOut", TRUE, i) : t \in {"bytes", "http"}, i \in BOOLEAN}
      \cup {Query("http", "tableInOut", FALSE, TRUE), Query("http", "tableBuffering", FALSE, TRUE)}

VARIABLES
    which,   \* the component of this behaviour
    transport, fn, server, eToken, eParams, next, pending, request, eGot, status, wrong, retries,
    call, bound, params, recipe, first, seen, turns

E == INSTANCE TableInOutExchange WITH token <- eToken, params <- eParams, got <- eGot

S == INSTANCE StreamParams

eVars == <<transport, fn, server, eToken, eParams, next, pending, request, eGot, status, wrong,
           retries>>

sVars == <<call, bound, params, recipe, first, seen, turns>>

allVars == <<which, vars, eVars, sVars>>

ASSUME E!TransportAssumption /\ E!BoundAssumption

Fields == INSTANCE StreamParams WITH Given <- {}, Carried <- {}

Optional == Fields!BindFields \cup Fields!InitFields \cup Fields!TickFields
MCGiven == {{}} \cup {{f} : f \in Optional} \cup {Optional \ {"InputSchema"}}

\* The fields the recipe in a token is meant for.
MCCarried ==
    Fields!ParamFields \ {"OrderByHint", "TableSampleHint", "SplitPayloads",
                     "IfNoneMatch", "IfModifiedSince"}

Flush(A) == which = "flush" /\ A /\ UNCHANGED <<which, eVars, sVars>>
Input(A) == which = "exchange" /\ A /\ UNCHANGED <<which, vars, sVars>>
Params(A) == which = "params" /\ A /\ UNCHANGED <<which, vars, eVars>>

\* The components that do not run stay in one state.
MCInit ==
    /\ which \in {"flush", "exchange", "params"}
    /\ which = "flush" \/ mode = CHOOSE m \in Modes : TRUE
    /\ which = "exchange" \/ (transport = "bytes" /\ fn = CHOOSE f \in E!Functions : TRUE)
    /\ which = "params" \/ call = CHOOSE c \in S!Calls : c.drive = c.shape
    /\ Init /\ E!Init /\ S!Init

MCNext == Flush(Next) \/ Input(E!Next) \/ Params(S!Next)

\* The fairness of each component, while it is the one that runs.
MCSpec ==
    /\ MCInit /\ [][MCNext]_allVars
    /\ WF_allVars(Flush(Next) \/ Input(E!Exchange))
    /\ WF_allVars(Input(E!SendInput \/ E!SendTick \/ E!CloseInput))

-----------------------------------------------------------------------------
\* On both kinds of transport, and however turns are repeated, the client gets every
\* input's replies in order, each once, and it and the stream agree on whether more are
\* pending (Exchange, rehydrateTableInOut).
RepliesInOrder == E!RepliesInOrder /\ E!PendingAgreed

\* What the components promise, by the names they have there.
CachingPerInput == E!CachingPerInput
ParamsSurvive == S!ParamsSurvive

\* Streams come to their end: an input stream of a function that implements Resume, has a
\* state, says that there is more through the emit helpers and leaves cache control to first
\* replies, unless the client breaks the protocol, and every finalize stream (Exchange, Produce).
StreamsEnd == (which = "exchange" => E!GoodStreamsFinish) /\ FlushEnds
=============================================================================
