-------------------------- MODULE TableInOutExchange --------------------------
(***************************************************************************)
(* The INPUT phase of a table-in-out stream (protocol.go, Exchange;        *)
(* continuation.go; state_serialize.go; rehydrate.go).  A function answers *)
(* one input batch with one reply, or with several: every reply but the    *)
(* last says HAVE_MORE_OUTPUT, and the client asks for the next with a     *)
(* continuation tick.                                                      *)
(*                                                                         *)
(* Byte-stream transports keep the stream's state between turns.  Over     *)
(* HTTP every turn is a request of its own, served by a worker that        *)
(* rebuilds the state from the token the client sends back; the client     *)
(* may send a turn again when its answer was lost.                         *)
(***************************************************************************)
EXTENDS Integers, Sequences, SequencesExt, TLC

CONSTANTS
    Transports,   \* transports of the worker, "bytes" and "http"
    NumInputs,    \* input batches the client sends
    MaxReplies,   \* replies to one input
    MaxRetries    \* turns an HTTP client repeats

TransportAssumption == Transports \subseteq {"bytes", "http"}
BoundAssumption == {NumInputs, MaxReplies} \subseteq Nat \ {0} /\ MaxRetries \in Nat

Inputs == 1..NumInputs
NoInput == 0

VARIABLES
    transport,\* the transport of the stream
    fn,          \* the function: what it implements and what it emits
    server,      \* the live state of the stream, on a byte stream
    token,       \* the state token the client holds
    params,      \* the validators the function sees, kept between live turns
    next,        \* the next input of the client
    pending,     \* whether the client's last reply said HAVE_MORE_OUTPUT
    request,     \* the client's message being served, or <<>>
    got,         \* the replies the client has
    status,      \* of the stream: "open", "done" or "error"
    wrong,       \* whether the client has broken the protocol
    retries      \* turns repeated so far

vars == <<transport, fn, server, token, params, next, pending, request, got, status, wrong, retries>>

(***************************************************************************)
(* A function gives `replies[i]' replies to input i.  It may implement     *)
(* Resume or not, have a state or not, attach cache control to the first   *)
(* reply or to every one, and emit its replies, or the last one of an      *)
(* input, raw on the collector instead of through the emit helpers.        *)
(***************************************************************************)
Functions == [replies : [Inputs -> 1..MaxReplies], resumer : BOOLEAN, state : BOOLEAN,
              cache : {"none", "first", "all"}, raw : {"none", "last", "all"}]

\* The user's state: the input being answered and the replies given to it.
State == [input : Inputs \cup {NoInput}, given : 0..MaxReplies, more : BOOLEAN]

Start == [input |-> NoInput, given |-> 0, more |-> FALSE]

Message == [kind : {"input", "tick"}, input : Inputs \cup {NoInput}, rows : BOOLEAN,
            validator : Inputs \cup {NoInput}]

TypeOK ==
    /\ fn \in Functions
    /\ server \in State /\ token \in State
    /\ params \in Inputs \cup {NoInput}
    /\ next \in 1..(NumInputs + 1)
    /\ pending \in BOOLEAN
    /\ request = <<>> \/ request \in Message
    /\ status \in {"open", "done", "error"}
    /\ wrong \in BOOLEAN
    /\ retries \in 0..MaxRetries

Init ==
    /\ transport \in Transports
    /\ fn \in Functions
    /\ server = Start /\ token = Start
    /\ params = NoInput
    /\ next = 1
    /\ pending = FALSE
    /\ request = <<>>
    /\ got = <<>>
    /\ status = "open"
    /\ wrong = FALSE
    /\ retries = 0

-----------------------------------------------------------------------------
(***************************************************************************)
(* The client.                                                             *)
(***************************************************************************)
Send(message) ==
    /\ status = "open"
    /\ request = <<>>
    /\ request' = message
    /\ UNCHANGED <<transport, fn, server, token, params, pending, got, status, retries>>

\* The next input, with the validator of a cached result or without.
SendInput ==
    /\ ~pending
    /\ next \in Inputs
    /\ \E validator \in {next, NoInput} :
         Send([kind |-> "input", input |-> next, rows |-> TRUE, validator |-> validator])
    /\ next' = next + 1
    /\ UNCHANGED wrong

SendTick ==
    /\ pending
    /\ Send([kind |-> "tick", input |-> NoInput, rows |-> FALSE, validator |-> NoInput])
    /\ UNCHANGED <<next, wrong>>

\* A client that breaks the protocol: a tick nobody waits for, a tick with rows,
\* or input while output is pending.
SendWrong ==
    /\ \/ Send([kind |-> "tick", input |-> NoInput, rows |-> pending, validator |-> NoInput])
       \/ /\ pending
          /\ Send([kind |-> "input", input |-> NumInputs, rows |-> TRUE, validator |-> NoInput])
    /\ wrong' = TRUE
    /\ UNCHANGED next

CloseInput ==
    /\ status = "open"
    /\ request = <<>>
    /\ ~pending
    /\ next > NumInputs
    /\ status' = "done"
    /\ UNCHANGED <<transport, fn, server, token, params, next, pending, request, got, wrong, retries>>

-----------------------------------------------------------------------------
(***************************************************************************)
(* One turn of the server.                                                 *)
(***************************************************************************)

\* rehydrateTableInOut: over HTTP the state comes from the token.
rehydrateTableInOut == IF transport = "http" THEN token ELSE server

isContinuationTick == request.kind = "tick"

\* Whether Exchange refuses the message or the function, before calling it.
Refuses(s) ==
    \/ isContinuationTick /\ ~s.more
    \/ isContinuationTick /\ request.rows
    \/ ~isContinuationTick /\ s.more
    \/ isContinuationTick /\ ~fn.resumer

\* The state after Process (an input) or Resume (a tick).
Advanced(s) ==
    IF isContinuationTick THEN [s EXCEPT !.given = @ + 1]
    ELSE [input |-> request.input, given |-> 1, more |-> FALSE]

\* A reply: the input it answers, its number, whether it says that there is more,
\* whether it has cache control, whether it is emitted raw, and the validator its
\* function was shown.
ReplyOf(s, seen) ==
    LET more == s.given < fn.replies[s.input]
    IN  [input |-> s.input, number |-> s.given, more |-> more,
         cache |-> fn.cache = "all" \/ (fn.cache = "first" /\ s.given = 1),
         raw   |-> fn.raw = "all" \/ (fn.raw = "last" /\ ~more),
         seen  |-> seen]

\* What the emit helpers accept; a raw reply does not pass through them.
emitAnnotated(reply) ==
    \/ reply.raw
    \/ (reply.more => fn.resumer) /\ ~(isContinuationTick /\ reply.cache)

\* What Exchange accepts of an emitted reply: it looks at the status only.
checkReplyStatus(reply) == reply.more => ~reply.raw

\* Mutant: the validators of an earlier input stay.
validators_Kept == IF request.validator # NoInput THEN request.validator ELSE params

\* The validators are reset on every turn and then read off the message.
validators == request.validator

\* Mutant: the token carries the position the stream began with.
GobEncode_Initial(s) == [s EXCEPT !.given = Start.given]

\* What the token carries: the live user state, and whether output is pending.
GobEncode(s) == s

Exchange ==
    LET s     == rehydrateTableInOut
        after == Advanced(s)
        reply == ReplyOf(after, validators)
        left  == [after EXCEPT !.more = reply.more /\ ~reply.raw]   \* tracker.more
        fails == \/ Refuses(s)
                 \/ ~emitAnnotated(reply)
                 \/ ~checkReplyStatus(reply)
                 \/ left.more /\ ~fn.state
    IN /\ request # <<>>
       /\ status = "open"
       /\ IF fails
            THEN /\ status' = "error"
                 /\ UNCHANGED <<server, token, params, pending, got>>
            ELSE /\ server' = IF transport = "http" THEN server ELSE left
                 /\ token' = IF transport = "http" THEN GobEncode(left) ELSE token
                 /\ params' = IF transport = "http" THEN NoInput ELSE validators
                 /\ got' = Append(got, reply)
                 /\ pending' = reply.more
                 /\ UNCHANGED status
       /\ request' = <<>>
       /\ UNCHANGED <<transport, fn, next, wrong, retries>>

\* Over HTTP the answer is lost: the client sends the same message and the same
\* token again.  The turn has run, and it runs again.
ExchangeUnheard ==
    /\ transport = "http"
    /\ request # <<>>
    /\ status = "open"
    /\ retries < MaxRetries
    /\ retries' = retries + 1
    /\ UNCHANGED <<transport, fn, server, token, params, next, pending, request, got, status, wrong>>

Next == SendInput \/ SendTick \/ SendWrong \/ CloseInput \/ Exchange \/ ExchangeUnheard

Spec == Init /\ [][Next]_vars

\* The worker answers, and a well-behaved client goes on.
FairSpec ==
    /\ Spec
    /\ WF_vars(Exchange)
    /\ WF_vars(SendInput \/ SendTick \/ CloseInput)

-----------------------------------------------------------------------------
(***************************************************************************)
(* Properties                                                              *)
(***************************************************************************)

\* All replies of a run without errors: those of input 1, then those of input 2,
\* and so on.
Reference ==
    FlattenSeq([i \in Inputs |-> [n \in 1..fn.replies[i] |-> <<i, n>>]])

\* On both kinds of transport, and however turns are repeated, the client gets
\* every input's replies in order, each once: what it has is always the beginning
\* of the reference output, and all of it when the stream ends without an error.
RepliesInOrder ==
    LET have == [k \in DOMAIN got |-> <<got[k].input, got[k].number>>]
    IN /\ IsPrefix(have, Reference)
       /\ status = "done" => have = Reference

\* Caching concerns an input and its first reply.  A function sees the validators
\* of the input it answers and no others: not those of an earlier input, and none
\* while it answers a tick.  And cache control that passes through the emit helpers
\* reaches the client on an input's first reply only; what a function puts on a later
\* reply raw does reach it (Exchange, applyTickValidators, emitAnnotated).
CachingPerInput ==
    \A k \in DOMAIN got :
      /\ got[k].seen # NoInput => got[k].seen = got[k].input /\ got[k].number = 1
      /\ got[k].cache /\ ~got[k].raw => got[k].number = 1

\* The client and the stream agree on whether output is pending, so that the tick
\* or input the client sends next is the one the stream expects.
PendingAgreed ==
    status = "open" /\ request = <<>> => (pending <=> rehydrateTableInOut.more)

Good == fn.resumer /\ fn.state /\ fn.raw # "all" /\ fn.cache # "all"

\* A function that implements Resume, has a state, says that there is more through the
\* emit helpers and leaves cache control to first replies is never refused: its stream
\* ends with the whole output unless the client breaks the protocol.
GoodStreamsFinish == Good ~> (status = "done" \/ wrong)
=============================================================================
