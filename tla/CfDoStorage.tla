----------------------------- MODULE CfDoStorage -----------------------------
(***************************************************************************)
(* The Cloudflare Durable Object backend (storage/cfdo/storage.go): a      *)
(* client that posts each operation over HTTP, retries on transport errors *)
(* and 5xx answers, and marks every retry of one logical call with one     *)
(* attempt_id.  Scans and drains come back in pages; those of a drain      *)
(* share the attempt_id, those of a scan are read one by one.              *)
(*                                                                         *)
(* Requests are lost or arrive late, after the client has given up on      *)
(* them, and answers are lost.  The Durable Object is outside the          *)
(* repository: it is modelled from what the client relies on, an object    *)
(* that performs a destructive attempt once and replays its answer.        *)
(***************************************************************************)
EXTENDS FunctionStorage

CONSTANTS
    PostAttempts,  \* attempts per request
    Workloads      \* what the clients may call, and how many calls they make

ASSUME AttemptsAssumption == PostAttempts \in Nat \ {0}
ASSUME WorkloadsAssumption ==
    \A w \in Workloads : w.ops \in [Clients -> SUBSET AllOperations] /\ w.calls <= MaxCalls

VARIABLES
    workload,  \* the one of Workloads that runs
    wire,      \* requests on their way; a lost one stays there
    arrived,   \* the answers to the requests of running calls that arrived
    memo,      \* the Durable Object's answers by attempt_id
    try,       \* the number of the attempt each client is making
    afterKey,  \* the last key of the pages it has, 0 before the first
    rows,      \* the rows of these pages
    span       \* the rows present always, and ever, since a scan began

vars == <<workload, data, calls, answers, wire, arrived, memo, try, afterKey, rows, span>>

Paged == {"scan", "drain"}

PresentRows(d, ns) == {<<k, d.state[ns][k]>> : k \in {x \in StoreKeys : d.state[ns][x] # Nothing}}

Init ==
    /\ StorageInit
    /\ workload \in Workloads
    /\ wire = {}
    /\ arrived = <<>>
    /\ memo = <<>>
    /\ try = [c \in Clients |-> 0]
    /\ afterKey = [c \in Clients |-> 0]
    /\ rows = [c \in Clients |-> <<>>]
    /\ span = <<>>

\* Mutant: every attempt of a request has an attempt_id of its own.
newAttemptID_PerTry(i, t, k) == <<i, t>>

\* Mutant: every page of a drain is asked for with an attempt_id of its own.
newAttemptID_PerPage(i, t, k) == <<i, k>>

\* The attempt_id of a request for call i, attempt t, page after key k: it is
\* made once per logical call.
newAttemptID(i, t, k) == <<i, 0>>

Request(i, t, k) == [call |-> i, id |-> newAttemptID(i, t, k), try |-> t, afterKey |-> k]

\* The request client c is waiting on.
Current(c, i) == Request(i, try[c], afterKey[c])

Extended(f, x, y) == [z \in DOMAIN f \cup {x} |-> IF z = x THEN y ELSE f[z]]

Without(f, i) == [x \in {y \in DOMAIN f : y.call # i} |-> f[x]]

\* The caller enters a method of the storage.
Begin(c, op) ==
    /\ Call(c, op)
    /\ span' = Append(span, IF op.kind = "scan"
                              THEN [always |-> PresentRows(data, op.ns), ever |-> PresentRows(data, op.ns)]
                              ELSE [always |-> {}, ever |-> {}])
    /\ UNCHANGED <<wire, arrived, memo, try, afterKey, rows>>

\* One iteration of the retry loop of post.  The attempt before it failed: its
\* request or its answer was lost, it timed out, or the answer was a 5xx.
post(c, i) ==
    /\ i \in Running(c)
    /\ try[c] < PostAttempts
    /\ try' = [try EXCEPT ![c] = @ + 1]
    /\ wire' = wire \cup {Request(i, try[c] + 1, afterKey[c])}
    /\ arrived' = Without(arrived, i)
    /\ UNCHANGED <<data, calls, answers, memo, afterKey, rows, span>>

\* The first row after key k, and the key to go on from if there are more.
PageOf(all, k) ==
    LET later == SelectSeq(all, LAMBDA r : r[1] > k)
    IN [page |-> IF later = <<>> THEN <<>> ELSE <<Head(later)>>,
        next |-> IF Len(later) > 1 THEN Head(later)[1] ELSE 0]

(***************************************************************************)
(* A request arrives.  A destructive one whose attempt_id was seen is      *)
(* answered from the memo; any other takes effect now.  A drain removes    *)
(* all its rows with its first request and its pages are cut from them.    *)
(***************************************************************************)
Arrive(m) ==
    LET op      == calls[m.call].op
        reads   == op.kind \in ReadOnly
        known   == ~reads /\ m.id \in DOMAIN memo
        out     == IF known THEN Done(data, memo[m.id]) ELSE Outcome(op, m.call, data)
        answer  == IF op.kind \in Paged THEN PageOf(out.result, m.afterKey) ELSE out.result
        current == /\ calls[m.call].status = "running"
                   /\ m = Current(calls[m.call].client, m.call)
    IN /\ wire' = wire \ {m}
       /\ arrived' = IF current THEN Extended(arrived, m, answer) ELSE arrived
       /\ data' = out.data
       /\ memo' = IF reads THEN memo
                  ELSE Extended(memo, m.id, out.result)
       /\ calls' = IF known \/ (reads /\ ~current) THEN calls
                   ELSE [calls EXCEPT ![m.call].effect = TRUE, ![m.call].result = out.result]
       /\ span' = [i \in DOMAIN span |->
                     IF calls[i].op.kind # "scan" \/ calls[i].status # "running" THEN span[i]
                     ELSE [always |-> span[i].always \cap PresentRows(out.data, calls[i].op.ns),
                           ever   |-> span[i].ever \cup PresentRows(out.data, calls[i].op.ns)]]
       /\ UNCHANGED <<answers, try, afterKey, rows>>

Answered(c, i) == i \in Running(c) /\ Current(c, i) \in DOMAIN arrived

\* A page arrives and there are more: its rows are kept, the next one asked for.
statePaged(c, i) ==
    LET answer == arrived[Current(c, i)]
    IN /\ calls[i].op.kind \in Paged
       /\ Answered(c, i)
       /\ answer.next # 0
       /\ rows' = [rows EXCEPT ![c] = @ \o answer.page]
       /\ afterKey' = [afterKey EXCEPT ![c] = answer.next]
       /\ try' = [try EXCEPT ![c] = 0]
       /\ arrived' = Without(arrived, i)
       /\ UNCHANGED <<data, calls, answers, wire, memo, span>>

\* The locals of a method end with it.
Leave(c, i) ==
    /\ arrived' = Without(arrived, i)
    /\ try' = [try EXCEPT ![c] = 0]
    /\ afterKey' = [afterKey EXCEPT ![c] = 0]
    /\ rows' = [rows EXCEPT ![c] = <<>>]

\* The answer, or the last page, arrives and the method returns.
Reply(c, i) ==
    LET answer == arrived[Current(c, i)]
        paged  == calls[i].op.kind \in Paged
    IN /\ Answered(c, i)
       /\ paged => answer.next = 0
       /\ calls' = [calls EXCEPT ![i].status = "returned"]
       /\ answers' = [answers EXCEPT ![i] = IF paged THEN rows[c] \o answer.page ELSE answer]
       /\ Leave(c, i)
       /\ UNCHANGED <<data, wire, memo, span>>

\* The last attempt failed; its request may still be on its way.
Exhausted(c, i) ==
    /\ i \in Running(c)
    /\ try[c] = PostAttempts
    /\ calls' = [calls EXCEPT ![i].status = "failed"]
    /\ Leave(c, i)
    /\ UNCHANGED <<data, answers, wire, memo, span>>

\* A 4xx answer: the request was refused and the method returns at once.
Refused(c, i) ==
    /\ i \in Running(c)
    /\ Current(c, i) \in wire
    /\ wire' = wire \ {Current(c, i)}
    /\ calls' = [calls EXCEPT ![i].status = "failed"]
    /\ Leave(c, i)
    /\ UNCHANGED <<data, answers, memo, span>>

Next ==
    /\ \/ /\ Len(calls) < workload.calls
          /\ \E c \in Clients : \E op \in workload.ops[c] : Begin(c, op)
       \/ \E c \in Clients, i \in DOMAIN calls :
            post(c, i) \/ statePaged(c, i) \/ Reply(c, i) \/ Exhausted(c, i) \/ Refused(c, i)
       \/ \E m \in wire : Arrive(m)
    /\ UNCHANGED workload

Spec == Init /\ [][Next]_vars

-----------------------------------------------------------------------------
(***************************************************************************)
(* Properties                                                              *)
(***************************************************************************)

\* The backend implements the FunctionStorage contract: with lost, late and
\* repeated requests, every method still takes effect at most once, and what it
\* returns is the result of that one effect, a scan's answer excepted (ScanBetween
\* says what that may be).
ImplementsStorage == StorageSpec

\* A scan is read page by page while other workers write, so it need not be a
\* snapshot.  Still it misses no row that was there throughout, reports no row
\* that never was there while it ran, and reports every key once.
ScanBetween ==
    \A i \in DOMAIN calls :
      calls[i].op.kind = "scan" /\ calls[i].status = "returned" =>
        LET got == answers[i]
        IN /\ span[i].always \subseteq ToSet(got)
           /\ ToSet(got) \subseteq span[i].ever
           /\ \A j, k \in DOMAIN got : j < k => got[j][1] < got[k][1]

\* Work is handed out once: no two queue pops return the same item, whichever
\* workers made them and however often they were retried, and an item that was
\* popped is no longer queued.
ItemsHandedOutOnce ==
    LET popped == {i \in DOMAIN calls : calls[i].op.kind = "pop" /\ answers[i] # <<>>}
    IN /\ \A i, j \in popped : answers[i] = answers[j] => i = j
       /\ \A i \in popped : answers[i][1] \notin ToSet(data.queue)

\* A worker that learned the ordinal of its log entry learned the true one, and
\* no other entry has it: resuming a log after an ordinal skips exactly what was
\* consumed.
OrdinalsTrue ==
    \A i \in DOMAIN calls :
      calls[i].op.kind = "append" /\ calls[i].status = "returned" =>
        /\ \A j \in DOMAIN calls \ {i} :
             calls[j].op.kind = "append" => answers[j] # answers[i]
        /\ \A e \in ToSet(data.log) : e[1] = answers[i][1] <=> e[2] = i
=============================================================================
