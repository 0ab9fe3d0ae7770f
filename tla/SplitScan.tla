------------------------------ MODULE SplitScan ------------------------------
(***************************************************************************)
(* A scan that is planned and then read in splits (splits.go,              *)
(* split_token.go, handlePlan and the split half of handleInit and         *)
(* initTable in protocol.go).  The client asks for the plan page by page,  *)
(* its readers claim the splits in ascending order, one or a few at a      *)
(* time, and each init redeems the tokens of its claim.  A claim may be    *)
(* redeemed again when its attempt was lost, and its rows count only when  *)
(* its stream has finished.                                                *)
(*                                                                         *)
(* The client is not part of the repository: it is modelled as far as the  *)
(* contract of PlanRequestWire and TableFunctionWithPlan describes it.     *)
(***************************************************************************)
EXTENDS SplitFunctions

CONSTANTS
    Planned,      \* the functions scanned: SplitFns, and "sequence", which plans nothing
    Attaches,     \* the catalog of the scan: "own" is frozen, "memory" takes DDL
    RowCounts,    \* rows of a scan
    MaxSplits,
    MaxGroup,     \* splits a reader claims at a time
    MaxPages,     \* the page cap of the client
    MaxLosses,    \* attempts that are lost
    MaxVersion,   \* bounds the DDL on the memory catalog
    Readers

ASSUME PlannedAssumption == Planned \subseteq SplitFns \cup {"sequence"}
ASSUME AttachAssumption == Attaches \subseteq {"own", "memory"}

VARIABLES
    query,     \* the bind of the scan, its arguments and the worker that serves it
    version,   \* what the catalog_version RPC answers for the attach
    planned,   \* the plan so far: cursors to follow, pages seen, tokens
    claimed,   \* how many splits have been claimed
    readers,   \* each reader's claim and stream
    rows,      \* the rows of the claims whose stream has finished
    losses,
    outcome    \* "planning", "scanning", "done", or how the scan failed

vars == <<query, version, planned, claimed, readers, rows, losses, outcome>>

Queries ==
    [fn : Planned, attach : Attaches, n : RowCounts, k : 0..MaxSplits,
     failAt : {-1, 1}, failInInit : BOOLEAN, filters : {0, 1}, projection : {0},
     keyed : BOOLEAN,        \* the worker holds a signing key (HTTP)
     splits : BOOLEAN,       \* the client plans (vgi_split_scans is on)
     sameBind : BOOLEAN,     \* init and plan carry the same bind
     sameCaller : BOOLEAN]   \* and come from the same principal

\* The configurations that differ in something the function of the scan looks at.
Relevant(q) ==
    /\ q.fn # "split_fail_at" => q.failAt = -1 /\ ~q.failInInit
    /\ q.failAt = -1 => ~q.failInInit
    /\ q.fn # "split_echo_filters" => q.filters = 0
    /\ q.fn = "split_echo_filters" => q.n = 0 /\ q.k > 0
    /\ q.fn = "split_partitioned" => q.k = 0
    /\ q.n > Stride * MaxBatch => q.fn = "split_batch_index" /\ q.k > 0 /\ ~q.keyed
    /\ ~(q.splits /\ q.sameBind /\ q.sameCaller) => q.fn \in {"split_sequence", "sequence"}
    /\ ~q.splits => q.sameBind /\ q.sameCaller
    /\ ~q.sameCaller => q.keyed
    /\ q.attach = "memory" => q.fn = "split_sequence" /\ ~q.keyed
    /\ q.keyed => q.fn \in {"split_sequence", "split_batch_index", "split_fail_at"}

NoReader == [status |-> "idle", claim |-> <<>>, state |-> Fail, got |-> <<>>, last |-> NoIndex]

\* splitLiveCatalogVersion: the version of the worker's own catalog, whatever the attach.
splitLiveCatalogVersion == 1

Init ==
    /\ query \in {q \in Queries : Relevant(q)}
    /\ version = 1
    /\ planned = [cursors |-> {0}, pages |-> 0, tokens |-> <<>>]
    /\ claimed = 0
    /\ readers = [r \in Readers |-> NoReader]
    /\ rows = <<>>
    /\ losses = 0
    /\ outcome = IF query.splits THEN "planning" ELSE "scanning"

-----------------------------------------------------------------------------
(***************************************************************************)
(* Tokens.  A bind is told apart by its fingerprint, a caller by the       *)
(* associated data of the seal.                                            *)
(***************************************************************************)
NoToken == [sealed |-> FALSE, fingerprint |-> "none", anchor |-> 0, caller |-> "none",
            payload |-> <<>>, reported |-> 0]

BuildSplitToken(payload, fingerprint, anchor, keyed, caller) ==
    [sealed |-> keyed, fingerprint |-> fingerprint, anchor |-> anchor,
     caller |-> IF keyed THEN caller ELSE "none", payload |-> payload, reported |-> version]

stampSplitTokens(payloads, catalogVersion) ==
    [i \in DOMAIN payloads |->
       BuildSplitToken(payloads[i], "bind", catalogVersion, query.keyed, "planner")]

\* Why a token is refused, in the order of the checks; "" opens it.
OpenSplitToken(token, keyed, caller, expectedFingerprint, currentAnchor) ==
    CASE token = NoToken -> "SPLIT_TOKEN_INVALID"
      [] keyed # token.sealed -> "SPLIT_TOKEN_INVALID"
      [] token.fingerprint # expectedFingerprint -> "SPLIT_TOKEN_INVALID"
      [] token.anchor # currentAnchor -> "SPLIT_SNAPSHOT_EXPIRED"
      [] token.sealed /\ token.caller # caller -> "SPLIT_TOKEN_INVALID"
      [] OTHER -> ""

\* All tokens are opened before any payload is used: the first refusal is the answer.
openSplitTokens(tokens) ==
    LET verdict == [i \in DOMAIN tokens |->
                      OpenSplitToken(tokens[i], query.keyed,
                                     IF query.sameCaller THEN "planner" ELSE "other",
                                     IF query.sameBind THEN "bind" ELSE "rebind",
                                     splitLiveCatalogVersion)]
        refused == {i \in DOMAIN tokens : verdict[i] # ""}
    IN  IF refused = {} THEN "" ELSE verdict[Min(refused)]

-----------------------------------------------------------------------------
(***************************************************************************)
(* The plan RPC, one page.  A function that does not plan gets one split   *)
(* without a token.                                                        *)
(***************************************************************************)
splitPlannerFor(fn) == fn \in SplitFns

handlePlan(cursor) ==
    LET result == Plan(query.fn, query, cursor)
        planVersion == IF result.version = 0 THEN splitLiveCatalogVersion ELSE result.version
    IN  IF ~splitPlannerFor(query.fn) THEN [tokens |-> <<NoToken>>, next |-> {}]
        ELSE [tokens |-> stampSplitTokens(result.payloads, planVersion), next |-> result.next]

PlanPage ==
    /\ outcome = "planning"
    /\ planned.pages < MaxPages
    /\ \E cursor \in planned.cursors :
         LET page == handlePlan(cursor)
             rest == (planned.cursors \ {cursor}) \cup page.next
         IN  /\ planned' = [cursors |-> rest, pages |-> planned.pages + 1,
                            tokens |-> planned.tokens \o page.tokens]
             /\ outcome' = IF rest = {} THEN "scanning" ELSE "planning"
    /\ UNCHANGED <<query, version, claimed, readers, rows, losses>>

\* A plan that does not end is an error of the query, never a shorter scan.
PageCap ==
    /\ outcome = "planning"
    /\ planned.pages = MaxPages
    /\ outcome' = "capped"
    /\ UNCHANGED <<query, version, planned, claimed, readers, rows, losses>>

-----------------------------------------------------------------------------
(***************************************************************************)
(* Readers.                                                                *)
(***************************************************************************)
Opened(r, claim, payloads) ==
    readers' = [readers EXCEPT ![r].status = "open", ![r].claim = claim, ![r].got = <<>>,
                               ![r].state = NewState(query.fn, payloads)]

\* What init answers for a claim: the refusal of a token, an error of Redeem or of
\* NewState, or a stream.
initSplits(r, claim) ==
    LET tokens == [i \in DOMAIN claim |-> planned.tokens[claim[i]]]
        payloads == [i \in DOMAIN claim |-> tokens[i].payload]
        refusal == openSplitTokens(tokens)
        failed == ~Redeem(query.fn, query, payloads) \/ ~NewState(query.fn, payloads).ok
    IN  \/ /\ refusal # ""
           /\ outcome' = refusal
           /\ UNCHANGED readers
        \/ /\ refusal = "" /\ failed
           /\ outcome' = "error"
           /\ UNCHANGED readers
        \/ /\ refusal = "" /\ ~failed
           /\ Opened(r, claim, payloads)
           /\ UNCHANGED outcome

\* The next splits in the plan's order, for a function that plans.
Claim(r) ==
    /\ outcome = "scanning"
    /\ query.splits /\ splitPlannerFor(query.fn)
    /\ readers[r].status = "idle"
    /\ \E count \in 1..MaxGroup :
         /\ claimed + count <= Len(planned.tokens)
         /\ initSplits(r, [i \in 1..count |-> claimed + i])
         /\ claimed' = claimed + count
    /\ UNCHANGED <<query, version, planned, rows, losses>>

\* An init without tokens: the whole scan of `sequence', an error of a split-only function.
initWhole(r) ==
    /\ outcome = "scanning"
    /\ ~query.splits \/ ~splitPlannerFor(query.fn)
    /\ readers[r].status = "idle" /\ claimed = 0
    /\ IF splitPlannerFor(query.fn)
       THEN outcome' = "error" /\ UNCHANGED readers
       ELSE Opened(r, <<1>>, <<<<0, query.n>>>>) /\ UNCHANGED outcome
    /\ claimed' = 1
    /\ UNCHANGED <<query, version, planned, rows, losses>>

\* One tick of a reader's stream.
Produce(r) ==
    /\ outcome = "scanning"
    /\ readers[r].status = "open"
    /\ LET step == Process(query.fn, query, readers[r].state)
       IN  \/ /\ step.kind = "batch"
              /\ readers' = [readers EXCEPT ![r].state = step.state, ![r].got = @ \o step.rows,
                                            ![r].last = IF step.index = NoIndex THEN @ ELSE step.index]
              /\ UNCHANGED <<rows, outcome>>
           \/ /\ step.kind = "finish"
              /\ readers' = [readers EXCEPT ![r] = [NoReader EXCEPT !.last = readers[r].last]]
              /\ rows' = rows \o readers[r].got
              /\ UNCHANGED outcome
           \/ /\ step.kind = "error"
              /\ outcome' = "error"
              /\ UNCHANGED <<readers, rows>>
    /\ UNCHANGED <<query, version, planned, claimed, losses>>

\* An attempt is lost with its rows; the claim waits to be redeemed again, by a reader
\* whose batch indices start anew.
Lose(r) ==
    /\ outcome = "scanning"
    /\ readers[r].status = "open"
    /\ losses < MaxLosses
    /\ losses' = losses + 1
    /\ readers' = [readers EXCEPT ![r] = [NoReader EXCEPT !.status = "lost", !.claim = readers[r].claim]]
    /\ UNCHANGED <<query, version, planned, claimed, rows, outcome>>

RedeemAgain(r) ==
    /\ outcome = "scanning"
    /\ readers[r].status = "lost"
    /\ IF splitPlannerFor(query.fn)
       THEN initSplits(r, readers[r].claim)
       ELSE Opened(r, <<1>>, <<<<0, query.n>>>>) /\ UNCHANGED outcome
    /\ UNCHANGED <<query, version, planned, claimed, rows, losses>>

\* An HTTP turn that another process serves: the state comes back from the token.  A
\* process that cannot decode it asks NewState for a fresh one, and the recipe has no
\* payloads to give it.
Rehydrate(r) ==
    /\ outcome = "scanning"
    /\ query.keyed
    /\ readers[r].status = "open"
    /\ splitPlannerFor(query.fn)
    /\ losses < MaxLosses
    /\ ~NewState(query.fn, NoPayloads).ok
    /\ outcome' = "error"
    /\ UNCHANGED <<query, version, planned, claimed, readers, rows, losses>>

Complete ==
    /\ outcome = "scanning"
    /\ \A r \in Readers : readers[r].status = "idle"
    /\ claimed = IF query.splits /\ splitPlannerFor(query.fn) THEN Len(planned.tokens) ELSE 1
    /\ outcome' = "done"
    /\ UNCHANGED <<query, version, planned, claimed, readers, rows, losses>>

\* DDL on a memory catalog moves the version its attach reports.
DDL ==
    /\ query.attach = "memory"
    /\ outcome \in {"planning", "scanning"}
    /\ version < MaxVersion
    /\ version' = version + 1
    /\ UNCHANGED <<query, planned, claimed, readers, rows, losses, outcome>>

Over == outcome \notin {"planning", "scanning"} /\ UNCHANGED vars

Next ==
    \/ PlanPage \/ PageCap \/ Complete \/ DDL \/ Over
    \/ \E r \in Readers : Claim(r) \/ initWhole(r) \/ Produce(r) \/ Lose(r) \/ RedeemAgain(r) \/ Rehydrate(r)

\* The engine goes on planning and reading until it has an answer.
Engine ==
    \/ PlanPage \/ PageCap \/ Complete
    \/ \E r \in Readers : Claim(r) \/ initWhole(r) \/ Produce(r) \/ RedeemAgain(r)

Fairness == WF_vars(Engine)

Spec == Init /\ [][Next]_vars /\ Fairness
-----------------------------------------------------------------------------
(***************************************************************************)
(* Properties.                                                             *)
(***************************************************************************)
\* The rows the scan stands for.
ExpectedRows ==
    CASE query.fn = "split_zero" -> {}
      [] query.fn = "split_echo_filters" ->
           {<<i, query.filters, query.projection>> : i \in 0..(query.k - 1)}
      [] query.fn = "split_partitioned" ->
           {<<c, c * 100 + i>> : c \in 0..(Countries - 1), i \in 1..query.n}
      [] OTHER ->
           IF query.k = 0 /\ query.fn \notin {"sequence", "split_many"} THEN {} ELSE 0..(query.n - 1)

\* However the plan is paged, the splits are claimed and attempts are lost and redeemed
\* again (splitRanges, Plan, Redeem, NewState, Process), no row is ever delivered twice,
\* and a scan that reports success delivered every row.
ScanExact ==
    /\ Len(rows) = Cardinality(ToSet(rows))
    /\ ToSet(rows) \subseteq ExpectedRows
    /\ outcome = "done" => ToSet(rows) = ExpectedRows

\* No split has more batches than its stride has indices.
WithinStride ==
    \A i \in DOMAIN planned.tokens :
      LET split == decode(query.fn, planned.tokens[i].payload)
      IN  split.hi - split.lo <= Stride * MaxBatch

\* The batch indices one reader sees only rise, across the splits it claims one after
\* another, as long as every split keeps to its stride, which nothing enforces
\* (encodeSplitOrdinal, Process).
BatchIndexRises ==
    [][query.fn = "split_batch_index" /\ WithinStride =>
         \A r \in Readers :
           readers[r].last # NoIndex /\ Len(readers'[r].got) > Len(readers[r].got)
             => readers'[r].last > readers[r].last]_vars

\* No plan, page or empty split keeps a scan from its end: it succeeds or says why not
\* (handlePlan, openSplitTokens, Process).
ScanEnds == <>(outcome \notin {"planning", "scanning"})

=============================================================================
