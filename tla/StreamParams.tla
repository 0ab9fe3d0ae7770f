---------------------------- MODULE StreamParams ----------------------------
(***************************************************************************)
(* What a function is told, from bind to the last turn of its stream.      *)
(*                                                                         *)
(* protocol.go builds the ProcessParams of a scalar or table function from *)
(* the init request and hands them to NewState and to every Process call.  *)
(* Over HTTP the stream's state travels in a token between turns:  only an *)
(* InitRecipe survives, and rehydrate.go rebuilds the params from it on    *)
(* whichever process serves the next turn.  A request is the set of        *)
(* optional fields it fills in; a params value is a function from field    *)
(* names to what the user code reads there.                                *)
(***************************************************************************)
EXTENDS Naturals, FiniteSets

CONSTANTS
    Nil,        \* the Go nil: the field is not set
    Given,      \* the sets of optional request fields that are tried
    Carried,    \* the fields ParamsSurvive is about
    MaxTurns    \* bound: how many turns a stream takes

VARIABLES
    call,       \* the client's request: transport, shape, fields
    bound,      \* what bind answered: "none", "lookup", "schema", "refused"
    params,     \* the live ProcessParams of the serving process, or Nil
    recipe,     \* the InitRecipe inside the stream's token, or Nil
    first,      \* the params of the stream's first Process call, or Nil
    seen,       \* the params of the latest Process call, or Nil
    turns

vars == <<call, bound, params, recipe, first, seen, turns>>

\* Filled in by the client on the bind call embedded in every init.
BindFields ==
    {"InputSchema", "Settings", "Secrets", "AttachScope", "At", "CopyFrom", "CopyTo"}

\* Filled in by the client on the init call itself.
InitFields ==
    {"ProjectionIDs", "BindOpaqueData", "SubstreamID", "PushdownFilters",
     "JoinKeys", "OrderByHint", "TableSampleHint", "SplitPayloads"}

\* Sent with the first tick, or with the HTTP init request.
TickFields == {"IfNoneMatch", "IfModifiedSince"}

\* What a function can read in its ProcessParams.
ParamFields ==
    BindFields \cup InitFields \cup TickFields \cup
    {"FunctionName", "Args", "OutputSchema", "BindOutputSchema", "ExecutionID",
     "InitOpaqueData", "CurrentPushdownFilters", "Storage", "Auth"}

Calls ==
    [transport : {"stdio", "http"},
     shape     : {"scalar", "table"},       \* what the name resolves to
     drive     : {"scalar", "table", "table_in_out"},  \* how the client runs it
     pushdown  : BOOLEAN,                   \* Metadata().ProjectionPushdown
     scoped    : BOOLEAN,                   \* OnBind asks for scoped secrets
     argsOK    : BOOLEAN,                   \* the constraints on the arguments hold
     given     : Given]

Of(c, f) == IF f \in c.given THEN f ELSE Nil

-----------------------------------------------------------------------------
\* A catalog's attach bytes on the wire: uuid || bytes, sealed over HTTP.
OnWire(c) == IF c.transport = "http" THEN "sealed" ELSE "uuid||AttachScope"

\* The attach bytes the function reads: opened when there is a caller to open
\* them with, else as they came.
parseBindRequest(c, caller) ==
    [f \in BindFields |->
        IF f = "AttachScope" /\ f \in c.given /\ ~caller THEN OnWire(c) ELSE Of(c, f)]

coldAttachScope(raw) == IF raw = "uuid||AttachScope" THEN "AttachScope" ELSE raw

\* The output schema Process works with, once the projection is applied.
ProcessOutputSchema(c) ==
    IF "ProjectionIDs" \in c.given /\ c.pushdown THEN "projected" ELSE "full"

\* A bind: the shape and the argument constraints are checked before OnBind; a
\* function that wants scoped secrets has the client bind a second time.
handleBind ==
    /\ bound \in {"none", "lookup"}
    /\ bound' = IF ~call.argsOK \/ (call.shape = "table" /\ "InputSchema" \in call.given)
                THEN "refused"
                ELSE IF call.scoped /\ bound = "none" THEN "lookup" ELSE "schema"
    /\ UNCHANGED <<call, params, recipe, first, seen, turns>>

-----------------------------------------------------------------------------
\* The params of the init call; SplitPayloads, ids and storage come after.
processParams(c) ==
    [f \in ParamFields |->
        CASE f \in BindFields                       -> parseBindRequest(c, TRUE)[f]
          [] f \in InitFields \ {"SplitPayloads"}   -> Of(c, f)
          [] f = "OutputSchema"                     -> ProcessOutputSchema(c)
          [] f \in {"FunctionName", "Args", "BindOutputSchema"} -> f
          [] OTHER                                  -> Nil]

\* What the token keeps.
InitRecipe(c) ==
    [bindCall     |-> c,
     ids          |-> [f \in {"ProjectionIDs", "BindOpaqueData", "SubstreamID",
                              "PushdownFilters", "JoinKeys"} |-> Of(c, f)],
     initOpaque   |-> Nil,
     execution    |-> Nil,
     scopesOpened |-> TRUE,
     attachScope  |-> parseBindRequest(c, TRUE)["AttachScope"]]

\* A scalar has no init hook: bind's opaque data is what Process reads.
initScalar(p, r) ==
    <<[p EXCEPT !["ExecutionID"] = "execution",
                !["InitOpaqueData"] = p["BindOpaqueData"],
                !["Storage"] = <<"storage", "execution">>],
      [r EXCEPT !.execution = "execution", !.initOpaque = p["BindOpaqueData"]]>>

\* A table function: OnInit answers with the opaque data Process reads, and the
\* filters are parsed before NewState runs.
initTable(p, r) ==
    <<[p EXCEPT !["ExecutionID"] = "execution",
                !["InitOpaqueData"] = "opaque of OnInit",
                !["SplitPayloads"] = Of(call, "SplitPayloads"),
                !["Storage"] = <<"storage", "execution">>,
                !["CurrentPushdownFilters"] = p["PushdownFilters"]],
      [r EXCEPT !.execution = "execution", !.initOpaque = "opaque of OnInit"]>>

\* An init: shapes are checked again, then the stream's params and token exist.
handleInit ==
    /\ bound = "schema"
    /\ params = Nil /\ recipe = Nil /\ turns = 0
    /\ ~(call.shape = "table" /\ call.drive = "table_in_out")
    /\ LET opened == IF call.shape = "scalar"
                     THEN initScalar(processParams(call), InitRecipe(call))
                     ELSE initTable(processParams(call), InitRecipe(call))
       IN params' = opened[1] /\ recipe' = opened[2]
    /\ UNCHANGED <<call, bound, first, seen, turns>>

\* An init driven in the shape of another kind of function is refused.
RefuseShape ==
    /\ bound = "schema" /\ params = Nil /\ turns = 0
    /\ call.shape = "table" /\ call.drive = "table_in_out"
    /\ bound' = "refused"
    /\ UNCHANGED <<call, params, recipe, first, seen, turns>>

-----------------------------------------------------------------------------
\* The validators ride the first tick only.
applyTickValidators(p) ==
    [f \in ParamFields |-> IF f \in TickFields /\ turns = 0 THEN Of(call, f) ELSE p[f]]

\* The filters are seeded from the snapshot when no one parsed them yet.
applyTickFilters(p) ==
    IF p["CurrentPushdownFilters"] = Nil
    THEN [p EXCEPT !["CurrentPushdownFilters"] = p["PushdownFilters"]] ELSE p

\* One Process call of a table function's stream, or of a scalar's.
Produce(p) == applyTickValidators(applyTickFilters([p EXCEPT !["Auth"] = "caller"]))
Exchange(p) == [p EXCEPT !["Auth"] = "caller"]

Tick ==
    /\ params # Nil /\ turns < MaxTurns
    /\ params' = IF call.shape = "scalar" THEN Exchange(params) ELSE Produce(params)
    /\ seen' = params'
    /\ first' = IF first = Nil THEN seen' ELSE first
    /\ turns' = turns + 1
    /\ UNCHANGED <<call, bound, recipe>>

\* Over HTTP the process forgets the stream when its turn is over.
EndTurn ==
    /\ call.transport = "http" /\ params # Nil /\ turns > 0
    /\ params' = Nil
    /\ UNCHANGED <<call, bound, recipe, first, seen, turns>>

\* The params rebuilt from the token, around the attach bytes scope.
rebuilt(r, scope) ==
    LET bind == parseBindRequest(r.bindCall, FALSE)
    IN  [f \in ParamFields |->
            CASE f = "AttachScope"    -> scope
              [] f \in BindFields \ {"AttachScope"} -> bind[f]
              [] f \in DOMAIN r.ids   -> r.ids[f]
              [] f = "OutputSchema"   -> ProcessOutputSchema(r.bindCall)
              [] f \in {"FunctionName", "Args", "BindOutputSchema"} -> f
              [] f = "ExecutionID"    -> r.execution
              [] f = "InitOpaqueData" -> r.initOpaque
              [] f = "Storage"        -> <<"storage", r.execution>>
              [] OTHER                -> Nil]

\* Mutant: a continuation reads the attach bytes off the wire.
rebuildProcessParamsCold(r) ==
    rebuilt(r, coldAttachScope(parseBindRequest(r.bindCall, FALSE)["AttachScope"]))

rebuildProcessParams(r) ==
    rebuilt(r, IF r.scopesOpened THEN r.attachScope
               ELSE coldAttachScope(parseBindRequest(r.bindCall, FALSE)["AttachScope"]))

\* A later turn, on any process, begins from the token.
rehydrateState ==
    /\ params = Nil /\ recipe # Nil /\ turns < MaxTurns
    /\ params' = rebuildProcessParams(recipe)
    /\ UNCHANGED <<call, bound, recipe, first, seen, turns>>

-----------------------------------------------------------------------------
Init ==
    /\ call \in {c \in Calls : c.drive # "table_in_out" => c.drive = c.shape}
    /\ bound = "none"
    /\ params = Nil /\ recipe = Nil /\ first = Nil /\ seen = Nil
    /\ turns = 0

Next == handleBind \/ handleInit \/ RefuseShape \/ Tick \/ EndTurn \/ rehydrateState

Spec == Init /\ [][Next]_vars

\* A Process call on any turn reads in every carried field what the stream's
\* first Process call read there, whichever process serves it and whatever the
\* transport (rebuildProcessParams against handleInit and its init hooks).
ParamsSurvive == seen # Nil => \A f \in Carried : seen[f] = first[f]
=============================================================================
