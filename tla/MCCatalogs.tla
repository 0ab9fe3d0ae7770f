------------------------------ MODULE MCCatalogs -----------------------------
(***************************************************************************)
(* The catalogs of a worker, for TLC: MemoryCatalog and the requests for   *)
(* its contents, WritableCatalog, Attaches and FunctionResolution.  A      *)
(* behaviour takes one.                                                    *)
(*                                                                         *)
(* The memory catalog has the main schema and one nested in it; statements *)
(* on two writable catalogs take turns.  A function name has one kind in   *)
(* all the catalogs of a process, with signatures of constants or of       *)
(* columns.                                                                *)
(***************************************************************************)
EXTENDS MemoryCatalog, TLC

CONSTANTS
    WritableCatalogs, Sessions, Serial, MaxRowId, MaxTables,
    Processes, Principals, Domains, Offsets, Lifetimes, Skew, MaxTime, MaxHeld, MaxRestarts,
    NoSchema, MaxRegistrations

ThePaths == {Main, Main \o <<"nested">>}

\* A versioned catalog with and without etags, and an unversioned one.
TheSettings == {<<FALSE, TRUE>>, <<FALSE, FALSE>>, <<TRUE, TRUE>>}

---------------------------------------------------------------------------
(* Deployments: the worker-wide options are required, or inherited by the alias. *)

Spec1(declared, required) == [declared |-> declared, required |-> required]

Gated == [own |-> Spec1({"o"}, {"o"}), info |-> Spec1({}, {}), sub |-> Spec1({"o", "q"}, {"q"})]
Inherited == [own |-> Spec1({"o"}, {}), sub |-> Spec1({"o"}, {"o"})]

TheDeployments ==
    {[http |-> TRUE, configured |-> TRUE, grants |-> TRUE, maxTTL |-> 0, options |-> Gated],
     [http |-> TRUE, configured |-> TRUE, grants |-> TRUE, maxTTL |-> 1, options |-> Inherited],
     [http |-> TRUE, configured |-> FALSE, grants |-> TRUE, maxTTL |-> 0, options |-> Gated],
     [http |-> FALSE, configured |-> FALSE, grants |-> FALSE, maxTTL |-> 0, options |-> Gated]}

---------------------------------------------------------------------------
(* Signatures and calls *)

Signature(const, columns, varargs) == [const |-> const, columns |-> columns, varargs |-> varargs]

OfConstants ==
    {Signature(<<"int64">>, <<>>, "no"), Signature(<<"int32">>, <<>>, "no"), Signature(<<"any">>, <<>>, "no"),
     Signature(<<"string", "int64">>, <<>>, "const")}
OfColumns ==
    {Signature(<<>>, <<"int64">>, "no"), Signature(<<>>, <<"int32">>, "no"), Signature(<<>>, <<"any">>, "column"),
     Signature(<<"string">>, <<"int64">>, "no")}

TypeLists == {<<>>, <<"string", "int32">>, <<"int64", "int32">>} \cup {<<t>> : t \in {"int32", "int64", "string"}}

TheKinds == {"scalar", "table", "inout", "buffering", "aggregate"}
TheSignatures == [k \in TheKinds |-> IF k \in {"table", "buffering"} THEN OfConstants ELSE OfColumns]
TheShapes ==
    [k \in TheKinds |->
        IF k \in {"table", "buffering"}
        THEN [positional : TypeLists, columns : {NoSchema}]
        ELSE [positional : {<<>>, <<"string">>}, columns : TypeLists]]

---------------------------------------------------------------------------
VARIABLES
    which,   \* the component of this behaviour
    schema, table, rows, born, pc, home, wSt,
    deployment, now, offset, started, states, sealed, transactions, tickets,
    kinds, functions, funcOrigins, prepared

W == INSTANCE WritableCatalog WITH Catalogs <- WritableCatalogs, st <- wSt
A == INSTANCE Attaches WITH Deployments <- TheDeployments, born <- started, attaches <- sealed
F == INSTANCE FunctionResolution WITH
         KindSets <- {{k} : k \in TheKinds}, Signatures <- TheSignatures, Shapes <- TheShapes

wVars == <<schema, table, rows, born, pc, home, wSt>>
aVars == <<deployment, now, offset, started, states, sealed, transactions, tickets>>
fVars == <<kinds, functions, funcOrigins, prepared>>

allVars == <<which, vars, wVars, aVars, fVars>>

ASSUME W!BoundsAssumption

\* The components that do not run stay in one state.
MCInit ==
    /\ which \in {"memory", "writable", "attaches", "functions"}
    /\ which # "functions" => kinds = {"scalar"}
    /\ which # "attaches" =>
           /\ deployment = [http |-> FALSE, configured |-> FALSE, grants |-> FALSE, maxTTL |-> 0, options |-> Gated]
           /\ offset = [p \in Processes |-> 0]
    /\ Init /\ W!Init /\ A!Init /\ F!Init
    /\ deployment.configured \/ offset = [p \in Processes |-> 0]   \* clocks matter to tickets
    /\ which # "memory" => unversioned /\ contentsEtag
    /\ which # "writable" => \A c \in WritableCatalogs : table[c] = W!NoTable

MCNext ==
    /\ UNCHANGED which
    /\ \/ which = "memory" /\ Next /\ UNCHANGED <<wVars, aVars, fVars>>
       \/ which = "writable" /\ W!Next /\ UNCHANGED <<vars, aVars, fVars>>
       \/ which = "attaches" /\ A!Next /\ UNCHANGED <<vars, wVars, fVars>>
       \/ which = "functions" /\ F!Next /\ UNCHANGED <<vars, wVars, aVars>>

MCSpec == MCInit /\ [][MCNext]_allVars

\* What the other modules promise, by the names it has there.
NotNullHolds == W!NotNullHolds
NothingOrphaned == W!NothingOrphaned
AttachesLast == A!AttachesLast
TicketRestores == A!TicketRestores
ResolvesAsListed == F!ResolvesAsListed

Symmetry == Permutations(Requests) \cup Permutations(Items) \cup Permutations(Processes)
=============================================================================
