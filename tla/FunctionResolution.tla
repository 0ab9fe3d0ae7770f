------------------------ MODULE FunctionResolution ------------------------
(***************************************************************************)
(* Which implementation a call reaches (worker.go: registration;           *)
(* catalog_route.go: importRegistry; catalog.go: place; overload.go).      *)
(*                                                                         *)
(* One worker process serves its own catalog, an alias of it and a         *)
(* sub-catalog, a worker of its own until its functions are imported.  All *)
(* of them may register implementations of one name, of which the module   *)
(* models the registrations: a registry per kind, and beside it the list   *)
(* of their homes.                                                         *)
(***************************************************************************)
EXTENDS Integers, Sequences, SequencesExt, FiniteSetsExt

CONSTANTS
    KindSets,          \* the kinds the name may be registered as, by deployment
    Signatures,        \* by kind, argument specs: [const, columns: sequences of types, varargs]
    Shapes,            \* by kind, calls: [positional, columns], either a sequence of types
    NoSchema,          \* the columns of a call without an input schema
    MaxRegistrations

Workers == {"own", "sub"}
Catalogs == {"own", "alias", "sub"}
Schemas == {"main", "data"}
Kinds == {"scalar", "table", "inout", "buffering", "aggregate"}

VARIABLES
    kinds,         \* the kinds of this deployment
    functions,     \* per worker and kind, the implementations in registration order
    funcOrigins,   \* the home recorded for each of them
    prepared       \* the sub-catalog has been imported and serving begins

vars == <<kinds, functions, funcOrigins, prepared>>

---------------------------------------------------------------------------
(* Registration *)

\* An empty field is filled in from the worker's own catalog and the default schema.
recordOrigin(w, o) ==
    [o EXCEPT !.catalog = IF @ = "" THEN w ELSE @, !.schema = IF @ = "" THEN "main" ELSE @]

originOf(w, k, i) == funcOrigins[w][k][i]

Registered(w) == UNION {ToSet(functions[w][k]) : k \in Kinds}

\* meant is the home the registration names to its author.
Register(w, k, signature, o, meant) ==
    /\ ~prepared
    /\ k \in kinds
    /\ Cardinality(Registered("own")) + Cardinality(Registered("sub")) < MaxRegistrations
    /\ functions' = [functions EXCEPT ![w][k] =
           Append(@, [id |-> Len(@) + 1, worker |-> w, kind |-> k, signature |-> signature, meant |-> meant])]
    /\ funcOrigins' = [funcOrigins EXCEPT ![w][k] = Append(@, recordOrigin(w, o))]
    /\ UNCHANGED <<kinds, prepared>>

Home(c, s, listed) == [catalog |-> c, schema |-> s, listed |-> listed]

RegisterInSchema(w, k, s, signature) ==
    Register(w, k, signature, [catalog |-> "", schema |-> s, unlisted |-> FALSE], Home(w, s, TRUE))

RegisterForCatalog(k, signature) ==
    /\ k # "aggregate"
    /\ Register("own", k, signature, [catalog |-> "alias", schema |-> "", unlisted |-> FALSE],
                Home("alias", "main", TRUE))

RegisterTableUnlisted(w, signature) ==
    Register(w, "table", signature, [catalog |-> "", schema |-> "", unlisted |-> TRUE],
             Home(w, "main", FALSE))

\* The function behind a catalog table, unless some table function has its name.
RegisterCatalogTable(w, signature) ==
    /\ functions[w]["table"] = <<>>
    /\ Register(w, "table", signature, [catalog |-> "", schema |-> "", unlisted |-> FALSE],
                Home(w, "main", TRUE))

importRegistry_InMain(k) ==
    [i \in DOMAIN funcOrigins["sub"][k] |-> [funcOrigins["sub"][k][i] EXCEPT !.catalog = "sub", !.schema = "main"]]

\* The imported registrations of one kind, in the sub-catalog's name.
importRegistry(k) ==
    [i \in DOMAIN funcOrigins["sub"][k] |-> [funcOrigins["sub"][k][i] EXCEPT !.catalog = "sub"]]

prepareRoutes ==
    /\ ~prepared
    /\ functions' = [functions EXCEPT !["own"] = [k \in Kinds |-> @[k] \o functions["sub"][k]]]
    /\ funcOrigins' = [funcOrigins EXCEPT !["own"] = [k \in Kinds |-> @[k] \o importRegistry(k)]]
    /\ prepared' = TRUE
    /\ UNCHANGED kinds

Init ==
    /\ kinds \in KindSets
    /\ functions = [w \in Workers |-> [k \in Kinds |-> <<>>]]
    /\ funcOrigins = functions
    /\ prepared = FALSE

Next ==
    \/ \E k \in kinds : \E g \in Signatures[k] :
           \/ \E w \in Workers, s \in Schemas : RegisterInSchema(w, k, s, g)
           \/ RegisterForCatalog(k, g)
    \/ \E w \in Workers, g \in Signatures["table"] : RegisterTableUnlisted(w, g)
    \/ \E w \in Workers, g \in Signatures["table"] : RegisterCatalogTable(w, g)
    \/ prepareRoutes

Spec == Init /\ [][Next]_vars

---------------------------------------------------------------------------
(* Resolution *)

\* Every registration of one kind with its home.
collect(k) ==
    [i \in DOMAIN functions["own"][k] |-> [fn |-> functions["own"][k][i], origin |-> originOf("own", k, i)]]

\* The registries to look in, by the type of the call; then all but the aggregates.
RegistryOrder(type) ==
    (CASE type = "SCALAR" -> <<"scalar">>
       [] type = "TABLE" -> <<"table", "inout", "buffering">>
       [] type = "AGGREGATE" -> <<"inout">>
       [] type = "TABLE_BUFFERING" -> <<"buffering">>)
    \o <<"scalar", "table", "inout", "buffering">>

\* The registrations in the first registry that has any.
candidatesFor(type) ==
    FoldLeft(LAMBDA out, k : IF out # <<>> THEN out ELSE collect(k), <<>>, RegistryOrder(type))

\* What the caller could mean; an empty catalog or schema is not named.
scopeToHome(cands, schema, catalog) ==
    LET inCatalog == SelectSeq(cands, LAMBDA c : catalog \in {"", c.origin.catalog})
    IN  SelectSeq(inCatalog, LAMBDA c : schema \in {"", c.origin.schema})

crossSchemaAmbiguity(cands, schema) ==
    schema = "" /\ \E c, d \in ToSet(cands) : c.origin.schema # d.origin.schema

typesInSameFamily(a, b) == {a, b} \subseteq {"int32", "int64"} \/ a = b

Rejected == -1

scoreType(actual, expected) ==
    CASE expected = "any" -> 0
      [] expected # "any" /\ actual = expected -> 2
      [] expected # "any" /\ actual # expected /\ typesInSameFamily(actual, expected) -> 1
      [] OTHER -> Rejected

\* The scores of the actual types, the last spec standing for all the rest when it is varargs.
scores(specs, varargs, actual) ==
    [i \in 1 .. IF varargs THEN Len(actual) ELSE Min({Len(specs), Len(actual)}) |->
        scoreType(actual[i], specs[Min({i, Len(specs)})])]

\* Whether the numbers of arguments fit the specs.
countsFit(g, shape) ==
    CASE g.varargs = "const" -> Len(shape.positional) >= Len(g.const) - 1
      [] g.varargs = "column" ->
             /\ Len(shape.positional) >= Len(g.const)
             /\ shape.columns # NoSchema => Len(shape.columns) >= Len(g.columns) - 1
      [] g.varargs = "no" ->
             /\ Len(shape.positional) = Len(g.const)
             /\ shape.columns # NoSchema /\ g.columns # <<>> => Len(shape.columns) = Len(g.columns)

\* The score of a candidate, or Rejected.
score(g, shape) ==
    LET all == scores(g.const, g.varargs = "const", shape.positional)
               \o (IF shape.columns = NoSchema THEN <<>>
                   ELSE scores(g.columns, g.varargs = "column", shape.columns))
    IN  IF ~countsFit(g, shape) \/ Rejected \in ToSet(all)
        THEN Rejected
        ELSE FoldLeft(LAMBDA sum, s : sum + s, 0, all)

Nothing == [none |-> TRUE]

\* The first of the best.
resolveOverload(cands, shape) ==
    LET matches == SelectSeq(cands, LAMBDA c : score(c.fn.signature, shape) # Rejected)
    IN  FoldLeft(LAMBDA best, c :
                     IF best = Nothing \/ score(c.fn.signature, shape) > score(best.signature, shape)
                     THEN c.fn ELSE best,
                 Nothing, matches)

resolveFunction(type, schema, catalog, shape) ==
    LET cands == scopeToHome(candidatesFor(type), schema, catalog)
    IN  CASE cands = <<>> -> Nothing
          [] Len(cands) = 1 -> Head(cands).fn
          [] OTHER -> IF crossSchemaAmbiguity(cands, schema) THEN Nothing
                      ELSE resolveOverload(cands, shape)

resolveAggregate(schema, catalog) ==
    LET cands == scopeToHome(collect("aggregate"), schema, catalog)
    IN  IF cands = <<>> \/ crossSchemaAmbiguity(cands, schema) THEN Nothing ELSE Head(cands).fn

---------------------------------------------------------------------------
(* The listings of the catalogs *)

\* The type a catalog lists a function with.
ListedType(k) ==
    CASE k = "scalar" -> "SCALAR"
      [] k \in {"table", "inout"} -> "TABLE"
      [] k = "buffering" -> "TABLE_BUFFERING"
      [] k = "aggregate" -> "AGGREGATE"

\* A catalog lists what it is the home of; what is imported its own worker lists.
place(w, k, i, catalog) ==
    /\ i \in DOMAIN functions[w][k]
    /\ originOf(w, k, i).catalog = catalog

functionListing(catalog) ==
    LET w == IF catalog = "sub" THEN "sub" ELSE "own"
    IN  {[fn |-> functions[w][k][i], schema |-> originOf(w, k, i).schema] :
            <<k, i>> \in {e \in Kinds \X (1 .. MaxRegistrations) :
                place(w, e[1], e[2], catalog) /\ ~originOf(w, e[1], e[2]).unlisted}}

---------------------------------------------------------------------------
(* What the signatures mean, to compare with *)

\* A list of arguments has the number and the types its specs ask for.
Fits(specs, varargs, actual) ==
    /\ IF varargs THEN Len(actual) >= Len(specs) - 1 ELSE Len(actual) = Len(specs)
    /\ \A i \in DOMAIN actual :
           \E t \in {specs[Min({i, Len(specs)})]} : t = "any" \/ typesInSameFamily(actual[i], t)

Accepts(g, shape) ==
    /\ Fits(g.const, g.varargs = "const", shape.positional)
    /\ shape.columns # NoSchema => Fits(g.columns, g.varargs = "column", shape.columns)

\* The arguments that have exactly the type asked for, and those asked for by a type at all.
Exact(specs, actual) == {i \in DOMAIN actual : specs[Min({i, Len(specs)})] = actual[i]}
Typed(specs, actual) == {i \in DOMAIN actual : specs[Min({i, Len(specs)})] # "any"}

Closeness(g, shape) ==
    LET columns == IF shape.columns = NoSchema THEN <<>> ELSE shape.columns
    IN  Cardinality(Exact(g.const, shape.positional)) + Cardinality(Typed(g.const, shape.positional))
        + Cardinality(Exact(g.columns, columns)) + Cardinality(Typed(g.columns, columns))

\* The catalogs of one process list every function exactly where its author registered
\* it (place), and a call of a listed function through that catalog, with arguments it
\* accepts, runs an implementation of the same catalog and schema (scopeToHome), the
\* first of those that match the arguments best (resolveOverload); a call that names no
\* schema is refused when the catalog has the name in two (crossSchemaAmbiguity).
ResolvesAsListed ==
    prepared =>
        \A catalog \in Catalogs :
            LET there == {fn \in Registered("own") : fn.meant.catalog = catalog}
                answer(k, schema, shape) ==
                    IF k = "aggregate" THEN resolveAggregate(schema, catalog)
                    ELSE resolveFunction(ListedType(k), schema, catalog, shape)
            IN  /\ functionListing(catalog) =
                       {[fn |-> fn, schema |-> fn.meant.schema] : fn \in {f \in there : f.meant.listed}}
                /\ \A fn \in there : \A shape \in {a \in Shapes[fn.kind] : Accepts(fn.signature, a)} :
                       LET got == answer(fn.kind, fn.meant.schema, shape)
                       IN  /\ got \in there
                           /\ got.meant.schema = fn.meant.schema
                           /\ fn.kind # "aggregate" =>
                                  /\ Accepts(got.signature, shape)
                                  /\ Closeness(got.signature, shape) >= Closeness(fn.signature, shape)
                                  /\ Closeness(got.signature, shape) = Closeness(fn.signature, shape)
                                         => got.id <= fn.id
                           /\ answer(fn.kind, "", shape) =
                                  IF \E f \in there : f.meant.schema # fn.meant.schema THEN Nothing ELSE got
===========================================================================
