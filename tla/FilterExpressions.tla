-------------------------- MODULE FilterExpressions --------------------------
(***************************************************************************)
(* Pushed-down filter expressions (vgi/filter_v2.go, filter_pushdown.go,   *)
(* filter_helpers.go, filter_helpers_typed.go): how a predicate is         *)
(* validated against the bound schema, rendered and evaluated over a       *)
(* batch, shown to a function as a tree of Filters, and mined for bounds   *)
(* and discrete values.                                                    *)
(*                                                                         *)
(* Every value is a small integer or Null; its type says what it stands    *)
(* for (a boolean is 0 or 1, a string is ordered as its number, a struct   *)
(* is the value of its only field).                                        *)
(***************************************************************************)
EXTENDS Integers, SequencesExt

CONSTANTS
    Null,
    Schema,      \* the unprojected bind output schema: a sequence of [name, type]
    JoinKeys,    \* the batches of join keys: sequences of columns [name, type, values]
    MaxDepth,    \* the depth limit of an expression (64)
    Spatial      \* whether the function advertises intersects_extent

Refused == "refused"
Supported == {"int64", "int16", "string", "bool", "struct"}   \* duckDBTypeFor
Rendered == {"int64", "string", "bool"}                       \* renderArrayValueField
Floats == {"int64", "int16"}                                  \* scalarToFloat64

-----------------------------------------------------------------------------
(***************************************************************************)
(* Validation.                                                             *)
(***************************************************************************)
compatibleV2Types(left, right) == left # Refused /\ left = right
numericV2Type(type) == type \in {"int64", "int16", "uint64"}
contextualV2Type(type) == type \in {"string", "timestamp"}

Operands(e) ==
    {e[f] : f \in {"expression", "left", "right"} \cap DOMAIN e}
      \cup UNION {ToSet(e[f]) : f \in {"children", "arguments"} \cap DOMAIN e}

\* The type of an expression, or Refused; type gives those of its operands.
When(test, type) == IF test THEN type ELSE Refused

parseV2Reference(e, type) ==
    CASE e.node = "column_ref" ->
           When(e.index \in DOMAIN Schema /\ Schema[e.index].name = e.name, Schema[e.index].type)
      [] e.node = "field_ref" -> When(type[e.expression] = "struct", "int64")
      [] e.node = "literal" -> e.type

\* The list of an IN: a literal one, or a column of join keys found by its position, which
\* must have the name the filter gives it.
parseV2Set(set) ==
    IF set.kind = "literal" THEN set
    ELSE IF /\ set.batch \in DOMAIN JoinKeys
            /\ set.column \in DOMAIN JoinKeys[set.batch]
            /\ JoinKeys[set.batch][set.column].name = set.name
         THEN JoinKeys[set.batch][set.column]
         ELSE [type |-> Refused, values |-> <<>>]

parseV2Operator(e, type) ==
    CASE e.node = "comparison" -> When(compatibleV2Types(type[e.left], type[e.right]), "bool")
      [] e.node = "arithmetic" ->
           When(/\ numericV2Type(type[e.left]) /\ type[e.left] = type[e.right]
                /\ e.op \notin {"divide", "modulo"}, type[e.left])
      [] e.node \in {"and", "or"} ->
           When(Len(e.children) >= 2 /\ \A i \in DOMAIN e.children : type[e.children[i]] = "bool", "bool")
      [] e.node = "not" -> When(type[e.expression] = "bool", "bool")
      [] e.node = "negate" -> When(numericV2Type(type[e.expression]), type[e.expression])
      [] e.node = "is_null" -> When(type[e.expression] # Refused, "bool")
      [] e.node = "in" -> When(compatibleV2Types(type[e.expression], parseV2Set(e.set).type), "bool")

parseV2Call(e, type, root) ==
    CASE e.node = "cast" ->
           When(/\ type[e.expression] # Refused
                /\ ~(contextualV2Type(type[e.expression]) /\ contextualV2Type(e.type)), e.type)
      [] e.node = "call" ->
           When(/\ Len(e.arguments) = 2
                /\ \A i \in 1..2 : type[e.arguments[i]] # Refused
                /\ IF e.op = "intersects_extent" THEN Spatial
                   ELSE \A i \in 1..2 : type[e.arguments[i]] = "string", "bool")
      [] e.node = "runtime_filter" -> When(root /\ type[e.expression] # Refused, "bool")

RECURSIVE parseV2Expr(_, _)
parseV2Expr(e, depth) ==
    LET type == [x \in Operands(e) |-> parseV2Expr(x, depth + 1)]
    IN  CASE depth > MaxDepth -> Refused
          [] e.node \in {"column_ref", "field_ref", "literal"} -> parseV2Reference(e, type)
          [] e.node \in {"cast", "call", "runtime_filter"} -> parseV2Call(e, type, depth = 1)
          [] OTHER -> parseV2Operator(e, type)

\* A predicate must be boolean; what only the engine's runtime can decide is advisory.
parseV2Predicate(p) ==
    /\ parseV2Expr(p.expr, 1) = "bool"
    /\ p.expr.node = "runtime_filter" => p.mode = "advisory"

-----------------------------------------------------------------------------
(***************************************************************************)
(* What an expression means: SQL's three-valued logic.                     *)
(***************************************************************************)
Truth(test) == IF test THEN 1 ELSE 0
and_kleene(values) == IF 0 \in values THEN 0 ELSE IF Null \in values THEN Null ELSE 1
or_kleene(values) == IF 1 \in values THEN 1 ELSE IF Null \in values THEN Null ELSE 0
Compared(op, x, y) ==
    CASE op = "eq" -> x = y
      [] op = "ne" -> x # y
      [] op = "lt" -> x < y
      [] op = "le" -> x <= y
      [] op = "gt" -> x > y
      [] op = "ge" -> x >= y
InList(x, values) ==
    CASE values = {} -> 0
      [] x = Null -> Null
      [] x \in values -> 1
      [] Null \in values -> Null
      [] OTHER -> 0
Not(x) == IF x = Null THEN Null ELSE 1 - x

RECURSIVE Meaning(_, _)
Meaning(e, row) ==
    LET value(x) == Meaning(x, row)
        of(s) == {value(s[i]) : i \in DOMAIN s}
        l == value(e.left)
        r == value(e.right)
        x == value(e.expression)
        y == value(e.arguments[1])
        z == value(e.arguments[2])
    IN  CASE e.node = "column_ref" -> row[e.name]
          [] e.node \in {"field_ref", "cast"} -> x
          [] e.node = "literal" -> e.value
          [] e.node = "comparison" ->
               IF e.op = "distinct_from" THEN Truth(l # r)
               ELSE IF e.op = "not_distinct_from" THEN Truth(l = r)
               ELSE IF Null \in {l, r} THEN Null ELSE Truth(Compared(e.op, l, r))
          [] e.node = "arithmetic" -> IF Null \in {l, r} THEN Null ELSE IF e.op = "add" THEN l + r ELSE l - r
          [] e.node = "and" -> and_kleene(of(e.children))
          [] e.node = "or" -> or_kleene(of(e.children))
          [] e.node = "not" -> Not(x)
          [] e.node = "negate" -> IF x = Null THEN Null ELSE -x
          [] e.node = "is_null" -> Truth((x = Null) # e.negated)
          [] e.node = "in" -> 
               LET listed == InList(x, ToSet(parseV2Set(e.set).values))
               IN  IF e.negated THEN Not(listed) ELSE listed
          [] e.node = "call" -> IF Null \in {y, z} THEN Null ELSE Truth(y = z \/ z = 0)   \* 0 is the empty string

-----------------------------------------------------------------------------
(***************************************************************************)
(* Evaluation over a batch with the given columns.                         *)
(***************************************************************************)
\* Whether an expression can be rendered as SQL over a batch: each column by its position
\* or, in a projected batch, by its unambiguous name.
RECURSIVE sql(_, _)
sql(e, columns) ==
    LET named(n) == {i \in DOMAIN columns : columns[i].name = n}
        renders(v, type) == v = Null \/ type \in Rendered
    IN  CASE e.node = "column_ref" ->
               \/ e.index \in named(e.name)
               \/ Cardinality(named(e.name)) = 1
          [] e.node \in {"field_ref", "not", "negate", "is_null"} -> sql(e.expression, columns)
          [] e.node = "literal" -> renders(e.value, e.type)
          [] e.node \in {"comparison", "arithmetic"} -> sql(e.left, columns) /\ sql(e.right, columns)
          [] e.node \in {"and", "or"} -> \A i \in DOMAIN e.children : sql(e.children[i], columns)
          [] e.node = "in" ->
               LET set == parseV2Set(e.set)
               IN  \/ set.values = <<>>
                   \/ sql(e.expression, columns) /\ \A v \in ToSet(set.values) : renders(v, set.type)
          [] e.node = "cast" -> sql(e.expression, columns) /\ e.type \in Supported
          [] e.node = "call" -> \A i \in DOMAIN e.arguments : sql(e.arguments[i], columns)
          [] e.node = "runtime_filter" -> FALSE

\* The evaluator loads the whole batch into a table: every column must have a type it knows
\* and a name of its own.
evalExpressionAgainstBatch(columns) ==
    /\ \A i \in DOMAIN columns : columns[i].type \in Supported
    /\ \A i, j \in DOMAIN columns : columns[i].name = columns[j].name => i = j

Evaluable(p, columns) == sql(p.expr, columns) /\ evalExpressionAgainstBatch(columns)

\* A runtime filter is left to the engine, an advisory predicate that cannot be evaluated is
\* passed over, and a required one fails the batch.
Skipped(p, columns) == p.expr.node = "runtime_filter" \/ (p.mode = "advisory" /\ ~Evaluable(p, columns))

EvaluationFails(predicates, columns) ==
    \E i \in DOMAIN predicates : ~Skipped(predicates[i], columns) /\ ~Evaluable(predicates[i], columns)

evaluateV2(predicates, columns, row) ==
    and_kleene({1} \cup {Meaning(predicates[i].expr, row) :
                         i \in {j \in DOMAIN predicates : ~Skipped(predicates[j], columns)}})

\* A NULL mask keeping the row.
KeepsUnknown(mask) == mask # 0

\* Apply keeps the rows whose mask is TRUE; a NULL mask drops the row.
Keeps(mask) == mask = 1

=============================================================================
