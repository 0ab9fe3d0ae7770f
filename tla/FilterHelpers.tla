---------------------------- MODULE FilterHelpers ----------------------------
(***************************************************************************)
(* The Filters a function is shown (publicV2Filter of vgi/filter_v2.go,    *)
(* the Filter types of filter_pushdown.go) and what the accessors read off *)
(* them: bounds, discrete values, a WHERE clause (filter_helpers.go,       *)
(* filter_helpers_typed.go).                                               *)
(***************************************************************************)
EXTENDS FilterExpressions

\* What an accessor returns when it can say nothing (nil).
None == Null

\* The column a filter is listed under: the first one that occurs in its expression.
RECURSIVE v2RootColumn(_)
v2RootColumn(e) ==
    CASE e.node = "column_ref" -> e.name
      [] e.node \in {"field_ref", "cast", "not", "negate", "is_null", "in", "runtime_filter"} ->
           v2RootColumn(e.expression)
      [] e.node \in {"comparison", "arithmetic"} -> v2RootColumn(e.left)
      [] e.node \in {"and", "or"} ->
           LET named == {i \in DOMAIN e.children : v2RootColumn(e.children[i]) # ""}
           IN  IF named = {} THEN "" ELSE v2RootColumn(e.children[Min(named)])
      [] OTHER -> ""

Flipped == [eq |-> "eq", ne |-> "ne", lt |-> "gt", le |-> "ge", gt |-> "lt", ge |-> "le"]

ConstantFilter(ref, op, value, type) ==
    [kind |-> "constant", column |-> ref.name, index |-> ref.index, op |-> op, value |-> value, type |-> type]

\* WHERE flag and WHERE NOT flag are the equality of the flag with TRUE or FALSE.
BoolColumn(e) == e.node = "column_ref" /\ parseV2Expr(e, 1) = "bool"
IsBoolLeaf(e) == BoolColumn(e) \/ (e.node = "not" /\ BoolColumn(e.expression))
boolColumnLeaf(e) ==
    IF e.node = "not" THEN ConstantFilter(e.expression, "eq", 0, "bool") ELSE ConstantFilter(e, "eq", 1, "bool")

\* A comparison of a column with a literal, on either side.
IsConstant(ref, literal, op) ==
    ref.node = "column_ref" /\ literal.node = "literal" /\ op \in DOMAIN Flipped

\* Without turning the operator round.
publicComparisonAsIs(e) ==
    IF IsConstant(e.left, e.right, e.op) THEN ConstantFilter(e.left, e.op, e.right.value, e.right.type)
    ELSE ConstantFilter(e.right, e.op, e.left.value, e.left.type)

publicComparison(e) ==
    IF IsConstant(e.left, e.right, e.op) THEN ConstantFilter(e.left, e.op, e.right.value, e.right.type)
    ELSE ConstantFilter(e.right, Flipped[e.op], e.left.value, e.left.type)

RECURSIVE publicV2Filter(_)
publicV2Filter(e) ==
    CASE IsBoolLeaf(e) -> boolColumnLeaf(e)
      [] e.node = "comparison" /\ (IsConstant(e.left, e.right, e.op) \/ IsConstant(e.right, e.left, e.op)) ->
           publicComparison(e)
      [] e.node = "is_null" /\ e.expression.node = "column_ref" ->
           [kind |-> IF e.negated THEN "is_not_null" ELSE "is_null", column |-> e.expression.name,
            index |-> e.expression.index]
      [] e.node = "in" /\ ~e.negated /\ e.expression.node = "column_ref" ->
           [kind |-> "in", column |-> e.expression.name, index |-> e.expression.index,
            values |-> parseV2Set(e.set).values, type |-> parseV2Set(e.set).type]
      [] e.node \in {"and", "or"} ->
           [kind |-> e.node, column |-> v2RootColumn(e),
            children |-> [i \in DOMAIN e.children |-> publicV2Filter(e.children[i])]]
      [] OTHER -> [kind |-> "view", column |-> v2RootColumn(e), expr |-> e]

\* What a leaf says of the value of its column.
LeafValue(f, x) ==
    CASE f.kind = "constant" -> IF Null \in {x, f.value} THEN Null ELSE Truth(Compared(f.op, x, f.value))
      [] f.kind = "is_null" -> Truth(x = Null)
      [] f.kind = "is_not_null" -> Truth(x # Null)
      [] f.kind = "in" -> Truth(x \in ToSet(f.values))

\* Filter.Evaluate, which a function may call on any one of them with a batch of its own.  A
\* leaf reads the column at the position it has in the bind schema, whatever column the batch
\* has there; a view renders its columns as Apply does.  No column there, or one of another
\* type, is an error.
RECURSIVE EvaluateFails(_, _)
EvaluateFails(f, columns) ==
    CASE f.kind \in {"and", "or"} -> \E i \in DOMAIN f.children : EvaluateFails(f.children[i], columns)
      [] f.kind = "view" -> ~(sql(f.expr, columns) /\ evalExpressionAgainstBatch(columns))
      [] OTHER ->
           \/ f.index \notin DOMAIN columns
           \/ f.kind \in {"constant", "in"} /\ columns[f.index].type # f.type

RECURSIVE Evaluate(_, _, _)
Evaluate(f, columns, row) ==
    LET of == {Evaluate(f.children[i], columns, row) : i \in DOMAIN f.children}
    IN  CASE f.kind = "and" -> and_kleene(of)
          [] f.kind = "or" -> or_kleene(of)
          [] f.kind = "view" -> Meaning(f.expr, row)
          [] OTHER -> LeafValue(f, row[columns[f.index].name])

-----------------------------------------------------------------------------
(***************************************************************************)
(* Bounds.  A value the accessors cannot turn into a float compares as     *)
(* neither less nor greater; an invalid scalar holds zero.                 *)
(***************************************************************************)
GetColumnFilters(filters, name) == SelectSeq(filters, LAMBDA f : f.column = name)

collectColumnFilters(filters, name) ==
    FlattenSeq([i \in DOMAIN GetColumnFilters(filters, name) |->
        LET f == GetColumnFilters(filters, name)[i]
        IN  IF f.kind = "and" THEN GetColumnFilters(f.children, name) ELSE <<f>>])

scalarToFloat64(v) == IF v = Null THEN 0 ELSE v
scalarLess(type, a, b) == type \in Floats /\ scalarToFloat64(a) < scalarToFloat64(b)
scalarLessEqual(type, a, b) == type \in Floats /\ scalarToFloat64(a) <= scalarToFloat64(b)

\* The smallest and the largest value of an array, in the order it is read.
arrayBoundsScalar(values, type) ==
    LET present == SelectSeq(values, LAMBDA v : v # Null)
        least == FoldLeft(LAMBDA lo, v : IF scalarLess(type, v, lo) THEN v ELSE lo, Head(present), present)
        greatest == FoldLeft(LAMBDA hi, v : IF scalarLess(type, hi, v) THEN v ELSE hi, Head(present), present)
    IN  IF present = <<>> THEN <<>> ELSE <<least, greatest>>

Unbounded == [min |-> <<>>, max |-> <<>>, fixed |-> FALSE]

Raise(b, type, v, inclusive) ==
    IF b.min = <<>> \/ (IF inclusive THEN scalarLessEqual(type, b.min[1], v) ELSE scalarLess(type, b.min[1], v))
    THEN [b EXCEPT !.min = <<v, inclusive>>] ELSE b
Lower(b, type, v, inclusive) ==
    IF b.max = <<>> \/ (IF inclusive THEN scalarLessEqual(type, v, b.max[1]) ELSE scalarLess(type, v, b.max[1]))
    THEN [b EXCEPT !.max = <<v, inclusive>>] ELSE b

\* An equality settles the bounds at once.
Tighten(b, f) ==
    CASE b.fixed -> b
      [] f.kind = "in" ->
           LET range == arrayBoundsScalar(f.values, f.type)
           IN  IF range = <<>> THEN b
               ELSE Lower(Raise(b, f.type, range[1], TRUE), f.type, range[2], TRUE)
      [] f.kind # "constant" -> b
      [] f.op = "eq" -> [min |-> <<f.value, TRUE>>, max |-> <<f.value, TRUE>>, fixed |-> TRUE]
      [] f.op = "gt" -> Raise(b, f.type, f.value, FALSE)
      [] f.op = "ge" -> Raise(b, f.type, f.value, TRUE)
      [] f.op = "lt" -> Lower(b, f.type, f.value, FALSE)
      [] f.op = "le" -> Lower(b, f.type, f.value, TRUE)
      [] OTHER -> b

GetColumnBounds(filters, name) == FoldLeft(Tighten, Unbounded, collectColumnFilters(filters, name))

-----------------------------------------------------------------------------
(***************************************************************************)
(* Discrete values: a set, or None.                                        *)
(***************************************************************************)
\* The values of the first branch alone.
orDiscreteValuesFirst(f, name) ==
    LET c == f.children[1]
    IN  IF c.column # name THEN None
        ELSE IF c.kind = "constant" /\ c.op = "eq" THEN {c.value}
        ELSE IF c.kind = "in" THEN ToSet(c.values) ELSE None

\* Every branch must pin the column.
orDiscreteValues(f, name) ==
    LET pinned(c) == c.column = name /\ (c.kind = "in" \/ (c.kind = "constant" /\ c.op = "eq"))
        values(c) == IF c.kind = "in" THEN ToSet(c.values) ELSE {c.value}
        all == UNION {values(f.children[i]) : i \in DOMAIN f.children}
    IN  IF (\A i \in DOMAIN f.children : pinned(f.children[i])) /\ all # {} THEN all ELSE None

\* What one filter says of the column, an equality's missing value read as zero.
Enumerated(f, name) ==
    CASE f.kind = "constant" /\ f.op = "eq" -> {scalarToFloat64(f.value)}
      [] f.kind = "in" -> ToSet(f.values)
      [] f.kind = "or" -> orDiscreteValues(f, name)
      [] OTHER -> None

\* The first filter that enumerates the column decides.
GetColumnValues(filters, name) ==
    FoldLeft(LAMBDA found, f : IF found # None THEN found ELSE Enumerated(f, name), None,
             collectColumnFilters(filters, name))

GetColumnConstant(filters, name) ==
    LET equal == SelectSeq(GetColumnFilters(filters, name), LAMBDA f : f.kind = "constant" /\ f.op = "eq")
    IN  IF equal = <<>> THEN None ELSE equal[1].value

\* All equalities and lists of the column together, or nothing; a value of another type
\* than the one asked for is no value.
RECURSIVE collectEqOrIn(_, _)
collectEqOrIn(f, type) ==
    CASE f.kind = "constant" -> IF f.op = "eq" /\ f.value # Null /\ f.type = type THEN {f.value} ELSE None
      [] f.kind = "in" -> IF f.type = type THEN ToSet(f.values) \ {Null} ELSE None
      [] f.kind = "and" ->
           LET all == {collectEqOrIn(f.children[i], type) : i \in DOMAIN f.children}
           IN  IF None \in all THEN None ELSE UNION all
      [] OTHER -> None

EqualOrInValues(filters, name, type) ==
    LET mine == GetColumnFilters(filters, name)
        all == {collectEqOrIn(mine[i], type) : i \in DOMAIN mine}
    IN  IF None \in all \/ UNION all = {} THEN None ELSE UNION all

-----------------------------------------------------------------------------
\* The WHERE clause of ToSQL over a row; what it cannot write down is 1=1.
RECURSIVE filterToSQL(_, _)
filterToSQL(f, row) ==
    LET of == {filterToSQL(f.children[i], row) : i \in DOMAIN f.children}
    IN  CASE f.kind = "in" -> InList(row[f.column], ToSet(f.values))
          [] f.kind = "and" -> and_kleene(of)
          [] f.kind = "or" -> or_kleene(of)
          [] f.kind = "view" -> 1
          [] OTHER -> LeafValue(f, row[f.column])

ToSQL(filters, row) == and_kleene({1} \cup {filterToSQL(filters[i], row) : i \in DOMAIN filters})

\* value_prune emits the keys GetColumnValues names, or all of them.
value_prune(filters, keys) ==
    LET discrete == GetColumnValues(filters, "n")
    IN  IF discrete = None THEN keys ELSE discrete \cap keys

=============================================================================
