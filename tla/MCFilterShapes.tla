--------------------------- MODULE MCFilterShapes ---------------------------
(***************************************************************************)
(* The filter expressions TLC enumerates: comparisons either way round,    *)
(* lists, null tests, boolean columns, arithmetic, casts, calls and struct *)
(* fields, alone and under and, or and not.                                *)
(***************************************************************************)
EXTENDS Integers, Sequences

CONSTANTS
    Null,
    ListTypes,   \* the types lists may have
    Wild         \* whether odd shapes are pushed

MCSchema == <<[name |-> "n", type |-> "int64"], [name |-> "s", type |-> "string"],
              [name |-> "flag", type |-> "bool"], [name |-> "k", type |-> "int16"]>>
MCProjections == {<<1, 2, 3, 4>>, <<2, 1, 3>>, <<1, 1, 3>>, <<1, 2>>}

Col(i) == [node |-> "column_ref", index |-> i, name |-> MCSchema[i].name]
Lit(v, t) == [node |-> "literal", value |-> v, type |-> t]
Cmp(op, l, r) == [node |-> "comparison", op |-> op, left |-> l, right |-> r]
In(x, set, neg) == [node |-> "in", expression |-> x, set |-> set, negated |-> neg]
List(s, t) == [kind |-> "literal", values |-> s, type |-> t]
Keys(b, c, name) == [kind |-> "external", batch |-> b, column |-> c, name |-> name]
MCJoinKeys == << <<[name |-> "s", type |-> "string", values |-> <<2>>],
                  [name |-> "n", type |-> "int64", values |-> <<2, 1, 2>>]>> >>
Unary(node, x) == [node |-> node, expression |-> x]
IsNull(x, neg) == [node |-> "is_null", expression |-> x, negated |-> neg]
Nary(node, s) == [node |-> node, children |-> s]

N == Col(1)
Comparisons ==
    {Cmp(op, N, Lit(v, "int64")) : op \in {"eq", "ne", "lt", "ge"}, v \in {1, 2}}
      \cup {Cmp(op, Lit(1, "int64"), N) : op \in {"eq", "le", "gt"}}
      \cup {Cmp("eq", N, Lit(Null, "int64")), Cmp("gt", N, Lit(Null, "int64"))}
      \cup {Cmp("eq", Col(2), Lit(1, "string")), Cmp("gt", Col(2), Lit(0, "string"))}
Lists == {In(Col(CHOOSE i \in DOMAIN MCSchema : MCSchema[i].type = t), List(s, t), FALSE) :
          t \in ListTypes, s \in {<<>>, <<2>>, <<1, 2>>, <<2, 0>>}}
Others ==
    {Col(3), Unary("not", Col(3)), IsNull(N, FALSE), IsNull(N, TRUE), Cmp("eq", Col(4), Lit(1, "int16"))}
Odd ==
    {Cmp("distinct_from", N, Lit(1, "int64")), In(N, List(<<1>>, "int64"), TRUE), In(N, Keys(1, 2, "n"), FALSE), Cmp("lt", N, Col(1)),
     Cmp("gt", [node |-> "arithmetic", op |-> "add", left |-> N, right |-> Lit(1, "int64")], Lit(2, "int64")),
     Cmp("eq", Unary("negate", N), Lit(0, "int64")),
     Cmp("lt", [node |-> "cast", expression |-> N, type |-> "int16"], Lit(1, "int16")),
     [node |-> "call", op |-> "starts_with", arguments |-> <<Col(2), Lit(1, "string")>>],
     Unary("not", Cmp("eq", N, Lit(1, "int64")))}
Invalid ==
    {N, Unary("not", N), Cmp("eq", N, Lit(1, "string")), Cmp("eq", [N EXCEPT !.index = 2], Lit(1, "int64")),
     Cmp("eq", [node |-> "arithmetic", op |-> "divide", left |-> N, right |-> N], N),
     Cmp("eq", Unary("field_ref", N), Lit(1, "int64")), In(N, List(<<1>>, "string"), FALSE), In(N, Keys(1, 1, "n"), FALSE), In(N, Keys(2, 1, "n"), FALSE), Nary("and", <<Col(3)>>),
     [node |-> "call", op |-> "intersects_extent", arguments |-> <<Col(2), Col(2)>>],
     Unary("not", [node |-> "runtime_filter", expression |-> N]),
     Cmp("eq", [node |-> "cast", expression |-> Col(2), type |-> "timestamp"], Lit(1, "timestamp"))}
Runtime == Unary("runtime_filter", N)

Simple == Comparisons \cup Lists \cup Others
Leaves == IF Wild THEN Simple \cup Odd \cup Invalid ELSE Simple
Composite == {Nary(node, <<x, y>>) : node \in {"and", "or"}, x \in Leaves, y \in Simple}
               \cup {Unary("not", Nary("or", <<x, y>>)) : x \in Comparisons, y \in Others}

Predicate(mode, e) == [mode |-> mode, expr |-> e]
MCSnapshots ==
    {<<Predicate(m, e)>> : m \in {"required", "advisory"}, e \in Leaves \cup {Runtime}}
      \cup {<<Predicate("required", e)>> : e \in Composite}
      \cup {<<Predicate("required", x), Predicate(m, y)>> :
              m \in {"required", "advisory"}, x \in Comparisons, y \in Leaves}
      \cup {<<>>, <<Predicate("advisory", Runtime), Predicate("required", Col(3)), Predicate("required", Col(3))>>}

=============================================================================
