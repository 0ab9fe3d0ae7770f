--------------------------- MODULE FilterPushdown ---------------------------
(***************************************************************************)
(* A scan with pushed-down filters: the snapshot is decoded at init        *)
(* (deserializeFiltersV2), the function prunes by what the accessors tell  *)
(* it, and the framework applies the filters to a batch on its way out     *)
(* (PushdownFilters.Apply from the emit interceptor of                     *)
(* TableProducerState.Produce).                                            *)
(***************************************************************************)
EXTENDS FilterHelpers

CONSTANTS
    Snapshots,     \* the predicate sequences the engine may push
    Projections,   \* the columns a batch may have: sequences of positions in Schema
    Values,        \* the values of a column
    MaxPredicates  \* the limit on a snapshot (1024)

VARIABLES
    predicates,    \* the snapshot
    columns,       \* the columns of the batch the function emits
    filters,       \* the Filters the function is shown
    status,
    kept           \* the rows Apply has kept

vars == <<predicates, columns, filters, status, kept>>

Rows == {row \in [{Schema[i].name : i \in DOMAIN Schema} -> Values \cup {Null}] :
           \A i \in DOMAIN Schema : Schema[i].type = "bool" => row[Schema[i].name] \in {0, 1, Null}}

Init ==
    /\ predicates \in Snapshots
    /\ columns \in {[i \in DOMAIN p |-> Schema[p[i]]] : p \in Projections}
    /\ filters = <<>>
    /\ status = "init"
    /\ kept = {}

\* Every predicate must be valid, and there may not be too many.
deserializeFiltersV2 ==
    /\ status = "init"
    /\ IF /\ Len(predicates) <= MaxPredicates
          /\ \A i \in DOMAIN predicates : parseV2Predicate(predicates[i])
       THEN /\ status' = "scanning"
            /\ filters' = [i \in DOMAIN predicates |-> publicV2Filter(predicates[i].expr)]
       ELSE status' = "refused" /\ UNCHANGED filters
    /\ UNCHANGED <<predicates, columns, kept>>

\* A batch of every row is filtered, or fails.
Apply ==
    /\ status = "scanning"
    /\ IF EvaluationFails(predicates, columns)
       THEN status' = "failed" /\ UNCHANGED kept
       ELSE /\ status' = "applied"
            /\ kept' = {row \in Rows : Keeps(evaluateV2(predicates, columns, row))}
    /\ UNCHANGED <<predicates, columns, filters>>

Next == deserializeFiltersV2 \/ Apply

Spec == Init /\ [][Next]_vars
-----------------------------------------------------------------------------
(***************************************************************************)
(* Properties.                                                             *)
(***************************************************************************)
Evaluated == {i \in DOMAIN predicates : predicates[i].expr.node # "runtime_filter"}
Holds(i, row) == Meaning(predicates[i].expr, row) = 1
Satisfies(row) == \A i \in Evaluated : Holds(i, row)

\* What Apply keeps: every row that satisfies the predicates, and no row that fails a
\* required one, however the batch was projected (evaluateV2, v2Expr.sql, Apply).  A
\* required predicate that cannot be evaluated fails the batch, since the engine does not
\* apply it again.
AppliedExactly ==
    status = "applied" =>
      /\ \A row \in Rows : Satisfies(row) => row \in kept
      /\ \A row \in kept, i \in Evaluated : predicates[i].mode = "required" => Holds(i, row)

Within(b, v) ==
    /\ v # Null
    /\ b.min # <<>> /\ b.min[1] # Null => b.min[1] < v \/ (b.min[2] /\ b.min[1] = v)
    /\ b.max # <<>> /\ b.max[1] # Null => v < b.max[1] \/ (b.max[2] /\ b.max[1] = v)

\* A function that prunes by an accessor loses no row of the answer: the bounds and the
\* discrete values of a column, and the WHERE clause, admit every row that satisfies the
\* predicates (GetColumnBounds, GetColumnValues, GetColumnConstant, EqualOrInValues, ToSQL,
\* value_prune).
PruningSound ==
    status = "scanning" =>
      \A row \in {r \in Rows : Satisfies(r)} :
        /\ ToSQL(filters, row) = 1
        /\ row["n"] \in value_prune(filters, Values) \cup {Null}
        /\ \A i \in DOMAIN Schema :
             LET name == Schema[i].name
                 bounds == GetColumnBounds(filters, name)
                 v == row[name]
                 admits(found) == found # None => v \in found
             IN  /\ bounds # Unbounded => Within(bounds, v)
                 /\ admits(GetColumnValues(filters, name))
                 /\ admits(EqualOrInValues(filters, name, Schema[i].type))
                 /\ GetColumnConstant(filters, name) # None => v = GetColumnConstant(filters, name)

\* Whether the batch has the column of each leaf where the leaf looks for it.
RECURSIVE InPlace(_)
InPlace(f) ==
    CASE f.kind \in {"and", "or"} -> \A i \in DOMAIN f.children : InPlace(f.children[i])
      [] f.kind = "view" -> TRUE
      [] OTHER -> f.index \in DOMAIN columns /\ columns[f.index].name = f.column

\* A Filter a function evaluates by itself, over a batch that has the columns of the bind
\* schema in place, serves every predicate Apply can evaluate there and keeps the rows Apply
\* keeps; where only some columns are projected, this holds of the filters whose columns are
\* still in their positions (publicV2Filter, boolColumnLeaf, Filter.Evaluate).
ViewsAgree ==
    status = "scanning" =>
      \A i \in {j \in Evaluated : InPlace(filters[j])} :
        /\ Evaluable(predicates[i], columns) => ~EvaluateFails(filters[i], columns)
        /\ ~EvaluateFails(filters[i], columns) =>
             \A row \in Rows : (Evaluate(filters[i], columns, row) = 1) <=> Holds(i, row)

=============================================================================
