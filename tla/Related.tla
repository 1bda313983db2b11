-------------------------------- MODULE Related --------------------------------
(***************************************************************************)
(* Conditions on related rows and on subqueries (src/src/query/predicates):*)
(* the correlated EXISTS of where_has and has_related, and IN (subquery),  *)
(* rendered with the names the tables go by, and read back as SQL reads    *)
(* them: a name is that of the innermost table called so.                  *)
(*                                                                         *)
(* A query has a `model`, the `depth` of where_has over its own table it   *)
(* stands at, its `conditions` and `scope`, a `limit` or None, and whether *)
(* it is `valid`.  Tables share their columns: id, up, a and deleted.      *)
(***************************************************************************)
EXTENDS Naturals, Sequences, FiniteSets

CONSTANT None

Columns == {"id", "up", "a", "deleted"}

\* Mutant: deeper aliases are one.
related_alias_one(depth) == <<"tideorm_related", 1>>

related_alias(depth) == <<"tideorm_related", depth>>

\* The name a table goes by: its own, or an alias by its depth
own_table_ref(model, depth) == IF depth = 0 THEN <<model, 0>> ELSE related_alias(depth)

QueryOf(model, depth) ==
    [model |-> model, depth |-> depth, conditions |-> <<>>, scope |-> "live", limit |-> None, valid |-> TRUE]

\* Mutants: every query of its own table stands one level deep; each where_has
\* starts anew.
related_query_at_one(q, model) == QueryOf(model, IF model = q.model THEN 1 ELSE 0)
related_query_at_none(q, model) == QueryOf(model, 0)

\* The query where_has hands its closure
related_query(q, model) == QueryOf(model, IF model = q.model THEN q.depth + 1 ELSE 0)

-------------------------------------------------------------------------------
(* Rendering: a condition of SQL tests a column or a subquery.             *)

push(q, sql, valid) ==
    [q EXCEPT !.conditions = Append(@, sql), !.valid = @ /\ valid]

Equals(left, right) == [test |-> "equals", left |-> left, right |-> right]
Value(ref, value) == [test |-> "value", ref |-> ref, value |-> value]
Exists(negated, select) == [test |-> "exists", negated |-> negated, select |-> select]
InSelect(negated, ref, select) == [test |-> "in", negated |-> negated, ref |-> ref, select |-> select]
Select(table, name, where, rows) ==
    [table |-> table, name |-> name, where |-> where, rows |-> rows, derived |-> FALSE]

\* A column of the model itself, whose name may be written with the table's
where_eq(q, qualified, column, value) ==
    push(q, Value(<<IF qualified THEN own_table_ref(q.model, q.depth) ELSE None, column>>, value), TRUE)

build_soft_delete_expression(q) ==
    CASE q.scope = "live" -> <<Value(<<None, "deleted">>, None)>>
      [] q.scope = "trashed" -> <<Value(<<None, "deleted">>, 1)>>
      [] q.scope = "all" -> <<>>

where_clause(q) == q.conditions \o build_soft_delete_expression(q)

correlated_exists_head(q, table, name, foreign_key, local_key) ==
    Select(table, name, <<Equals(<<name, foreign_key>>, <<own_table_ref(q.model, q.depth), local_key>>)>>, None)

\* Mutant: the scope of the related model is forgotten.
push_has_condition_unscoped(q, negated, foreign_key, local_key, related) ==
    LET head == correlated_exists_head(q, related.model, own_table_ref(related.model, related.depth), foreign_key, local_key)
    IN  push(q, Exists(negated, [head EXCEPT !.where = @ \o related.conditions]), related.valid /\ related.limit = None)

\* where_has and where_doesnt_have, whose related query may only filter
push_has_condition(q, negated, foreign_key, local_key, related) ==
    LET head == correlated_exists_head(q, related.model, own_table_ref(related.model, related.depth), foreign_key, local_key)
    IN  push(q, Exists(negated, [head EXCEPT !.where = @ \o where_clause(related)]),
             /\ related.valid /\ related.limit = None
             /\ {foreign_key, local_key} \subseteq Columns)

where_has(q, foreign_key, local_key, related) == push_has_condition(q, FALSE, foreign_key, local_key, related)
where_doesnt_have(q, foreign_key, local_key, related) == push_has_condition(q, TRUE, foreign_key, local_key, related)

\* A table named and not modelled; `condition` is a column and a value, or None
push_related_exists_condition(q, negated, table, foreign_key, local_key, condition) ==
    LET name == IF table = q.model THEN own_table_ref(table, q.depth + 1) ELSE own_table_ref(table, 0)
        head == correlated_exists_head(q, table, name, foreign_key, local_key)
        tests == IF condition = None THEN <<>> ELSE <<Value(<<name, condition[1]>>, condition[2])>>
    IN  push(q, Exists(negated, [head EXCEPT !.where = @ \o tests]), TRUE)

\* has_related and has_no_related; has_any_related and has_no_related_at_all
has_related(q, negated, table, foreign_key, local_key, column, value) ==
    push_related_exists_condition(q, negated, table, foreign_key, local_key, <<column, value>>)
has_any_related(q, negated, table, foreign_key, local_key) ==
    push_related_exists_condition(q, negated, table, foreign_key, local_key, None)

\* Mutant: a page of rows straight inside IN
IsDerived_never(db, subquery) == FALSE

\* MySQL takes a page of rows inside IN only one level further down.
IsDerived(db, subquery) == db = "MySQL" /\ subquery.limit # None

push_subquery_condition(db, q, keyword, negated, column, subquery) ==
    LET sql == Select(subquery.model, own_table_ref(subquery.model, subquery.depth), where_clause(subquery), subquery.limit)
    IN  push(q, IF keyword = "EXISTS" THEN Exists(negated, sql)
                ELSE InSelect(negated, <<None, column>>, [sql EXCEPT !.derived = IsDerived(db, subquery)]),
             subquery.valid)

\* where_in_subquery and where_not_in_subquery (the subquery selects "id");
\* where_exists and where_not_exists
where_in_subquery(db, q, negated, column, subquery) == push_subquery_condition(db, q, "IN", negated, column, subquery)
where_exists(db, q, negated, subquery) == push_subquery_condition(db, q, "EXISTS", negated, None, subquery)

-------------------------------------------------------------------------------
(* What the database reads: `scopes` are the rows of the tables around a   *)
(* condition by name, innermost last; a row of the base has its columns.   *)

\* The row a reference reads: an unqualified one is of the innermost table
Read(scopes, ref) ==
    LET named == {i \in DOMAIN scopes : ref[1] \in {None, scopes[i].name}}
        innermost == CHOOSE i \in named : \A j \in named : j <= i
    IN  IF named = {} THEN "no such column" ELSE scopes[innermost].row[ref[2]]

\* [NOT] IN of values that are not NULL
IsIn(value, values, negated) ==
    IF negated THEN values = {} \/ value \notin values \cup {None} ELSE value \in values

Page(rows, n) == {row \in rows : n = None \/ Cardinality({r \in rows : r.id < row.id}) < n}

RECURSIVE Holds(_, _, _), Selected(_, _, _)

Holds(base, scopes, c) ==
    CASE c.test = "equals" -> /\ Read(scopes, c.left) # None
                              /\ Read(scopes, c.left) = Read(scopes, c.right)
      [] c.test = "value" -> Read(scopes, c.ref) = c.value
      [] c.test = "exists" -> c.negated # (Selected(base, scopes, c.select) # {})
      [] c.test = "in" ->
            IsIn(Read(scopes, c.ref), {row.id : row \in Selected(base, scopes, c.select)}, c.negated)

\* The rows a SELECT reads; a page holds those with the lowest ids.
Selected(base, scopes, select) ==
    Page({row \in base[select.table] :
             \A i \in DOMAIN select.where :
                 Holds(base, Append(scopes, [name |-> select.name, row |-> row]), select.where[i])},
         select.rows)

\* MySQL takes no LIMIT straight inside IN.
RECURSIVE TakenBy(_, _)
TakenBy(db, where) ==
    \A i \in DOMAIN where :
        where[i].test \in {"exists", "in"} =>
            /\ where[i].test = "in" /\ db = "MySQL" => where[i].select.rows = None \/ where[i].select.derived
            /\ TakenBy(db, where[i].select.where)

RowsOf(base, q) == Selected(base, <<>>, Select(q.model, own_table_ref(q.model, q.depth), where_clause(q), q.limit))

-------------------------------------------------------------------------------
(* What a caller asks: nested `wishes`, each with its own, which the       *)
(* methods build and which say what they mean without any names.           *)

Wish(kind, negated, model, foreign_key, local_key, inner, scope, rows) ==
    [kind |-> kind, negated |-> negated, model |-> model, fk |-> foreign_key, lk |-> local_key,
     inner |-> inner, scope |-> scope, rows |-> rows]
ColumnWish(qualified, column, value) == [kind |-> "eq", qualified |-> qualified, column |-> column, value |-> value]

RECURSIVE Build(_, _, _)
Build(db, q, wishes) ==
    IF wishes = <<>> THEN q
    ELSE LET w == Head(wishes)
             closed(start) == [Build(db, start, w.inner) EXCEPT !.scope = w.scope, !.limit = w.rows]
         IN  Build(db,
                   CASE w.kind = "eq" -> where_eq(q, w.qualified, w.column, w.value)
                     [] w.kind = "has" /\ ~w.negated -> where_has(q, w.fk, w.lk, closed(related_query(q, w.model)))
                     [] w.kind = "has" /\ w.negated -> where_doesnt_have(q, w.fk, w.lk, closed(related_query(q, w.model)))
                     [] w.kind = "table" /\ w.inner = <<>> -> has_any_related(q, w.negated, w.model, w.fk, w.lk)
                     [] w.kind = "table" /\ w.inner # <<>> ->
                           has_related(q, w.negated, w.model, w.fk, w.lk, w.inner[1].column, w.inner[1].value)
                     [] w.kind = "in" -> where_in_subquery(db, q, w.negated, "up", closed(QueryOf(w.model, 0)))
                     [] w.kind = "exists" -> where_exists(db, q, w.negated, closed(QueryOf(w.model, 0))),
                   Tail(wishes))

InScope(row, scope) == scope = "all" \/ (row.deleted = None) = (scope = "live")

RECURSIVE Means(_, _, _)
Means(base, row, w) ==
    LET ofScope == {other \in base[w.model] : InScope(other, w.scope) /\ \A i \in DOMAIN w.inner : Means(base, other, w.inner[i])}
        related == {other \in ofScope : other[w.fk] # None /\ other[w.fk] = row[w.lk]}
    IN  CASE w.kind = "eq" -> row[w.column] = w.value
          [] w.kind \in {"has", "table"} -> w.negated # (related # {})
          [] w.kind = "exists" -> w.negated # (ofScope # {})
          [] w.kind = "in" -> IsIn(row.up, {other.id : other \in Page(ofScope, w.rows)}, w.negated)

Refused(w) == w.kind = "has" /\ (w.rows # None \/ {w.fk, w.lk} \ Columns # {})
RECURSIVE AnyRefused(_)
AnyRefused(wishes) ==
    \E i \in DOMAIN wishes : wishes[i].kind # "eq" /\ (Refused(wishes[i]) \/ AnyRefused(wishes[i].inner))

\* A query keeps exactly the rows whose related rows are as asked, however
\* deep where_has, has_related and subqueries are nested over the same table
\* or another (predicates.rs: related_query, push_has_condition,
\* push_related_exists_condition, push_subquery_condition); one whose related
\* query cannot be kept is refused; every other is one its backend takes.
RelatedRowsAreAsAsked(base, db, model, wishes) ==
    LET q == Build(db, QueryOf(model, 0), wishes)
    IN  /\ q.valid = ~AnyRefused(wishes)
        /\ q.valid => /\ TakenBy(db, q.conditions)
                      /\ RowsOf(base, q) = {row \in base[model] : InScope(row, "live") /\ \A i \in DOMAIN wishes : Means(base, row, wishes[i])}
===============================================================================
