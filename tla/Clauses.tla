------------------------------- MODULE Clauses -------------------------------
(***************************************************************************)
(* A query as the builder keeps it: the clauses its calls leave, merging a *)
(* reusable fragment, the key its cached rows are stored under, and the    *)
(* placeholders of the statement it renders with the values bound to them. *)
(* (src/src/query: clauses, builder, advanced, or_clauses, rendering)      *)
(* Column names, SQL templates and values are model values; a rendered     *)
(* fragment is the placeholders it writes, in the order of its text.       *)
(***************************************************************************)
EXTENDS Integers, Sequences, FiniteSets, SequencesExt

CONSTANTS
    None,
    MaxInteger      \* i64::MAX

\* An entry of the projection: a column, a wildcard ("*" when it has no table)
\* or an expression, with its alias; DISTINCT_SELECT_MARKER is kept among them.
Entry(kind, table, column, alias) ==
    [kind |-> kind, table |-> table, column |-> column, alias |-> alias]
Distinct == Entry("distinct", "", "", None)

\* Clauses::default
NoClauses ==
    [conditions |-> <<>>, or_groups |-> <<>>, simple_or_group |-> None, order_by |-> <<>>,
     limit_value |-> None, offset_value |-> None, select_columns |-> None,
     raw_select_expressions |-> <<>>, subquery_select_expressions |-> <<>>, group_by |-> <<>>,
     having_conditions |-> <<>>, having_bindings |-> <<>>, having_typed_bindings |-> {}, having_comparisons |-> <<>>,
     joins |-> <<>>, unions |-> <<>>, window_functions |-> <<>>, ctes |-> <<>>,
     cache_options |-> None, cache_key |-> None, invalid_query_reason |-> None,
     invalid_page |-> None, include_trashed |-> FALSE, only_trashed |-> FALSE,
     lock_for_update |-> FALSE]

is_distinct(q) == Distinct \in Range(q.raw_select_expressions)
raw_projection(q) == SelectSeq(q.raw_select_expressions, LAMBDA e : e # Distinct)

has_explicit_projection(q) ==
    q.select_columns # None \/ q.subquery_select_expressions # <<>> \/ raw_projection(q) # <<>>

-------------------------------------------------------------------------------
(* Builder calls                                                           *)

invalidate_query(q, reason) ==
    IF q.invalid_query_reason = None THEN [q EXCEPT !.invalid_query_reason = reason] ELSE q

push_condition(q, c) == [q EXCEPT !.conditions = Append(@, c)]

OrGroupOf(conditions) == [combine_with |-> "Or", conditions |-> conditions, nested_groups |-> <<>>]

\* or_where: a group the closure left empty is not pushed.
or_where(q, g) ==
    IF g.conditions = <<>> /\ g.nested_groups = <<>> THEN q ELSE [q EXCEPT !.or_groups = Append(@, g)]

\* Every or_where_* call joins one group.
push_or_condition(q, c) ==
    IF q.simple_or_group # None
    THEN [q EXCEPT !.or_groups[q.simple_or_group].conditions = Append(@, c)]
    ELSE [q EXCEPT !.or_groups = Append(@, OrGroupOf(<<c>>)),
                   !.simple_or_group = Len(q.or_groups) + 1]

\* A column may carry its own direction, which must be the one passed.
order_by(q, column, written, direction) ==
    IF written \notin {None, direction} THEN invalidate_query(q, "two directions")
    ELSE [q EXCEPT !.order_by = Append(@, <<column, direction>>)]

reorder(q, column, direction) == order_by([q EXCEPT !.order_by = <<>>], column, None, direction)

limit(q, n) == [q EXCEPT !.limit_value = n]
offset(q, n) == [q EXCEPT !.offset_value = n]

\* page_offset: the product may not pass i64::MAX.
PageOffset(number, per_page) ==
    IF number = 0 \/ per_page = 0 \/ per_page > MaxInteger THEN None
    ELSE IF (number - 1) * per_page > MaxInteger THEN None ELSE (number - 1) * per_page

page(q, number, per_page) ==
    LET start == PageOffset(number, per_page)
    IN  IF start # None THEN offset(limit(q, per_page), start)
        ELSE IF q.invalid_page = None THEN [q EXCEPT !.invalid_page = "page"] ELSE q

select(q, columns) == [q EXCEPT !.select_columns = columns]
distinct(q) ==
    IF is_distinct(q) THEN q ELSE [q EXCEPT !.raw_select_expressions = Append(@, Distinct)]
select_raw(q, e) == [q EXCEPT !.raw_select_expressions = Append(@, e)]
group_by(q, column) == [q EXCEPT !.group_by = Append(@, column)]

\* A condition and the values it binds: none for a raw one
having_with_params(q, template, params) ==
    [q EXCEPT !.having_conditions = Append(@, template), !.having_bindings = Append(@, params)]

\* Aggregate::compared_column: every one but COUNT compares values.
compared_column(aggregate, column) == IF aggregate = "COUNT" THEN None ELSE column

\* An aggregate of a column compared with a value: IS NULL for NULL, and for
\* MIN and MAX the value is typed when the query is rendered, after every join
\* is known, as is whether the column can be compared.
having(q, aggregate, column, ordering, value) ==
    LET template == <<aggregate, column>>
        noted == IF compared_column(aggregate, column) = None THEN q
                 ELSE [q EXCEPT !.having_comparisons = Append(@, column)]
    IN  IF value = None
        THEN IF ordering THEN invalidate_query(noted, "having NULL") ELSE having_with_params(noted, template, <<>>)
        ELSE [having_with_params(noted, template, <<value>>) EXCEPT
                !.having_typed_bindings = @ \cup
                    IF aggregate = "MAX" THEN {<<Len(q.having_conditions) + 1, value>>} ELSE {}]

\* A join that is not valid is not pushed.
join(q, clause, valid) ==
    IF ~valid THEN invalidate_query(q, "join") ELSE [q EXCEPT !.joins = Append(@, clause)]

window(q, w) == [q EXCEPT !.window_functions = Append(@, w)]
cache(q, ttl) == [q EXCEPT !.cache_options = ttl]
cache_with_key(q, ttl, key) == [q EXCEPT !.cache_options = ttl, !.cache_key = key]
no_cache(q) == [q EXCEPT !.cache_options = None, !.cache_key = None]
with_trashed(q) == [q EXCEPT !.include_trashed = TRUE, !.only_trashed = FALSE]
only_trashed(q, soft) ==
    [IF soft THEN q ELSE invalidate_query(q, "no soft delete")
        EXCEPT !.only_trashed = TRUE, !.include_trashed = FALSE]
lock_for_update(q) == [q EXCEPT !.lock_for_update = TRUE]

-------------------------------------------------------------------------------
(* Fragments of other queries                                              *)

is_executable(q) == q.invalid_query_reason = None /\ q.invalid_page = None

\* absorb_operand_error
Absorb(q, operand) == IF is_executable(operand) THEN q ELSE invalidate_query(q, "operand")

\* An operand is kept as its text, here the clauses it renders, with its
\* rendered placeholders and values.
NoSql == [marks |-> <<>>, params |-> <<>>]
ArmOf(type, operand, sql, raw) == [union_type |-> type, query |-> operand, sql |-> sql, raw |-> raw]

\* Whether the projection is the whole table, in the table's order, as in a
\* raw arm
reads_table_wildcard(q) == ~has_explicit_projection(q) /\ \E u \in Range(q.unions) : u.raw

push_compound_operand(q, type, operand, sql) ==
    [Absorb(q, operand) EXCEPT !.unions = Append(@, ArmOf(type, operand, sql, reads_table_wildcard(operand)))]

\* An arm of the caller's own text, here a query that renders it, binding nothing
push_raw_union(q, type, text) == [q EXCEPT !.unions = Append(@, ArmOf(type, text, NoSql, TRUE))]
with_query(q, name, operand, sql) ==
    [Absorb(q, operand) EXCEPT !.ctes = Append(@, [name |-> name, query |-> operand, sql |-> sql])]
select_subquery(q, alias, operand, sql) ==
    [Absorb(q, operand) EXCEPT !.subquery_select_expressions =
        Append(@, [alias |-> alias, query |-> operand, sql |-> sql])]

-------------------------------------------------------------------------------
(* Merging a fragment                                                      *)

\* Mutant: the positions of typed values are not moved past the own clauses.
merge_having_unmoved(q, o) ==
    [q EXCEPT !.having_typed_bindings = @ \cup o.having_typed_bindings,
              !.having_comparisons = @ \o o.having_comparisons,
              !.having_conditions = @ \o o.having_conditions,
              !.having_bindings = @ \o o.having_bindings]

merge_having(q, o) ==
    LET moved == Len(q.having_conditions)
    IN  [q EXCEPT !.having_typed_bindings = @ \cup {<<moved + b[1], b[2]>> : b \in o.having_typed_bindings},
                  !.having_comparisons = @ \o o.having_comparisons,
                  !.having_conditions = @ \o o.having_conditions,
                  !.having_bindings = @ \o o.having_bindings]

\* The other's shared group joins the own one, if there is one.
merge_or_groups(q, o) ==
    FoldLeft(LAMBDA c, i :
                 IF i # o.simple_or_group THEN [c EXCEPT !.or_groups = Append(@, o.or_groups[i])]
                 ELSE IF c.simple_or_group # None
                 THEN [c EXCEPT !.or_groups[c.simple_or_group].conditions = @ \o o.or_groups[i].conditions]
                 ELSE [c EXCEPT !.or_groups = Append(@, o.or_groups[i]),
                                !.simple_or_group = Len(c.or_groups) + 1],
             q, [i \in 1..Len(o.or_groups) |-> i])

LastSet(own, other) == IF other # None THEN other ELSE own
FirstSet(own, other) == IF own # None THEN own ELSE other

merge(q, o) ==
    LET expressions == IF is_distinct(q) THEN raw_projection(o) ELSE o.raw_select_expressions
    IN  [merge_having(merge_or_groups(q, o), o) EXCEPT
            !.conditions = @ \o o.conditions, !.order_by = @ \o o.order_by,
            !.limit_value = LastSet(@, o.limit_value),
            !.offset_value = LastSet(@, o.offset_value),
            !.select_columns = LastSet(@, o.select_columns),
            !.raw_select_expressions = @ \o expressions,
            !.subquery_select_expressions = @ \o o.subquery_select_expressions,
            !.group_by = @ \o o.group_by, !.joins = @ \o o.joins, !.unions = @ \o o.unions,
            !.window_functions = @ \o o.window_functions, !.ctes = @ \o o.ctes,
            !.cache_options = LastSet(@, o.cache_options),
            !.cache_key = LastSet(@, o.cache_key),
            !.invalid_query_reason = FirstSet(@, o.invalid_query_reason),
            !.invalid_page = FirstSet(@, o.invalid_page),
            !.only_trashed = o.only_trashed \/ (@ /\ ~o.include_trashed),
            !.include_trashed = ~o.only_trashed /\ (o.include_trashed \/ @),
            !.lock_for_update = @ \/ o.lock_for_update]

-------------------------------------------------------------------------------
(* Placeholders.  PostgreSQL numbers them; the others bind by position.    *)

Numbered(params) == [marks |-> [i \in 1..Len(params) |-> i], params |-> params]

rebase_placeholders(db, marks, by) ==
    IF db = "Postgres" THEN [i \in DOMAIN marks |-> marks[i] + by] ELSE marks

\* Mutant: a fragment is spliced in as it was numbered on its own.
SpliceUnmoved(db, sql, fragment) ==
    [marks |-> sql.marks \o fragment.marks, params |-> sql.params \o fragment.params]

\* A fragment goes behind what is already rendered.
Splice(db, sql, fragment) ==
    [marks |-> sql.marks \o rebase_placeholders(db, fragment.marks, Len(sql.params)),
     params |-> sql.params \o fragment.params]

SpliceAll(db, sql, fragments) == FoldLeft(LAMBDA s, f : Splice(db, s, f), sql, fragments)

\* having_clauses
having_values(q, i) ==
    IF \E b \in q.having_typed_bindings : b[1] = i
    THEN <<[typed |-> (CHOOSE b \in q.having_typed_bindings : b[1] = i)[2]]>>
    ELSE q.having_bindings[i]

Sqls(operands) == [i \in DOMAIN operands |-> operands[i].sql]

RECURSIVE GroupValues(_)
GroupValues(g) ==
    FlattenSeq([i \in DOMAIN g.conditions |-> g.conditions[i].values]) \o
    FlattenSeq([i \in DOMAIN g.nested_groups |-> GroupValues(g.nested_groups[i])])

WhereValues(q) ==
    FlattenSeq([i \in DOMAIN q.conditions |-> q.conditions[i].values]) \o
    FlattenSeq([i \in DOMAIN q.or_groups |-> GroupValues(q.or_groups[i])])

HavingValues(q) == [i \in DOMAIN q.having_conditions |-> having_values(q, i)]

\* build_base_select_sql_with_params_for_db
build_base_select(db, q) ==
    LET projection == SpliceAll(db, NoSql, Sqls(q.subquery_select_expressions))
        filtered == Splice(db, projection, Numbered(WhereValues(q)))
    IN  SpliceAll(db, filtered, [i \in DOMAIN q.having_conditions |-> Numbered(HavingValues(q)[i])])

\* An offset is bound, unless it is past i64::MAX; a limit is written.
OffsetValues(q) ==
    IF q.offset_value = None \/ q.offset_value > MaxInteger THEN <<>> ELSE <<q.offset_value>>

append_limit_offset(db, sql, q) == Splice(db, sql, Numbered(OffsetValues(q)))

\* build_select_sql_with_params_for_db
build_select(db, q) ==
    LET prefix == SpliceAll(db, NoSql, Sqls(q.ctes))
        whole == SpliceAll(db, Splice(db, prefix, build_base_select(db, q)), Sqls(q.unions))
    IN  append_limit_offset(db, whole, q)

\* An operand of a UNION: whole when it has unions or CTEs, else with its page.
build_compound_operand(db, q) ==
    IF q.unions # <<>> \/ q.ctes # <<>> THEN build_select(db, q)
    ELSE append_limit_offset(db, build_base_select(db, q), q)

\* Which value each placeholder of the text gets
ReadsOf(db, sql) ==
    IF db = "Postgres" THEN [i \in DOMAIN sql.marks |-> sql.params[sql.marks[i]]] ELSE sql.params

\* ... and which it was written for, left to right.  The operands of q have
\* no operands of their own.
WrittenFor(q) ==
    LET own(o) == WhereValues(o) \o FlattenSeq(HavingValues(o))
        paged(o) == own(o) \o OffsetValues(o)
        all(operands) == FlattenSeq([i \in DOMAIN operands |-> paged(operands[i].query)])
    IN  all(q.ctes) \o all(q.subquery_select_expressions) \o own(q) \o all(q.unions) \o OffsetValues(q)

-------------------------------------------------------------------------------
(* The cache key: what generate_cache_key feeds the hasher, in order.      *)
(* A list hashed item by item has no length in front of it.                *)

Text(kind, x) == <<<<"text", kind, x>>>>
Word(n) == <<<<"word", n>>>>
Flag(b) == <<<<"flag", b>>>>

HashOption(x, Hash(_)) == IF x = None THEN Word(0) ELSE Word(1) \o Hash(x)
HashItems(s, Hash(_)) == FlattenSeq([i \in DOMAIN s |-> Hash(s[i])])
HashVec(s, Hash(_)) == Word(Len(s)) \o HashItems(s, Hash)

hash_where_condition(c) ==
    Text("column", c.column) \o Word(c.operator) \o HashVec(c.values, LAMBDA v : Text("value", v))

CombineIndex(g) == IF g.combine_with = "And" THEN 0 ELSE 1

RECURSIVE hash_or_group(_)
hash_or_group(g) ==
    Word(CombineIndex(g)) \o HashVec(g.conditions, hash_where_condition) \o
    Word(Len(g.nested_groups)) \o FlattenSeq([i \in DOMAIN g.nested_groups |-> hash_or_group(g.nested_groups[i])])

\* The text of an operand has its conditions, and not the values they bind.
OperandText(o) ==
    [o EXCEPT !.conditions = [i \in DOMAIN @ |-> [@[i] EXCEPT !.values = Len(@)]],
              !.offset_value = IF @ = None THEN None ELSE 0]

\* Mutant: the text alone.
hash_fragment_text(kind, text, params) == Text(kind, text) \o Word(Len(params))

hash_fragment(kind, text, params) == Text(kind, text) \o HashVec(params, LAMBDA v : Text("value", v))

hash_operand(o) == hash_fragment("sql", OperandText(o.query), o.sql.params)
hash_subquery(s) == hash_operand(s) \o Text("name", s.alias)
hash_union(u) == hash_operand(u) \o Word(IF u.union_type = "Union" THEN 0 ELSE 1)
hash_cte(c) == Text("name", c.name) \o hash_operand(c) \o Flag(FALSE) \o Word(0)
hash_order(o) == Text("column", o[1]) \o Word(IF o[2] = "Asc" THEN 0 ELSE 1)

generate_cache_key(q) ==
    LET Names(names) == HashVec(names, LAMBDA n : Text("name", n)) IN
    HashOption(q.cache_key, LAMBDA k : Text("name", k)) \o
    HashItems(q.conditions, hash_where_condition) \o HashItems(q.or_groups, hash_or_group) \o
    HashVec(q.order_by, hash_order) \o HashOption(q.limit_value, Word) \o
    HashOption(q.offset_value, Word) \o Flag(q.include_trashed) \o Flag(q.only_trashed) \o
    HashOption(q.select_columns, Names) \o
    Names(q.raw_select_expressions) \o
    HashItems(q.subquery_select_expressions, hash_subquery) \o
    Names(q.joins) \o Names(q.group_by) \o
    FlattenSeq([i \in DOMAIN q.having_conditions |->
                    hash_fragment("having", q.having_conditions[i], having_values(q, i))]) \o
    HashItems(q.unions, hash_union) \o HashItems(q.ctes, hash_cte) \o
    Names(q.window_functions)

\* The statement, its values with it, as far as its rows depend on it
StatementOf(q) ==
    [conditions |-> q.conditions, or_groups |-> q.or_groups, order_by |-> q.order_by,
     limit_value |-> q.limit_value, offset_value |-> q.offset_value,
     select_columns |-> q.select_columns, raw_select_expressions |-> q.raw_select_expressions,
     subquery_select_expressions |-> q.subquery_select_expressions, group_by |-> q.group_by,
     having_conditions |-> q.having_conditions, having_values |-> HavingValues(q),
     joins |-> q.joins, unions |-> q.unions, window_functions |-> q.window_functions,
     ctes |-> q.ctes, include_trashed |-> q.include_trashed, only_trashed |-> q.only_trashed]

-------------------------------------------------------------------------------
(* Building two queries, and the first once more with the calls of the second *)

CONSTANTS
    Targets,        \* [db, soft]: the backend, and M::soft_delete_enabled()
    Calls,
    MaxCalls        \* bound on the calls made

VARIABLES target, built, fragment, replayed, odd

clause_vars == <<target, built, fragment, replayed, odd>>

Do(x, c) ==
    CASE c.call = "where" -> push_condition(x, c.arg)
      [] c.call = "or_where_eq" -> push_or_condition(x, c.arg)
      [] c.call = "or_where" -> or_where(x, c.arg)
      [] c.call = "order_by" -> order_by(x, c.arg[1], c.arg[2], c.arg[3])
      [] c.call = "reorder" -> reorder(x, c.arg[1], c.arg[2])
      [] c.call = "limit" -> limit(x, c.arg)
      [] c.call = "offset" -> offset(x, c.arg)
      [] c.call = "page" -> page(x, c.arg[1], c.arg[2])
      [] c.call = "select" -> select(x, c.arg)
      [] c.call = "distinct" -> distinct(x)
      [] c.call = "select_raw" -> select_raw(x, c.arg)
      [] c.call = "select_subquery" -> select_subquery(x, c.arg[1], c.arg[2], build_select(target.db, c.arg[2]))
      [] c.call = "group_by" -> group_by(x, c.arg)
      [] c.call = "having_raw" -> having_with_params(x, c.arg, <<>>)
      [] c.call = "having" -> having(x, c.arg[1], c.arg[2], c.arg[3], c.arg[4])
      [] c.call = "join" -> join(x, c.arg[1], c.arg[2])
      [] c.call = "union" -> push_compound_operand(x, c.arg[1], c.arg[2], build_compound_operand(target.db, c.arg[2]))
      [] c.call = "union_raw" -> push_raw_union(x, c.arg[1], c.arg[2])
      [] c.call = "with_query" -> with_query(x, "cte", c.arg, build_select(target.db, c.arg))
      [] c.call = "window" -> window(x, c.arg)
      [] c.call = "cache" -> cache(x, c.arg)
      [] c.call = "cache_with_key" -> cache_with_key(x, c.arg[1], c.arg[2])
      [] c.call = "no_cache" -> no_cache(x)
      [] c.call = "with_trashed" -> with_trashed(x)
      [] c.call = "only_trashed" -> only_trashed(x, target.soft)
      [] c.call = "lock_for_update" -> lock_for_update(x)

ClauseInit ==
    /\ target \in Targets
    /\ built = NoClauses /\ fragment = NoClauses /\ replayed = NoClauses
    /\ odd = [calls |-> 0, unset |-> FALSE]

\* A call on the query the fragment is to be applied to
CallQuery(c) ==
    /\ odd.calls < MaxCalls /\ fragment = NoClauses
    /\ built' = Do(built, c) /\ replayed' = built'
    /\ odd' = [odd EXCEPT !.calls = @ + 1]
    /\ UNCHANGED <<target, fragment>>

\* A call on the query that becomes the fragment, with consolidate; two calls
\* take back what an earlier one set, which a fragment cannot say.
CallFragment(c) ==
    /\ odd.calls < MaxCalls
    /\ fragment' = Do(fragment, c) /\ replayed' = Do(replayed, c)
    /\ odd' = [calls |-> odd.calls + 1, unset |-> odd.unset \/ c.call \in {"reorder", "no_cache"}]
    /\ UNCHANGED <<target, built>>

ClauseNext == \E c \in Calls : CallQuery(c) \/ CallFragment(c)

-------------------------------------------------------------------------------
(* Properties                                                              *)

\* Applying a fragment is replaying the calls that made it (Clauses::merge):
\* every slot ends as the setters would leave it, in any order of the calls,
\* except that a fragment cannot take back an ordering or a cache option.
MergeReplays == ~odd.unset => merge(built, fragment) = replayed

\* Every placeholder of the statement gets the value it was written for, on
\* each backend, however CTEs, subqueries, filters, HAVING clauses, unions and
\* an offset come together (build_select_sql_with_params_for_db).
ValuesLineUp == ReadsOf(target.db, build_select(target.db, replayed)) = WrittenFor(replayed)

FragmentsComeTogether == MergeReplays /\ ValuesLineUp

\* Two queries share a cache key only when they read the same rows: what is
\* hashed item by item cannot be taken for what is hashed after it.
KeysTellQueriesApart ==
    generate_cache_key(built) = generate_cache_key(fragment)
        => StatementOf(built) = StatementOf(fragment)
===============================================================================
