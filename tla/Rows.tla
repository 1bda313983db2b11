-------------------------------- MODULE Rows --------------------------------
(***************************************************************************)
(* What the terminal calls of a query read: the models of get, and count,  *)
(* exists, the aggregates, pluck and paginate, each with a statement of    *)
(* its own made from the same clauses; and the projections get refuses.    *)
(* (src/src/query: builder, rendering, aggregations, shaped_reads)         *)
(* A database has two tables, "m" of the model and "r" that it may join;   *)
(* here every reference has its qualifier.                                 *)
(* Then the bulk deletes, soft deletes, restores and forced deletes of a   *)
(* query: what each refuses, and which rows it changes (execution,         *)
(* mutation_safety; src/src/soft_delete.rs).                               *)
(***************************************************************************)
EXTENDS Projections

\* A column of the model or of the joined table
ColumnsAt(qualifier) == IF qualifier = "m" THEN ModelColumns ELSE registered_column_names(<<"", "r">>)

NoRow == [m |-> [c \in Range(ModelColumns) |-> None], r |-> [c \in Range(ColumnsAt("r")) |-> None]]
ColumnAt(row, source) == row[source[1]][source[2]]
ColumnOutputs(table) == Mapped(ColumnsAt(table), LAMBDA c : Output(c, <<table, c>>))

-------------------------------------------------------------------------------
(* The rows of a statement (the database's side)                           *)

\* Everything the statement selects, wildcards and all
Selected(q) ==
    LET of(e) == IF ~IsWildcard(e) THEN <<[kind |-> e.kind, output |-> Output(OutputName(e), <<e.table, e.column>>)]>>
                 ELSE Mapped((IF e.table # "r" THEN ColumnOutputs("m") ELSE <<>>) \o
                             (IF e.table # "m" /\ q.joins # <<>> THEN ColumnOutputs("r") ELSE <<>>),
                             LAMBDA o : [kind |-> "column", output |-> o])
    IN  IF ImplicitProjection(q) THEN of(Entry("wildcard", "m", "", None))
        ELSE FlattenSeq(Mapped(Entries(q), of))

FromRows(d, q) ==
    IF q.joins = <<>> THEN Mapped(d.m, LAMBDA row : [NoRow EXCEPT !.m = row])
    ELSE FlattenSeq(Mapped(d.m, LAMBDA row :
            LET matches == SelectSeq(d.r, LAMBDA o : o.owner = row.id)
            IN  IF matches = <<>> /\ q.joins[1].kind = "left" THEN <<[NoRow EXCEPT !.m = row]>>
                ELSE Mapped(matches, LAMBDA o : [m |-> row, r |-> o])))

Matches(row, c) == ColumnAt(row, c.column) = c.values[1]

WhereRows(d, q) ==
    SelectSeq(FromRows(d, q), LAMBDA row :
        /\ \A c \in Range(q.conditions) : Matches(row, c)
        /\ \A g \in Range(q.or_groups) : \E c \in Range(g.conditions) : Matches(row, c))

Aggregates(q) == q.having_conditions # <<>> \/ \E e \in Range(Entries(q)) : e.column = "COUNT(*)"
GroupKey(q, row) == Mapped(q.group_by, LAMBDA column : ColumnAt(row, column))

\* One group a row, unless the statement groups or aggregates
GroupsOf(q, rows) ==
    IF q.group_by # <<>>
    THEN Mapped(Deduplicated(Mapped(rows, LAMBDA row : GroupKey(q, row))),
                LAMBDA key : SelectSeq(rows, LAMBDA row : GroupKey(q, row) = key))
    ELSE IF Aggregates(q) THEN <<rows>> ELSE Mapped(rows, LAMBDA row : <<row>>)

\* A row of the result, with the first source row it was made of
RowFrom(q, first, size) ==
    [source |-> first,
     out |-> Mapped(Selected(q), LAMBDA s :
                IF s.kind = "column" THEN ColumnAt(first, s.output.source)
                ELSE IF s.output.source[2] = "COUNT(*)" THEN size ELSE 1)]
ResultRow(q, group) == RowFrom(q, IF group = <<>> THEN NoRow ELSE group[1], Len(group))

\* Rows that select the same are one.
Merged(rows) ==
    FoldLeft(LAMBDA kept, row : IF \E k \in Range(kept) : k.out = row.out THEN kept ELSE Append(kept, row),
             <<>>, rows)

MergedIf(merges, rows) == IF merges THEN Merged(rows) ELSE rows

BaseRows(d, q) ==
    MergedIf(is_distinct(q),
             Mapped(SelectSeq(GroupsOf(q, WhereRows(d, q)), LAMBDA g :
                        \A i \in DOMAIN q.having_conditions : Len(g) > q.having_bindings[i][1]),
                    LAMBDA g : ResultRow(q, g)))

\* The position of an output of the model's column
OutputAt(q, source) == SelectInSeq(Selected(q), LAMBDA s : s.output.source = source)

\* What a row is ordered by, descending columns negated, NULL as zero
OrderValue(q, row, source) ==
    IF q.unions = <<>> THEN ColumnAt(row.source, source) ELSE row.out[OutputAt(q, source)]
Rank(value, direction) == IF value = None THEN 0 ELSE IF direction = "Asc" THEN value ELSE -value
Ranked(q, row) ==
    [row |-> row, ranks |-> Mapped(q.order_by, LAMBDA o : Rank(OrderValue(q, row, o[1]), o[2]))]
Precedes(x, y) == \E i \in DOMAIN x : x[i] < y[i] /\ \A j \in 1..(i - 1) : x[j] = y[j]
Place(sorted, r) ==
    InsertAt(sorted, Len(SelectSeq(sorted, LAMBDA x : ~Precedes(r.ranks, x.ranks))) + 1, r)

OrderedRows(q, rows) ==
    IF q.order_by = <<>> THEN rows
    ELSE Mapped(FoldLeft(Place, <<>>, Mapped(rows, LAMBDA row : Ranked(q, row))), LAMBDA r : r.row)

PageOf(q, rows) ==
    LET from == IF q.offset_value = None THEN 0 ELSE q.offset_value
        upto == IF q.limit_value = None THEN Len(rows) ELSE from + q.limit_value
    IN  SubSeq(rows, from + 1, IF upto < Len(rows) THEN upto ELSE Len(rows))

\* An operand has no operands of its own.
OwnRows(q, rows) == PageOf(q, OrderedRows(q, rows))
SelectRows(d, q) ==
    OwnRows(q, FoldLeft(LAMBDA rows, u :
                      MergedIf(u.union_type = "Union", rows \o OwnRows(u.query, BaseRows(d, u.query))),
                  BaseRows(d, q), q.unions))

OutputColumn(rows, at) == Mapped(rows, LAMBDA row : row.out[at])
ReadByName(d, q, name) ==
    OutputColumn(SelectRows(d, q), SelectInSeq(Selected(q), LAMBDA s : s.output.name = name))

-------------------------------------------------------------------------------
(* The terminals                                                           *)

RawOne == Entry("expression", "", "1", None)

discarding_order(q) == [q EXCEPT !.order_by = <<>>]
Unpaged(q) == [q EXCEPT !.limit_value = None, !.offset_value = None]

\* Mutant: DISTINCT is not looked for.
CountsPlainlyDistinct(q) ==
    /\ q.unions = <<>> /\ q.ctes = <<>> /\ q.group_by = <<>> /\ q.having_conditions = <<>>
    /\ raw_projection(q) = <<>> /\ ~q.lock_for_update

CountsPlainly(q) ==
    /\ q.unions = <<>> /\ q.ctes = <<>> /\ q.group_by = <<>> /\ q.having_conditions = <<>>
    /\ q.raw_select_expressions = <<>> /\ ~q.lock_for_update

\* Groups are counted without their columns.
CountedQuery(bare) ==
    IF bare.group_by # <<>> /\ ~has_explicit_projection(bare)
    THEN [bare EXCEPT !.select_columns = None, !.raw_select_expressions = <<RawOne>>] ELSE bare
RowCount(d, q) == Len(IF CountsPlainly(q) THEN WhereRows(d, q) ELSE SelectRows(d, q))

\* build_count_sql_with_params_for_db: COUNT(*) over the filtered rows, or
\* over the whole statement.
count(d, q) == RowCount(d, CountedQuery(Unpaged(discarding_order(q))))

\* build_exists_sql_with_params_for_db: the projection is kept where the rows
\* depend on it.
ExistsQuery(bare) ==
    IF \/ bare.unions # <<>> \/ raw_projection(bare) # <<>>
       \/ bare.having_conditions # <<>> /\ has_explicit_projection(bare)
    THEN bare
    ELSE [bare EXCEPT !.select_columns = None, !.raw_select_expressions = <<RawOne>>,
                      !.subquery_select_expressions = <<>>, !.window_functions = <<>>]
exists(d, q) == SelectRows(d, ExistsQuery(Unpaged(discarding_order(q)))) # <<>>

aggregate_needs_derived_table(q) ==
    \/ q.unions # <<>> \/ q.ctes # <<>> \/ q.limit_value # None \/ q.offset_value # None
    \/ q.lock_for_update \/ is_distinct(q)

\* build_projected_aggregate_sql: the values the aggregate is over
AggregateInput(d, q, source) ==
    IF ~aggregate_needs_derived_table(q)
    THEN Mapped(WhereRows(d, q), LAMBDA row : ColumnAt(row, source))
    ELSE IF rows_fixed_by_projection(q)
    THEN ReadByName(d, q, derived_output_name(q, source))
    ELSE LET inner == select_raw(q, Entry("column", source[1], source[2], "tideorm_aggregate_input_0"))
         IN  Mapped(SelectRows(d, inner), LAMBDA row : Last(row.out))

AggregateIsRefused(q, source) ==
    ~AggregateIsScalar(q) \/ (rows_fixed_by_projection(q) /\ derived_output_name(q, source) = None)

\* pluck: with DISTINCT beside other outputs the column's values are told
\* apart here, and the page is taken of what is left.
ToldApartHere(q) ==
    /\ is_distinct(q)
    /\ \/ q.unions # <<>> \/ raw_projection(q) # <<>>
       \/ q.subquery_select_expressions # <<>> \/ q.window_functions # <<>>
PluckedFrom(d, asked, source) ==
    IF ToldApartHere(asked)
    THEN PageOf(asked, Deduplicated(ReadByName(d, Unpaged(asked), derived_output_name(asked, source))))
    ELSE ReadByName(d, asked, derived_output_name(asked, source))
pluck(d, q, source) ==
    PluckedFrom(d, IF q.unions # <<>> THEN q ELSE select(q, <<Entry("column", source[1], source[2], None)>>), source)

last_page(total, per_page) ==
    IF per_page = 0 THEN 1
    ELSE LET whole == (total + per_page - 1) \div per_page IN IF whole > 1 THEN whole ELSE 1

paginate(d, q, number, per_page) ==
    [items |-> SelectRows(d, page(q, number, per_page)), total |-> count(d, q),
     has_next_page |-> number < last_page(count(d, q), per_page)]
-------------------------------------------------------------------------------
(* Properties                                                              *)

\* The queries the database takes: one join at most, columns of the tables it
\* has, as many outputs in each arm of a union, and no DISTINCT over columns
\* that are not grouped.
Refers(q, source) == source[1] = "m" \/ q.joins # <<>>
IsStatement(q) ==
    /\ is_executable(q) /\ Len(q.joins) <= 1 /\ NamesAreDistinct(q)
    /\ is_distinct(q) => DistinctOrderIsSelected(q) /\ q.group_by = <<>>
    /\ \A e \in Range(Entries(q)) : e.table = "r" => q.joins # <<>>
    /\ \A c \in Range(q.conditions) \cup UNION {Range(g.conditions) : g \in Range(q.or_groups)} : Refers(q, c.column)
    /\ \A c \in Range(q.group_by) : Refers(q, c)
    /\ \A o \in Range(q.order_by) : Refers(q, o[1]) /\ (q.unions # <<>> => OutputAt(q, o[1]) # 0)
    /\ \A u \in Range(q.unions) : Len(Selected(u.query)) = Len(Selected(q))

\* The wildcard of a joined table alone: a column of the model is then read by
\* its name, which may be one of that table's.
SelectsOtherTable(q) ==
    /\ rows_fixed_by_projection(q)
    /\ \E e \in Range(Entries(q)) : IsWildcard(e) /\ e.table = "r"

CountsRows(q) == \E e \in Range(Entries(q)) : e.column = "COUNT(*)"

\* count() and exists() tell how many rows get() returns without its page;
\* an aggregate is over the column's values in the rows get() returns; and
\* the pages of paginate() laid end to end are those rows, the last one and
\* no other saying that none follow.
AggregateAgrees(d, q, rows, source) ==
    AggregateIsRefused(q, source) \/ CountsRows(q) \/ SelectsOtherTable(q) \/
    ToBag(AggregateInput(d, q, source)) =
        ToBag(IF rows_fixed_by_projection(q) THEN OutputColumn(rows, OutputAt(q, source))
              ELSE Mapped(rows, LAMBDA row : ColumnAt(row.source, source)))
PagesAgree(pages, unpaged) ==
    /\ FlattenSeq(Mapped(pages, LAMBDA p : p.items)) = unpaged
    /\ \A n \in DOMAIN pages : pages[n].has_next_page <=> n < Len(pages)
TerminalsAgree(d, q, unpaged) ==
    /\ count(d, q) = Len(unpaged)
    /\ exists(d, q) <=> unpaged # <<>>
    /\ \A source \in {<<"m", "id">>, <<"m", "a">>} : AggregateAgrees(d, q, SelectRows(d, q), source)
    /\ PagesAgree([n \in 1..last_page(Len(unpaged), 2) |-> paginate(d, q, n, 2)], unpaged)

\* pluck() is the column of the rows, and of a distinct() query its values
\* without repetition, before the page is taken.
PluckAgrees(d, q, source) ==
    LET asked == select(q, <<Entry("column", source[1], source[2], None)>>)
        plain == [asked EXCEPT !.raw_select_expressions = <<>>]
        Values(rows) == Mapped(rows, LAMBDA row : ColumnAt(row.source, source))
    IN  q.unions = <<>> /\ ~CountsRows(q) /\ IsStatement(asked) =>
            pluck(d, q, source) = IF ~is_distinct(q) THEN Values(SelectRows(d, q))
                                  ELSE PageOf(q, Deduplicated(Values(SelectRows(d, Unpaged(plain)))))

ReadsAgree(ds, q) ==
    IsStatement(q) =>
        \A d \in ds : TerminalsAgree(d, q, SelectRows(d, Unpaged(q))) /\ PluckAgrees(d, q, <<"m", "a">>)

\* A model read by get() has every column once, from its own table unless an
\* alias says otherwise; unless a raw expression without an alias was selected.
ModelsAreWhole(q) ==
    /\ IsStatement(q) /\ ensure_projection_covers_model(q)
    /\ \A e \in Range(raw_projection(q)) : e.alias # None
    => \A c \in Range(ModelColumns) :
          LET at == {i \in DOMAIN Selected(q) : Selected(q)[i].output.name = c}
          IN  \/ /\ Cardinality(at) = 1
                 /\ \A i \in at : \/ Selected(q)[i].output.source = <<"m", c>>
                                  \/ \E e \in Range(Entries(q)) : e.alias = c
              \/ at = {} /\ \E s \in Range(q.subquery_select_expressions) : s.alias = c
              \/ at = {} /\ \E w \in Range(q.window_functions) : w.alias = c

-------------------------------------------------------------------------------
(* Mutations.  A row is [a, deleted]; a condition is on a, NotIn of no     *)
(* values the vacuous one.                                                 *)

update_blocker(q) ==
    \/ q.joins # <<>> \/ q.unions # <<>> \/ q.ctes # <<>> \/ q.group_by # <<>>
    \/ q.having_conditions # <<>> \/ q.window_functions # <<>>
    \/ q.limit_value # None \/ q.offset_value # None

mutation_blocker(q) ==
    update_blocker(q) \/ has_explicit_projection(q) \/ is_distinct(q) \/ q.order_by # <<>>

\* ensure_query_is_executable and ensure_mutation_query_is_safe
IsSafe(q) == is_executable(q) /\ ~mutation_blocker(q)

IsVacuous(c) == c.operator = "NotIn" /\ c.values = <<>>

\* Mutant: any condition is taken for a filter.
has_explicit_mutation_filters_any(q) == q.conditions # <<>> \/ q.or_groups # <<>>

\* A condition that may exclude a row, or a group of which every branch may
has_explicit_mutation_filters(q) ==
    \/ \E c \in Range(q.conditions) : ~IsVacuous(c)
    \/ \E g \in Range(q.or_groups) : \A c \in Range(g.conditions) : ~IsVacuous(c)

\* only_trashed() is a filter of its own, where there is a trash.
ensure_trash_mutation_has_filters(q, soft) ==
    IF q.only_trashed THEN soft ELSE has_explicit_mutation_filters(q)

query_scope_for(q, soft) ==
    IF ~soft THEN "Disabled" ELSE IF q.only_trashed THEN "OnlyTrashed"
    ELSE IF q.include_trashed THEN "WithTrashed" ELSE "ActiveOnly"

\* build_soft_delete_expression
InScope(q, soft, row) ==
    CASE query_scope_for(q, soft) = "ActiveOnly" -> ~row.deleted
      [] query_scope_for(q, soft) = "OnlyTrashed" -> row.deleted
      [] OTHER -> TRUE

Keeps(c, row) == (row.a \in Range(c.values)) # (c.operator = "NotIn")

Filters(q, row) ==
    /\ \A c \in Range(q.conditions) : Keeps(c, row)
    /\ \A g \in Range(q.or_groups) : \E c \in Range(g.conditions) : Keeps(c, row)

\* is_unrestricted_where_body: no condition and no scope is rendered
RendersNothing(q, soft) ==
    /\ q.conditions = <<>> /\ q.or_groups = <<>>
    /\ query_scope_for(q, soft) \in {"Disabled", "WithTrashed"}

live_rows_only(q) == [q EXCEPT !.include_trashed = FALSE, !.only_trashed = FALSE]

Refused == [kind |-> "refused"]
DeleteWhere(q) == [kind |-> "delete", query |-> q]
StampWhere(q) == [kind |-> "stamp", query |-> q]
ClearWhere(q) == [kind |-> "clear", query |-> q]

soft_delete(q, soft) ==
    LET live == live_rows_only(q)
    IN  IF /\ IsSafe(q) /\ soft /\ has_explicit_mutation_filters(q) /\ ~q.only_trashed
           /\ ~RendersNothing(live, soft)
        THEN StampWhere(live) ELSE Refused

delete(q, soft) ==
    IF soft THEN (IF q.only_trashed THEN Refused ELSE soft_delete(q, soft))
    ELSE IF IsSafe(q) /\ has_explicit_mutation_filters(q) /\ ~RendersNothing(q, soft)
    THEN DeleteWhere(q) ELSE Refused

delete_all(q, soft) ==
    IF ~IsSafe(q) \/ has_explicit_mutation_filters(q) \/ (soft /\ q.only_trashed) THEN Refused
    ELSE IF soft THEN StampWhere(live_rows_only(q)) ELSE DeleteWhere(q)

\* Mutant: the scope is left as the caller set it.
restore_in_scope(q, soft) ==
    IF IsSafe(q) /\ soft /\ ensure_trash_mutation_has_filters(q, soft) THEN ClearWhere(q) ELSE Refused

restore(q, soft) ==
    IF IsSafe(q) /\ soft /\ ensure_trash_mutation_has_filters(q, soft)
    THEN ClearWhere([q EXCEPT !.only_trashed = TRUE, !.include_trashed = FALSE]) ELSE Refused

force_delete(q, soft) ==
    LET scoped == IF q.only_trashed THEN q ELSE [q EXCEPT !.include_trashed = TRUE]
    IN  IF IsSafe(q) /\ ensure_trash_mutation_has_filters(q, soft) /\ ~RendersNothing(scoped, soft)
        THEN DeleteWhere(scoped) ELSE Refused

\* build_where_query: an update's own scope and conditions on those of its query
build_where_query(q, update) ==
    LET scoped == CASE update.include_trashed = None -> q
                    [] update.include_trashed -> with_trashed(q)
                    [] OTHER -> live_rows_only(q)
    IN  FoldLeft(push_or_condition, [scoped EXCEPT !.conditions = @ \o update.conditions], update.or_conditions)

\* BatchUpdateBuilder::execute.  The query's order stays, for the limit; without
\* UPDATE .. LIMIT the limit is a subquery of primary keys.
update_all(q, update, db, single_key) ==
    LET where == build_where_query(q, update)
    IN  IF \/ update_blocker(q) \/ ~is_executable(where) \/ ~has_explicit_mutation_filters(where)
           \/ (update.limit # None /\ db \notin {"MySQL", "MariaDB"} /\ ~single_key)
        THEN Refused ELSE [kind |-> "update", query |-> where, limit |-> update.limit]

\* The rows a statement writes
Written(statement, soft, rows) ==
    IF statement = Refused THEN {}
    ELSE {row \in rows : InScope(statement.query, soft, row) /\ Filters(statement.query, row)}

-------------------------------------------------------------------------------
(* Properties                                                              *)

\* A bulk mutation writes the rows its filters keep and no others; a soft
\* delete only live ones, so that no trashed row gets a new stamp; a restore
\* only trashed ones; and what is not delete_all() or the trash has a filter
\* that spares some row (mutation_safety.rs).
MutationsKeepTheirScope(q, soft, rows) ==
    LET Of(statement) == Written(statement, soft, rows)
        Kept == {row \in rows : Filters(q, row)}
        Live == {row \in rows : ~row.deleted}
    IN  /\ soft => Of(delete(q, soft)) \subseteq Kept \cap Live
        /\ Of(soft_delete(q, soft)) \subseteq Kept \cap Live
        /\ Of(restore(q, soft)) \subseteq Kept \ Live
        /\ Of(force_delete(q, soft)) \subseteq Kept
        /\ q.only_trashed => Of(force_delete(q, soft)) \cap Live = {} /\ Of(delete_all(q, soft)) = {}
        /\ delete_all(q, soft) # Refused =>
              Of(delete_all(q, soft)) = IF soft THEN Live ELSE rows
        /\ \A op \in {delete(q, soft), soft_delete(q, soft)} : op # Refused => rows \ Kept # {}
        /\ \A op \in {restore(q, soft), force_delete(q, soft)} :
              op # Refused /\ ~q.only_trashed => rows \ Kept # {}

\* So does a bulk update: its own scope wins over its query's, its conditions
\* narrow it further, and no update is sent without a filter of either.
UpdatesKeepTheirScope(q, update, soft, rows) ==
    LET statement == update_all(q, update, "SQLite", TRUE)
        changed == Written(statement, soft, rows)
    IN  /\ \A row \in changed :
            /\ update.or_conditions = <<>> => Filters(q, row) /\ \A c \in Range(update.conditions) : Keeps(c, row)
            /\ soft /\ update.include_trashed = FALSE => ~row.deleted
            /\ update.include_trashed = None => InScope(q, soft, row)
        /\ statement # Refused => \E row \in rows : ~Filters(statement.query, row)
===============================================================================
