----------------------------- MODULE Projections -----------------------------
(***************************************************************************)
(* What a query's columns stand for: the outputs its projection names, the *)
(* table and column each is read from, and with them what may be compared, *)
(* how a result column is decrypted and by which type it is decoded.       *)
(* (src/src/query: builder, aggregations_unions, predicates, execution;    *)
(*  model/mod, sync/registry)                                              *)
(* A reference is <<qualifier, name>>, the qualifier "" when it is bare.   *)
(***************************************************************************)
EXTENDS Clauses

(* The compiled models: the query's own, one with a column of the same     *)
(* name, and one of a same-named table in another schema.  Ciphertext is   *)
(* randomized: two of one plaintext differ.                                *)
Main == <<"", "m">>
Declared(table) ==
    CASE table = Main -> [id |-> "big", a |-> "integer", s |-> "text"]
      [] table = <<"", "r">> -> [owner |-> "big", a |-> "date", t |-> "char"]
      [] table = <<"x", "m">> -> [id |-> "uuid", s |-> "json"]
EncryptedColumns == {<<Main, "s">>, <<<<"", "r">>, "t">>}

\* M::column_names
ModelColumns == <<"id", "a", "s">>
registered_column_names(table) ==
    CASE table = Main -> ModelColumns
      [] table = <<"", "r">> -> <<"owner", "a", "t">>
      [] table = <<"x", "m">> -> <<"id", "s">>

\* A Rust field may have another name than its column.
canonical_column_name(name) ==
    IF name = "field" THEN "s" ELSE IF Contains(ModelColumns, name) THEN name ELSE None
column_named(name) == IF canonical_column_name(name) = None THEN name ELSE canonical_column_name(name)

\* The scope a column is encrypted in: __encrypted_column of its model
EncryptedIn(table, name) == IF <<table, name>> \in EncryptedColumns THEN <<table[2], name>> ELSE None
\* registered_column_type
TypeIn(table, name) == IF name \in DOMAIN Declared(table) THEN Declared(table)[name] ELSE None

Deduplicated(s) == FoldLeft(LAMBDA seen, x : IF Contains(seen, x) THEN seen ELSE Append(seen, x), <<>>, s)
\* F of each element, in order; the concatenation makes TLC compute it once.
Mapped(s, F(_)) == [i \in DOMAIN s |-> F(s[i])] \o <<>>

-------------------------------------------------------------------------------
(* Tables                                                                  *)

JoinOf(kind, table, alias) == [kind |-> kind, table |-> table, alias |-> alias]
\* JoinClause::qualifier
QualifierOf(j) == IF j.alias # None THEN j.alias ELSE j.table[2]

OwnsReference(qualifier) == qualifier \in {"", "m"}

known_qualifiers(q) == {"m"} \cup {QualifierOf(j) : j \in Range(q.joins)}

join_named(q, qualifier) == SelectSeq(q.joins, LAMBDA j : QualifierOf(j) = qualifier)

\* Mutant: a table of another schema is taken for the model's.
is_model_table_qualifier_any_schema(q, qualifier) ==
    qualifier = "m" \/ \E j \in Range(q.joins) : QualifierOf(j) = qualifier /\ j.table[2] = "m"

\* Whether a qualifier names the model's table, a self-join's alias included
is_model_table_qualifier(q, qualifier) ==
    qualifier = "m" \/ \E j \in Range(q.joins) : QualifierOf(j) = qualifier /\ j.table = Main

joined_column_names(q, j) ==
    IF is_model_table_qualifier(q, QualifierOf(j)) THEN ModelColumns ELSE registered_column_names(j.table)

\* Where an input is read, resolved in this query's scope
encrypted_source_column(q, source) ==
    IF is_model_table_qualifier(q, source[1]) THEN EncryptedIn(Main, column_named(source[2]))
    ELSE IF join_named(q, source[1]) = <<>> THEN None
    ELSE EncryptedIn(join_named(q, source[1])[1].table, source[2])

column_type(q, source) ==
    IF OwnsReference(source[1]) /\ canonical_column_name(source[2]) # None
    THEN TypeIn(Main, column_named(source[2]))
    ELSE IF join_named(q, source[1]) = <<>> THEN None
    ELSE TypeIn(join_named(q, source[1])[1].table, source[2])

\* validate_model_column_reference: a name of the model, or a known qualifier
IsReference(q, ref) ==
    IF OwnsReference(ref[1]) THEN canonical_column_name(ref[2]) # None ELSE ref[1] \in known_qualifiers(q)

-------------------------------------------------------------------------------
(* Outputs                                                                 *)

\* The typed and the raw entries of the projection
Typed(q) == IF q.select_columns = None THEN <<>> ELSE q.select_columns
Entries(q) == Typed(q) \o raw_projection(q)
IsWildcard(e) == e.kind = "wildcard"

\* Whether the model's own columns are rendered: build_select_clause_sql
ImplicitProjection(q) == Entries(q) = <<>> /\ q.subquery_select_expressions = <<>>

Output(name, source) == [name |-> name, source |-> source]

column_source(ref) == <<IF ref[1] = "" THEN "m" ELSE ref[1], ref[2]>>

\* named_projection_output
OutputName(e) ==
    IF e.alias # None THEN e.alias ELSE IF OwnsReference(e.table) THEN column_named(e.column) ELSE e.column
joined_wildcard_outputs(q, e) ==
    FlattenSeq(Mapped(SelectSeq(q.joins, LAMBDA j : e.table \in {"", QualifierOf(j)}),
                      LAMBDA j : Mapped(joined_column_names(q, j), LAMBDA c : Output(c, <<QualifierOf(j), c>>))))
EntryOutputs(q, e) ==
    CASE e.kind = "column" -> <<Output(OutputName(e), column_source(<<e.table, e.column>>))>>
      [] e.kind = "expression" -> IF e.alias = None THEN <<>> ELSE <<Output(e.alias, None)>>
      [] IsWildcard(e) -> joined_wildcard_outputs(q, e)

\* A window: its function, the column that reads, and what it goes by.
WindowOf(alias, function, column, partition_by, sorted_by) ==
    [alias |-> alias, function |-> function, column |-> column, partition_by |-> partition_by, order_by |-> sorted_by]
\* WindowFunctionType::value_column
value_column(w) == IF w.function \in {"LAG", "FIRST_VALUE", "MAX"} THEN w.column ELSE None

validate_select_value(q, e) == IsWildcard(e) \/ IsReference(q, <<e.table, e.column>>)

\* What the query is known to select besides the model's own columns; of a
\* scalar subquery, what its one column reads there.
RECURSIVE projection_outputs(_)
projection_outputs(q) ==
    LET source(s) == IF Len(projection_outputs(s.query)) = 1 THEN projection_outputs(s.query)[1].source ELSE None
    IN  FlattenSeq(Mapped(Entries(q), LAMBDA e : EntryOutputs(q, e))) \o
        Mapped(q.subquery_select_expressions, LAMBDA s : Output(s.alias, source(s))) \o
        Mapped(q.window_functions, LAMBDA w :
            Output(w.alias, IF value_column(w) = None THEN None ELSE column_source(value_column(w))))

Named(q, name) == SelectSeq(projection_outputs(q), LAMBDA o : o.name = name)
SubqueriesNamed(q, name) == SelectSeq(q.subquery_select_expressions, LAMBDA s : s.alias = name)

\* Mutant: a subquery's column is looked up in the query around it.
projected_encrypted_column_outside(q, o) ==
    IF o.source = None THEN None ELSE encrypted_source_column(q, o.source)

\* The scope an output is encrypted in, for a subquery's column as captured
\* with its own tables
RECURSIVE projected_encrypted_column(_, _)
projected_encrypted_column(q, o) ==
    LET own == SubqueriesNamed(q, o.name)
        captured == projection_outputs(own[1].query)
    IN  IF own # <<>>
        THEN IF Len(captured) = 1 THEN projected_encrypted_column(own[1].query, captured[1]) ELSE None
        ELSE IF o.source = None THEN None ELSE encrypted_source_column(q, o.source)

RECURSIVE projected_column_type(_, _)
projected_column_type(q, name) ==
    LET own == SubqueriesNamed(q, name)
        captured == projection_outputs(own[1].query)
    IN  IF own # <<>>
        THEN IF Len(captured) = 1 THEN projected_column_type(own[1].query, captured[1].name) ELSE None
        ELSE IF Named(q, name) = <<>> THEN None
        ELSE IF Named(q, name)[1].source = None THEN None ELSE column_type(q, Named(q, name)[1].source)

\* How often the model's columns are selected implicitly or by wildcard
model_projection_count(q) ==
    (IF ImplicitProjection(q) THEN 1 ELSE 0) +
    Len(SelectSeq(Entries(q), LAMBDA e : IsWildcard(e) /\ OwnsReference(e.table)))

projection_is_closed(q) == has_explicit_projection(q) /\ \A e \in Range(Entries(q)) : ~IsWildcard(e)

\* validate_projection_names
NamesAreDistinct(q) ==
    LET named == Mapped(projection_outputs(q), LAMBDA o : o.name)
        names == IF model_projection_count(q) = 0 THEN named ELSE named \o ModelColumns
    IN  model_projection_count(q) < 2 /\ IsInjective(names)

\* Mutant: a column of a joined table is taken for the model's.
ensure_projection_covers_model_any_table(q) ==
    \/ ImplicitProjection(q)
    \/ \E e \in Range(raw_projection(q)) : e.alias = None
    \/ \E e \in Range(Typed(q)) : IsWildcard(e)
    \/ Range(ModelColumns) \subseteq {OutputName(e) : e \in Range(Entries(q))}

\* get: a raw expression without an alias may name anything, and passes.
ensure_projection_covers_model(q) ==
    LET OwnWildcard(e) == IsWildcard(e) /\ (e.table = "m" \/ (e.table = "" /\ q.joins = <<>>))
        wild == {e \in Range(Typed(q)) : IsWildcard(e)}
        covered == {e.alias : e \in Range(Entries(q))} \cup
                   {column_named(e.column) : e \in {e \in Range(Typed(q)) : e.alias = None /\ OwnsReference(e.table)}} \cup
                   {s.alias : s \in Range(q.subquery_select_expressions)} \cup
                   {w.alias : w \in Range(q.window_functions)}
    IN  \/ ImplicitProjection(q)
        \/ \E e \in Range(raw_projection(q)) : e.alias = None
        \/ /\ \A e \in wild : OwnWildcard(e)
           /\ wild # {} \/ Range(ModelColumns) \subseteq covered

ensure_chunk_key_is_original(q) ==
    model_projection_count(q) > 0 \/ Contains(projection_outputs(q), Output("id", <<"m", "id">>))

rows_fixed_by_projection(q) == is_distinct(q) \/ q.unions # <<>>

\* The name a column has among the outputs, if it is selected
derived_output_name(q, ref) ==
    LET own == OwnsReference(ref[1])
        source == IF own THEN <<"m", column_named(ref[2])>> ELSE ref
        Reads(o) == /\ o.source # None
                    /\ (IF o.source[1] = "m" THEN <<"m", column_named(o.source[2])>> ELSE o.source) = source
        First(selected) ==
            IF selected # <<>> THEN selected[1].name
            ELSE IF ~projection_is_closed(q) /\ own THEN source[2] ELSE None
    IN  IF ref[1] = "" /\ Named(q, ref[2]) # <<>> THEN ref[2]
        ELSE First(SelectSeq(projection_outputs(q), Reads))

-------------------------------------------------------------------------------
(* What may be compared                                                    *)

\* The column an aggregate reads: an output of rows the projection fixes
InputSource(ref) ==
    IF OwnsReference(ref[1]) /\ canonical_column_name(ref[2]) # None THEN <<"m", column_named(ref[2])>>
    ELSE IF ref[1] # "" THEN ref ELSE None
OutputSource(ref, output, named) ==
    IF output = None THEN None ELSE IF named # <<>> THEN named[1].source ELSE InputSource(ref)
OutputNamed(q, output) == IF output = None THEN <<>> ELSE Named(q, output)
SourceUnder(q, ref, output) == OutputSource(ref, output, OutputNamed(q, output))
aggregate_source(q, ref) ==
    IF rows_fixed_by_projection(q) THEN SourceUnder(q, ref, derived_output_name(q, ref)) ELSE InputSource(ref)

IsComparable(q, source, named) ==
    IF named # <<>> THEN projected_encrypted_column(q, named[1]) = None
    ELSE source # None => encrypted_source_column(q, source) = None
ComparableUnder(q, ref, output) == IsComparable(q, SourceUnder(q, ref, output), OutputNamed(q, output))
ensure_encrypted_column_is_comparable(q, ref) ==
    IF rows_fixed_by_projection(q) THEN ComparableUnder(q, ref, derived_output_name(q, ref))
    ELSE IsComparable(q, InputSource(ref), IF InputSource(ref) = None THEN Named(q, ref[2]) ELSE <<>>)

\* Mutant: an output's name is looked for before the inputs.
ensure_encrypted_input_is_comparable_output_first(q, ref) ==
    IF ref[1] = "" /\ Named(q, ref[2]) # <<>>
    THEN projected_encrypted_column(q, Named(q, ref[2])[1]) = None
    ELSE encrypted_source_column(q, column_source(ref)) = None

\* ORDER BY, GROUP BY and HAVING read inputs, the model's before a joined
\* table's and either before an output of that name.
ensure_encrypted_input_is_comparable(q, ref) ==
    LET joined == {j \in Range(q.joins) : Contains(joined_column_names(q, j), ref[2])}
    IN  IF ref[1] # "" THEN encrypted_source_column(q, ref) = None
        ELSE IF canonical_column_name(ref[2]) # None
        THEN encrypted_source_column(q, <<"m", column_named(ref[2])>>) = None
        ELSE IF joined # {} THEN \A j \in joined : encrypted_source_column(q, <<QualifierOf(j), ref[2]>>) = None
        ELSE Named(q, ref[2]) # <<>> => projected_encrypted_column(q, Named(q, ref[2])[1]) = None

\* ensure_distinct_projection_is_comparable: the model's columns cannot be.
DistinctIsComparable(q) ==
    /\ model_projection_count(q) > 0 => ensure_encrypted_column_is_comparable(q, <<"", "s">>)
    /\ \A o \in Range(projection_outputs(q)) : projected_encrypted_column(q, o) = None

normalized_column_reference(ref) == IF OwnsReference(ref[1]) THEN <<"m", column_named(ref[2])>> ELSE ref

\* What a DISTINCT exposes, an alias under its bare name; unknown when a raw
\* expression, a subquery or a wildcard may select anything
distinct_projection_references(q) ==
    IF raw_projection(q) # <<>> \/ q.subquery_select_expressions # <<>> \/ \E e \in Range(Typed(q)) : IsWildcard(e)
    THEN None
    ELSE IF Typed(q) = <<>> THEN {<<"m", c>> : c \in Range(ModelColumns)}
    ELSE {normalized_column_reference(<<e.table, e.column>>) : e \in Range(Typed(q))} \cup
         {<<"", e.alias>> : e \in {e \in Range(Typed(q)) : e.alias # None}}

\* validate_distinct_order_by
DistinctOrderIsSelected(q) ==
    \/ distinct_projection_references(q) = None
    \/ \A i \in DOMAIN q.order_by :
          {normalized_column_reference(q.order_by[i][1]), <<"", q.order_by[i][1][2]>>}
              \cap distinct_projection_references(q) # {}

\* An operand's columns by position, as they are known before it becomes text
compound_projection(q) ==
    LET known(e) == e.kind = "column"
        own == IF ImplicitProjection(q) THEN ModelColumns ELSE <<>>
        outputs == Mapped(q.subquery_select_expressions, LAMBDA s : Named(q, s.alias)[1]) \o
                   Mapped(q.window_functions, LAMBDA w : Named(q, w.alias)[1])
        At(e) == EntryOutputs(q, e)[1]
    IN  [types |-> Mapped(own, LAMBDA c : TypeIn(Main, c)) \o
                   Mapped(Entries(q), LAMBDA e : IF known(e) THEN column_type(q, At(e).source) ELSE None) \o
                   Mapped(outputs, LAMBDA o : projected_column_type(q, o.name)),
         columns |-> Mapped(own, LAMBDA c : EncryptedIn(Main, c)) \o
                     Mapped(Entries(q), LAMBDA e : IF known(e) THEN projected_encrypted_column(q, At(e)) ELSE None) \o
                     Mapped(outputs, LAMBDA o : projected_encrypted_column(q, o)),
         complete |-> \A e \in Range(Entries(q)) : known(e),
         has_encrypted |-> \/ model_projection_count(q) > 0
                           \/ \E o \in Range(projection_outputs(q)) : projected_encrypted_column(q, o) # None]

union_column_types_compatible(a, b) == a = b \/ {a, b} \subseteq {"char", "text"}

\* Mutant: each arm may be encrypted as it is.
SameScopes_any(left, right) == left.complete /\ right.complete

SameScopes(left, right) == left.complete /\ right.complete /\ left.columns = right.columns

\* An arm beside the query's own projection: ciphertext is never deduplicated,
\* and only joined with ciphertext of the same scope.
ArmIsValid(left, u, right) ==
    /\ left.has_encrypted \/ (~u.raw /\ right.has_encrypted) =>
           u.union_type # "Union" /\ ~u.raw /\ SameScopes(left, right)
    /\ ~u.raw /\ left.complete /\ right.complete /\ Len(left.types) = Len(right.types) =>
           \A i \in DOMAIN left.types :
               None \in {left.types[i], right.types[i]} \/ union_column_types_compatible(left.types[i], right.types[i])
ensure_union_projections_are_valid(q) ==
    \/ q.unions = <<>>
    \/ /\ reads_table_wildcard(q) => \A u \in Range(q.unions) : u.raw
       /\ \A left \in {compound_projection(q)}, u \in Range(q.unions) : ArmIsValid(left, u, compound_projection(u.query))

\* A window goes by source columns, never by an output's name.
WindowIsComparable(q, w) ==
    LET compared == Range(w.partition_by) \cup Range(w.order_by) \cup
                    (IF w.function \in {"MAX", "SUM"} THEN {w.column} ELSE {})
    IN  /\ \A ref \in compared : IsReference(q, ref) /\ encrypted_source_column(q, column_source(ref)) = None
        /\ w.column = None \/ IsReference(q, w.column)

validate_order_or_group_value(q, ref) == ensure_encrypted_input_is_comparable(q, ref) /\ IsReference(q, ref)

\* validate_query_fragments, of the query and of what it is made of
RECURSIVE ensure_query_is_executable(_)
ensure_query_is_executable(q) ==
    /\ is_executable(q)
    /\ \A o \in Range(q.subquery_select_expressions) : ensure_query_is_executable(o.query)
    /\ \A u \in Range(q.unions) : u.raw \/ ensure_query_is_executable(u.query)
    /\ \A i \in DOMAIN q.order_by :
          validate_order_or_group_value(q, q.order_by[i][1])
    /\ \A ref \in Range(q.group_by) : validate_order_or_group_value(q, ref)
    /\ \A ref \in Range(q.having_comparisons) : ensure_encrypted_input_is_comparable(q, ref)
    /\ \A e \in Range(Typed(q)) : validate_select_value(q, e)
    /\ NamesAreDistinct(q)
    /\ is_distinct(q) => DistinctIsComparable(q) /\ DistinctOrderIsSelected(q)
    /\ ensure_union_projections_are_valid(q)
    /\ \A w \in Range(q.window_functions) : WindowIsComparable(q, w)

\* ensure_scalar_aggregate_is_representable
AggregateIsScalar(q) == q.group_by = <<>> /\ q.having_conditions = <<>> /\ q.window_functions = <<>>

\* An aggregate of a query that can run, comparing the values of a column:
\* the extremes, SUM, AVG and COUNT DISTINCT
AggregateIsTaken(q, ref) ==
    /\ AggregateIsScalar(q) /\ ensure_encrypted_column_is_comparable(q, ref)
    /\ (rows_fixed_by_projection(q) /\ ref[1] = "" /\ Named(q, ref[2]) # <<>>) \/ IsReference(q, ref)
    /\ rows_fixed_by_projection(q) => derived_output_name(q, ref) # None

-------------------------------------------------------------------------------
(* Reading a result                                                        *)

\* fetch_json_with_types: an output is typed by where it comes from.
OutputType(q, name) ==
    IF SubqueriesNamed(q, name) # <<>> \/ Named(q, name) # <<>> THEN projected_column_type(q, name)
    ELSE IF canonical_column_name(name) = None THEN None ELSE TypeIn(Main, column_named(name))

\* Mutant: a name of an encrypted column is decrypted wherever it comes from.
decrypt_json_rows_by_name(q, name) ==
    LET of == Named(q, name)
    IN  IF of # <<>> /\ projected_encrypted_column(q, of[1]) # None THEN projected_encrypted_column(q, of[1])
        ELSE EncryptedIn(Main, name)

\* decrypt_projected_rows: the outputs as resolved, and the model's encrypted
\* columns among what is selected implicitly
decrypt_json_rows(q, name) ==
    LET of == Named(q, name)
    IN  IF of # <<>> THEN projected_encrypted_column(q, of[1]) ELSE EncryptedIn(Main, name)

SourceType(q, source) == IF source = None THEN None ELSE column_type(q, source)
SourceScope(q, source) == IF source = None THEN None ELSE encrypted_source_column(q, source)
ProjectedType(q, output) == IF output = None THEN None ELSE projected_column_type(q, output)
aggregate_column_type(q, ref) ==
    IF rows_fixed_by_projection(q) /\ ProjectedType(q, derived_output_name(q, ref)) # None
    THEN ProjectedType(q, derived_output_name(q, ref))
    ELSE SourceType(q, aggregate_source(q, ref))

\* fetch_aggregate_json: an extreme is decrypted as its source, looked up here.
ExtremeScope(q, ref) == SourceScope(q, aggregate_source(q, ref))

-------------------------------------------------------------------------------
(* The columns of the statement (the database's side)                      *)

\* A table keeps its columns in an order of its own.
StoredColumns(table) == IF table = Main THEN <<"a", "id", "s">> ELSE registered_column_names(table)

\* The tables a statement reads, by the name it gives them
FromTables(q) == <<JoinOf("from", Main, None)>> \o q.joins
TableNamed(q, qualifier) == SelectSeq(FromTables(q), LAMBDA j : QualifierOf(j) = qualifier)
\* The column an input is read from; a name of the model is rendered as its column.
Input(q, ref) ==
    <<TableNamed(q, column_source(ref)[1])[1].table,
      IF OwnsReference(ref[1]) THEN column_named(ref[2]) ELSE ref[2]>>
Carried(name, column) == [name |-> name, column |-> column]
TableColumns(table) == Mapped(StoredColumns(table), LAMBDA c : Carried(c, <<table, c>>))

EntryCarries(q, e) ==
    CASE e.kind = "column" -> <<Carried(OutputName(e), Input(q, <<e.table, e.column>>))>>
      [] e.kind = "expression" -> <<Carried(e.alias, None)>>
      [] IsWildcard(e) -> FlattenSeq(Mapped(SelectSeq(FromTables(q), LAMBDA j : e.table \in {"", QualifierOf(j)}),
                                            LAMBDA j : TableColumns(j.table)))

\* Every column of the result: its name and the stored column it is a copy of
RECURSIVE Carries(_)
Carries(q) ==
    (IF ~ImplicitProjection(q) THEN FlattenSeq(Mapped(Entries(q), LAMBDA e : EntryCarries(q, e)))
     ELSE IF reads_table_wildcard(q) THEN TableColumns(Main)
     ELSE Mapped(ModelColumns, LAMBDA c : Carried(c, <<Main, c>>))) \o
    Mapped(q.subquery_select_expressions, LAMBDA s : Carried(s.alias, Carries(s.query)[1].column)) \o
    Mapped(q.window_functions, LAMBDA w :
        Carried(w.alias, IF value_column(w) = None THEN None ELSE Input(q, value_column(w))))

InputsOf(q) ==
    {<<e.table, e.column>> : e \in {e \in Range(Entries(q)) : e.kind = "column"}} \cup
    {q.order_by[i][1] : i \in DOMAIN q.order_by} \cup Range(q.group_by) \cup Range(q.having_comparisons) \cup
    UNION {Range(w.partition_by) \cup Range(w.order_by) \cup ({w.column} \ {None}) : w \in Range(q.window_functions)}

\* Whether an input is there, under one name
Resolves(q, ref) ==
    /\ Len(TableNamed(q, column_source(ref)[1])) = 1
    /\ Input(q, ref)[2] \in DOMAIN Declared(Input(q, ref)[1])

\* What the database takes
RECURSIVE IsTaken(_)
IsTaken(q) ==
    /\ IsInjective(Mapped(FromTables(q), QualifierOf))
    /\ \A ref \in InputsOf(q) : Resolves(q, ref)
    /\ \A e \in Range(Entries(q)) : IsWildcard(e) /\ e.table # "" => TableNamed(q, e.table) # <<>>
    /\ \A s \in Range(q.subquery_select_expressions) : IsTaken(s.query) /\ Len(Carries(s.query)) = 1
    /\ \A u \in Range(q.unions) : u.raw \/ (IsTaken(u.query) /\ Len(Carries(u.query)) = Len(Carries(q)))

\* An ordering by a bare name, without joins, is by an output of that name.
OrderedByOutput(q, ref) == ref[1] = "" /\ q.joins = <<>> /\ Named(q, ref[2]) # <<>>

\* The inputs a statement compares
ComparedInputs(q) ==
    {Input(q, ref) : ref \in {q.order_by[i][1] : i \in {i \in DOMAIN q.order_by : ~OrderedByOutput(q, q.order_by[i][1])}}} \cup
    {Input(q, ref) : ref \in Range(q.group_by) \cup Range(q.having_comparisons)} \cup
    UNION {{Input(q, ref) : ref \in Range(w.partition_by) \cup Range(w.order_by) \cup
                                    (IF w.function \in {"MAX", "SUM"} THEN {w.column} ELSE {})} :
               w \in Range(q.window_functions)}
\* ... and the columns of the result it tells apart: of DISTINCT, and UNION
ComparedOutputs(q) ==
    (IF is_distinct(q) \/ \E u \in Range(q.unions) : u.union_type = "Union" THEN Range(Carries(q)) ELSE {}) \cup
    UNION {Range(Carries(u.query)) : u \in {u \in Range(q.unions) : ~u.raw /\ u.union_type = "Union"}}

ScopeOf(column) == IF column = None THEN None ELSE EncryptedIn(column[1], column[2])
TypeOf(column) == IF column = None THEN None ELSE TypeIn(column[1], column[2])

\* The columns an aggregate is over: inputs, or the arms' outputs of one name
AggregatedColumns(q, ref) ==
    IF ~rows_fixed_by_projection(q) THEN {Input(q, ref)}
    ELSE LET Over(carries, output) ==
                 UNION {{carries[i].column} \cup {Carries(u.query)[i].column : u \in {u \in Range(q.unions) : ~u.raw}} :
                            i \in {i \in DOMAIN carries : carries[i].name = output}}
         IN  Over(Carries(q), derived_output_name(q, ref))

-------------------------------------------------------------------------------
(* Properties, of a query that is run and that the database takes          *)

\* Randomized ciphertext is never compared: not by an ordering, a grouping, a
\* HAVING, a window, DISTINCT or UNION, nor by an
\* aggregate, whose value is then neither decrypted nor mistyped; except that
\* of a subquery's column, which is looked up among the wrong tables.
CiphertextIsNotCompared(q, refs) ==
    /\ ComparedInputs(q) \cap EncryptedColumns = {}
    /\ \A c \in ComparedOutputs(q) : ScopeOf(c.column) = None
    /\ \A ref \in refs : AggregateIsTaken(q, ref) /\ (rows_fixed_by_projection(q) \/ Resolves(q, ref)) =>
           \A column \in AggregatedColumns(q, ref) :
               /\ ScopeOf(column) = None
               /\ \/ rows_fixed_by_projection(q) /\ SubqueriesNamed(q, derived_output_name(q, ref)) # <<>>
                  \/ ExtremeScope(q, ref) = None
               /\ aggregate_column_type(q, ref) \in {None, TypeOf(column)} \/ q.unions # <<>>

\* Each column of the result is decrypted in the scope it was encrypted in,
\* whichever arm of a union it comes from, and never otherwise; and decoded by
\* its own column's type.
OutputsAreReadAsStored(q) ==
    LET IsReadAsStored(c, i) ==
            /\ decrypt_json_rows(q, c.name) = ScopeOf(c.column)
            /\ OutputType(q, c.name) = TypeOf(c.column)
            /\ \A u \in Range(q.unions) : u.raw \/ ScopeOf(Carries(u.query)[i].column) = ScopeOf(c.column)
    IN  \A i \in DOMAIN Carries(q) : Carries(q)[i].name = None \/ IsReadAsStored(Carries(q)[i], i)
===============================================================================
