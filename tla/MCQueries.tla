------------------------------ MODULE MCQueries ------------------------------
(***************************************************************************)
(* Queries for TLC, one matter at a time: `part` says which.  The builder  *)
(* parts make calls on a query; the others ask about one input after       *)
(* another.                                                                *)
(***************************************************************************)
EXTENDS Clauses, TLC

CONSTANTS Null, NaN, k, l, Nothing

VARIABLES part, input, keyed, chunk

chunk_vars == <<keyed, chunk>>
all == <<part, input, chunk_vars, clause_vars>>

SeqsOf(S, n) == UNION {[1..i -> S] : i \in 0..n}
Call(name, argument) == [call |-> name, arg |-> argument]

-------------------------------------------------------------------------------
(* Clauses: any calls on a query and a fragment                            *)

OnA(value) == [column |-> <<"m", "a">>, operator |-> 0, values |-> <<value>>]
Filtered == push_condition(NoClauses, OnA(1))
Paged == offset(push_condition(NoClauses, OnA(2)), 1)
NoSuchPage == page(NoClauses, 0, 1)

AnyCall ==
    {Call("where", OnA(1)), Call("where", OnA(2)), Call("or_where_eq", OnA(1)),
     Call("or_where", OrGroupOf(<<OnA(2)>>)), Call("or_where", OrGroupOf(<<>>)),
     Call("order_by", <<<<"m", "a">>, None, "Asc">>), Call("order_by", <<<<"m", "a">>, "Desc", "Asc">>),
     Call("reorder", <<<<"m", "id">>, "Desc">>), Call("limit", 1), Call("offset", 2), Call("offset", 9),
     Call("page", <<2, 3>>), Call("page", <<0, 3>>), Call("select", <<Entry("column", "m", "a", None)>>),
     Call("distinct", 0), Call("select_raw", Entry("expression", "", "", None)),
     Call("select_subquery", <<"alias", Filtered>>), Call("group_by", <<"m", "a">>), Call("having_raw", <<"text", None>>),
     Call("having", <<"MAX", <<"m", "a">>, TRUE, 1>>), Call("having", <<"SUM", <<"m", "a">>, TRUE, 1>>), Call("having", <<"SUM", <<"m", "a">>, TRUE, 2>>),
     Call("having", <<"MAX", <<"m", "a">>, TRUE, None>>), Call("having", <<"MAX", <<"m", "a">>, FALSE, None>>),
     Call("join", <<"j", TRUE>>), Call("join", <<"j", FALSE>>), Call("union", <<"Union", Filtered>>),
     Call("union", <<"UnionAll", Paged>>), Call("union", <<"Union", NoSuchPage>>),
     Call("with_query", Filtered), Call("window", "w"), Call("cache", 1),
     Call("cache_with_key", <<1, "named">>), Call("no_cache", 0), Call("with_trashed", 0),
     Call("only_trashed", 0), Call("lock_for_update", 0)}

\* PostgreSQL numbers its placeholders; without a trash only_trashed is refused.
BothPlaceholders == {[db |-> "Postgres", soft |-> FALSE], [db |-> "SQLite", soft |-> TRUE]}

-------------------------------------------------------------------------------
(* Rows: queries of a model and a table it has rows of, and their results  *)

R == INSTANCE Rows WITH MaxInteger <- 100

Of(table, column, alias) == Entry("column", table, column, alias)
Where(table, value) == [column |-> <<table, "a">>, operator |-> 0, values |-> <<value>>]
JoinR(kind) == R!JoinOf(kind, <<"", "r">>, None)
Arm == push_condition(select(NoClauses, <<Of("m", "a", None)>>), Where("m", 1))
LastRow == limit(order_by(NoClauses, <<"m", "id">>, None, "Desc"), 1)

RowCalls ==
    {Call("where", Where("m", 1)), Call("or_where_eq", Where("r", 1)),
     Call("order_by", <<<<"m", "a">>, None, "Desc">>), Call("order_by", <<<<"r", "a">>, None, "Asc">>),
     Call("limit", 1), Call("offset", 1), Call("page", <<2, 1>>), Call("distinct", 0),
     Call("select", <<Of("m", "a", None)>>), Call("select", <<Of("r", "a", None)>>),
     Call("select", <<Of("m", "id", None), Of("m", "a", None), Of("m", "s", None)>>),
     Call("select", <<Of("m", "id", None), Of("r", "a", None), Of("m", "s", None)>>),
     Call("select", <<Of("m", "id", None), Of("r", "a", "a"), Of("m", "s", None)>>),
     Call("select", <<Entry("wildcard", "", "", None)>>), Call("select", <<Entry("wildcard", "m", "", None)>>),
     Call("select", <<Entry("wildcard", "r", "", None)>>),
     Call("select_raw", Entry("expression", "", "COUNT(*)", "n")), Call("select_raw", Of("r", "a", "x")),
     Call("select_raw", Of("m", "id", "a")), Call("select_raw", Entry("expression", "", "1", None)),
     Call("group_by", <<"m", "a">>), Call("group_by", <<"r", "a">>), Call("having", <<"COUNT", None, TRUE, 1>>),
     Call("join", <<JoinR("inner"), TRUE>>), Call("join", <<JoinR("left"), TRUE>>), Call("union", <<"Union", Arm>>),
     Call("union", <<"UnionAll", Arm>>), Call("union", <<"UnionAll", LastRow>>),
     Call("with_query", Arm), Call("lock_for_update", 0)}

\* No rows; and a model with two rows of the table, one with none, one with one
ModelRow(id, a) == [id |-> id, a |-> a, s |-> 1]
TableRow(owner, a) == [owner |-> owner, a |-> a, t |-> 1]
Databases ==
    {[m |-> <<>>, r |-> <<>>],
     [m |-> <<ModelRow(1, 1), ModelRow(2, 2), ModelRow(3, 1)>>,
      r |-> <<TableRow(1, 1), TableRow(1, 2), TableRow(3, 1)>>]}

-------------------------------------------------------------------------------
(* Projections: columns of the model, of tables joined as "r" or "o", and  *)
(* of operands with an "o" of their own                                    *)

Select1(ref, alias) == select(NoClauses, <<Of(ref[1], ref[2], alias)>>)
Other == <<"x", "m">>
AsO(table) == R!JoinOf("inner", table, "o")
OperandQueries ==
    {Select1(<<"", "field">>, None), Select1(<<"m", "a">>, "s"), join(Select1(<<"o", "t">>, "s"), AsO(<<"", "r">>), TRUE),
     join(Select1(<<"o", "s">>, None), AsO(Other), TRUE)}

ProjectionCalls ==
    {Call("join", <<j, TRUE>>) : j \in {JoinR("inner"), AsO(R!Main), AsO(<<"", "r">>), AsO(Other)}} \cup
    {Call("select", <<Of(ref[1], ref[2], alias)>>) :
        ref \in {<<"", "field">>, <<"m", "a">>, <<"o", "s">>, <<"r", "t">>}, alias \in {None, "v", "s"}} \cup
    {Call("select", <<Entry("wildcard", table, "", None)>>) : table \in {"", "m", "o"}} \cup
    {Call("order_by", <<ref, None, "Asc">>) : ref \in {<<"", "s">>, <<"", "a">>, <<"o", "s">>}} \cup
    {Call("group_by", ref) : ref \in {<<"", "s">>, <<"", "a">>, <<"r", "t">>}} \cup
    {Call("having", <<"MAX", ref, TRUE, 1>>) : ref \in {<<"", "field">>, <<"", "v">>, <<"o", "s">>}} \cup
    {Call("union", <<type, arm>>) : type \in {"Union", "UnionAll"}, arm \in OperandQueries \cup {NoClauses}} \cup
    {Call("select_subquery", <<alias, o>>) : alias \in {"v", "s"}, o \in OperandQueries} \cup
    {Call("window", R!WindowOf(alias, function, ref, <<>>, <<>>)) :
        alias \in {"v", "s"}, function \in {"LAG", "SUM"}, ref \in {<<"", "s">>, <<"o", "s">>}} \cup
    {Call("window", R!WindowOf("v", "ROW_NUMBER", None, <<<<"o", "s">>>>, <<<<"", "a">>>>)), Call("distinct", 0),
     Call("union_raw", <<"UnionAll", NoClauses>>), Call("select_raw", Entry("expression", "", "1", "s")),
     Call("select_raw", Of("m", "s", "v"))}
AggregatedRefs == {<<"", "a">>, <<"", "s">>, <<"m", "s">>, <<"o", "s">>, <<"", "v">>, <<"r", "t">>, <<"", "field">>}

-------------------------------------------------------------------------------
(* Mutations: bulk writes of a query                                       *)

In(values) == [column |-> <<"m", "a">>, operator |-> "In", values |-> values]
NotIn(values) == [In(values) EXCEPT !.operator = "NotIn"]

MutationCalls ==
    {Call("where", In(<<1>>)), Call("where", NotIn(<<>>)), Call("where", In(<<>>)),
     Call("or_where_eq", In(<<2>>)), Call("or_where_eq", NotIn(<<>>)), Call("with_trashed", 0),
     Call("only_trashed", 0), Call("limit", 1), Call("order_by", <<<<"m", "a">>, None, "Asc">>),
     Call("page", <<0, 1>>), Call("select", <<Of("m", "a", None)>>), Call("distinct", 0),
     Call("join", <<JoinR("inner"), TRUE>>)}

Updates == [include_trashed : {None, TRUE, FALSE},
            conditions : {<<>>, <<In(<<1, 2>>)>>, <<NotIn(<<>>)>>},
            or_conditions : {<<>>, <<In(<<3>>)>>}, limit : {None, 1}]
MutableRows == [a : 1..3, deleted : BOOLEAN]

-------------------------------------------------------------------------------
(* Conditions on documents, integers and texts                             *)

W == INSTANCE Conditions WITH
         Members <- {k, l}, LongList <- 2,
         ColumnType <- [integer |-> "integer", text |-> "text", json |-> "json"]

Scalars == {W!JsonNull, W!Number(1), W!Number(2)}
FlatDocuments ==
    LET held == {W!JsonNull, W!Number(1)}
    IN  Scalars \cup {W!Array(s) : s \in SeqsOf(held, 2)} \cup
        {W!Object(f) : f \in UNION {[names -> held] : names \in SUBSET {k, l}}}
Documents ==
    LET nested == FlatDocuments \cup {W!Array(<<d>>) : d \in FlatDocuments} \cup {W!Object(k :> d) : d \in FlatDocuments}
    IN  nested \cup {W!Object(k :> d) : d \in nested} \cup {W!Array(<<d, W!Number(1)>>) : d \in nested}
ScalarLists(scalars) == {W!Array(s) : s \in SeqsOf(scalars, 2)}

Texts == SeqsOf({"a", "b"}, 2)
FewDocuments == {W!JsonNull, W!Number(1), W!Array(<<>>), W!Object(<<>>), W!Array(<<W!Number(1)>>),
                 W!Object(k :> W!Number(1))}
Cells == [integer |-> {1, 2, 3, Null}, text |-> Texts \cup {Null}, json |-> FewDocuments \cup {Null}]
Operands(column) ==
    IF column = "json" THEN {Null, W!JsonNull, W!Number(1), W!Object(k :> W!Number(1))}
    ELSE {Null, NaN, W!JsonNull, W!Number(1), W!Number(2)}

Condition(column, operator, value, given) ==
    [condition |-> [column |-> column, operator |-> operator, value |-> value], given |-> given]
Listed(column) ==
    {Condition(column, o, W!Single(v), <<v>>) : o \in {"Eq", "NotEq"}, v \in Operands(column)} \cup
    {Condition(column, o, W!MembersOf(vs), vs) : o \in {"In", "NotIn"}, vs \in SeqsOf(Operands(column), 3)}
Documented ==
    Listed("integer") \cup Listed("json") \cup
    {Condition("text", o, W!Pattern(before, s, after), <<>>) :
        o \in {"Like", "LikeEscaped"}, before, after \in BOOLEAN, s \in Texts}
Undocumented ==
    {Condition("integer", o, W!Single(W!Number(2)), <<>>) : o \in {"Gt", "Gte", "Lt", "Lte"}} \cup
    {Condition("integer", o, W!Bounds(W!Number(2), W!Number(2)), <<>>) : o \in {"Between", "NotBetween"}} \cup
    {Condition("json", o, W!Single(v), <<>>) : o \in {"JsonContains", "JsonContainedBy"}, v \in FewDocuments}

\* Groups of conditions that are vacuous ("v", "w") or not ("r")
FlatGroups == {W!Group(c, s, <<>>) : c \in {"And", "Or"}, s \in SeqsOf({"v", "w", "r"}, 2)}
Groups ==
    FlatGroups \cup
    {W!Group(c, s, g) : c \in {"And", "Or"}, s \in SeqsOf({"v", "w", "r"}, 1),
        g \in [1..1 -> FlatGroups] \cup {<<W!Group("Or", <<"v">>, <<>>), W!Group("And", <<>>, <<>>)>>}}

-------------------------------------------------------------------------------
(* Relations: models in a case- or accent-blind column, and their keys     *)

L == INSTANCE Relations WITH NoType <- "none", KeysPerQuery <- 3, PairedKeysPerQuery <- 1

Plain == L!Key("e", FALSE, FALSE)
Upper == L!Key("e", TRUE, FALSE)
Accented == L!Key("e", FALSE, TRUE)
Digit == L!Key("1", FALSE, FALSE)
One == L!NumberKey("1")
Keys == {Plain, Upper, Accented, Digit, L!NullKey}

Row(id, own, key, type, trashed) == [id |-> id, own |-> own, key |-> key, type |-> type, trashed |-> trashed]
Link(id, parent, related, trashed) == [id |-> id, parent |-> parent, related |-> related, trashed |-> trashed]
Owner(key) == Row(0, key, key, "m", FALSE)
OwnerKeys == {<<>>, <<Plain>>, <<Plain, Upper, Accented>>, <<Plain, Plain, Upper>>, <<One, Plain, Accented>>,
              <<Accented, One, Accented, Plain>>, <<L!NullKey, Plain>>}
Collations == {"exact", "no_case", "no_accent"}

\* Rows of a relation, direct or polymorphic, one perhaps in the trash
DirectBases ==
    {[collation |-> c, links |-> <<>>,
      rows |-> <<Row(1, Plain, k1, "m", FALSE), Row(2, Upper, k2, "m", trashed), Row(3, Accented, k3, type, FALSE)>>] :
        c \in Collations, k1 \in Keys, k2 \in {Plain, L!NullKey}, k3 \in {Plain, Upper, Digit},
        trashed \in BOOLEAN, type \in {"m", "o"}}
LinkedBases ==
    {[collation |-> c, links |-> <<Link(1, p1, r1, FALSE), Link(2, p2, r2, trashed)>>,
      rows |-> <<Row(1, Plain, L!NullKey, "m", FALSE), Row(2, Upper, Plain, "m", FALSE), Row(3, Accented, Upper, "m", FALSE)>>] :
        c \in Collations, p1 \in {Plain, Upper}, p2 \in {Plain, Digit}, r1, r2 \in Keys, trashed \in BOOLEAN}
TreeBases ==
    {[collation |-> c, links |-> <<>>,
      rows |-> <<Row(1, Plain, k1, "m", FALSE), Row(2, Upper, k2, "m", trashed), Row(3, Accented, k3, "m", FALSE)>>] :
        c \in Collations, k1, k2, k3 \in Keys, trashed \in BOOLEAN}

\* Wrappers with and without a key, a cache and a connection
WrapperStates ==
    {<<TRUE, FALSE, "database">>, <<TRUE, TRUE, "database">>, <<FALSE, TRUE, "database">>, <<FALSE, FALSE, "database">>,
     <<TRUE, FALSE, "manager">>, <<TRUE, FALSE, "nowhere">>}
WrappersOf(base) ==
    {[L!Wrapper(kind, key, type) EXCEPT !.configured = s[1], !.loaded = s[2], !.cached = base.rows, !.reach = s[3]] :
        kind \in {"belongs_to", "has_one", "has_many", "self_ref", "self_ref_many", "morph_one", "morph_many",
                  "morph_to", "through"},
        key \in {Plain, Accented, L!NullKey, L!UnsetKey, L!CompositeKey}, type \in {"m", "o", "none"}, s \in WrapperStates}

JoinedRows ==
    LET Copy(key, copy) == [key |-> key, copy |-> copy]
    IN  {<<Copy(a, copy), Copy(b, copy), c>> : a, b \in {1, 2}, copy \in {"one", "other"}, c \in {None, k}}

AskRelations ==
    \/ \E owners \in OwnerKeys :
        \/ \E base \in DirectBases :
              \E tree \in {L!add_path({}, <<"has_many", "belongs_to">>), {<<"morph_many">>, <<"has_one">>}} :
                 input' = [ask |-> "eager", base |-> base, owners |-> owners, tree |-> tree]
        \/ \E base \in LinkedBases :
                 input' = [ask |-> "eager", base |-> base, owners |-> owners,
                           tree |-> L!add_path({}, <<"through", "has_many">>)]
    \/ \E base \in DirectBases \cup LinkedBases : base.collation = "no_case" /\ input' = [ask |-> "wrappers", base |-> base]
    \/ \E rows \in SeqsOf(JoinedRows, 3) : input' = [ask |-> "joined", rows |-> rows]
    \/ \E base \in TreeBases, depth \in 0..3 : input' = [ask |-> "tree", base |-> base, depth |-> depth]

-------------------------------------------------------------------------------
(* Conditions on related rows, three levels deep over two tables           *)

N == INSTANCE Related

NRow(id, up, a, deleted) == [id |-> id, up |-> up, a |-> a, deleted |-> deleted]
NestedBases ==
    {[m |-> {NRow(1, None, 1, None), NRow(2, 1, None, None), NRow(3, 2, 1, None), NRow(4, 3, None, d), NRow(5, 4, 1, None)},
      r |-> {NRow(1, 1, 1, None), NRow(2, 3, 1, d), NRow(3, 4, None, None)}] : d \in {None, 1}}
OfOwnColumns == {<<>>, <<N!ColumnWish(TRUE, "a", 1)>>, <<N!ColumnWish(FALSE, "a", None)>>}
Has(negated, model, foreign_key, local_key, inner, scope) ==
    <<N!Wish("has", negated, model, foreign_key, local_key, inner, scope, None)>>
Leaves ==
    {Has(negated, model, keys[1], keys[2], inner, "live") :
        negated \in BOOLEAN, model \in {"m", "r"}, keys \in {<<"up", "id">>, <<"id", "up">>}, inner \in OfOwnColumns} \cup
    {<<N!Wish("table", negated, model, "up", "id", inner, "all", None)>> :
        negated \in BOOLEAN, model \in {"m", "r"}, inner \in OfOwnColumns} \cup
    {<<N!Wish("in", negated, model, "id", "id", inner, "live", rows)>> :
        negated \in BOOLEAN, model \in {"m", "r"}, inner \in OfOwnColumns, rows \in {None, 1}} \cup
    {<<N!Wish("exists", negated, "m", "id", "id", inner, "trashed", 1)>> : negated \in BOOLEAN, inner \in OfOwnColumns} \cup
    {<<N!Wish("has", FALSE, "m", "up", "id", <<>>, "live", 1)>>, Has(FALSE, "m", "none", "id", <<>>, "live")}
TwoDeep ==
    {Has(negated, model, keys[1], keys[2], leaf \o own, scope) :
        negated \in BOOLEAN, model \in {"m", "r"}, keys \in {<<"up", "id">>, <<"id", "up">>}, leaf \in Leaves,
        own \in {<<N!ColumnWish(TRUE, "a", 1)>>}, scope \in {"live", "trashed"}}
ThreeDeep ==
    {Has(FALSE, model, "up", "id", Has(negated, "m", "up", "id", leaf, "live"), "live") :
        model \in {"m", "r"}, negated \in BOOLEAN, leaf \in Leaves}

-------------------------------------------------------------------------------
(* Tags: statements of comma lists, joins, groups, derived tables, a       *)
(* subquery and a union                                                    *)

G == INSTANCE Tags

FewTables == {t \in G!Tables : Len(t.sql) < 3 /\ t.reads # {"from"}}
Pairs == {G!Joined(<<a, b>>, <<G!Comma>>) : a, b \in FewTables}
FewSelects == G!SelectFrom(Pairs)
OneDerived == G!Derived(G!SelectFrom({G!Joined(<<t, t>>, <<G!Comma>>) : t \in {CHOOSE t \in FewTables : TRUE}}))
Statements ==
    G!SelectFrom(G!Lists(G!Tables \cup {G!Function})) \cup G!SelectFrom(G!Lists(G!Grouped(Pairs) \cup {G!Function})) \cup
    G!SelectFrom(G!Lists(OneDerived)) \cup G!Filtering({s \in FewSelects : Len(s.sql) < 10}, FewSelects) \cup
    G!Combined(FewSelects, FewSelects)

-------------------------------------------------------------------------------
(* Chunks: a table read in batches by its key, while its rows change       *)

H == INSTANCE Chunks WITH RowKeys <- 1..3, MaxRepeats <- 2, MaxWrites <- 1, table <- keyed

-------------------------------------------------------------------------------
MCInit ==
    /\ part \in {"clauses", "rows", "projections", "mutations", "documents", "conditions", "relations", "chunks", "related", "tags"}
    /\ input = Nothing
    /\ ClauseInit
    /\ part \notin {"clauses", "mutations"} => target.db = "SQLite"
    /\ IF part = "chunks" THEN H!ChunkInit ELSE keyed = Nothing /\ chunk = Nothing

CallStep ==
    /\ \/ part = "clauses" /\ ClauseNext
       \/ part = "rows" /\ \E c \in RowCalls : R!CallQuery(c)
       \/ part = "projections" /\ \E c \in ProjectionCalls : R!CallQuery(c)
       \/ part = "mutations" /\ \E c \in MutationCalls : R!CallQuery(c)
    /\ UNCHANGED <<part, input, chunk_vars>>

ChunkStep == part = "chunks" /\ H!ChunkNext /\ UNCHANGED <<part, input, clause_vars>>

AskDocuments ==
    \E cell \in Documents \cup {Null} :
        \/ \E value \in Documents : input' = [ask |-> "tests", cell |-> cell, value |-> value]
        \/ \E path \in SeqsOf({k, 0}, 3) : input' = [ask |-> "path", cell |-> cell, path |-> path]
AskArrays ==
    \E cell \in ScalarLists(Scalars) \cup {Null}, value \in ScalarLists(Scalars \ {W!JsonNull}) :
        input' = [ask |-> "array", cell |-> cell, value |-> value]
AskConditions ==
    \/ \E c \in Documented \cup Undocumented : \E cell \in Cells[c.condition.column] :
            /\ W!IsRepresentable(c.condition)
            /\ input' = [ask |-> "condition", asked |-> c, cell |-> cell]
    \/ \E g \in Groups : input' = [ask |-> "group", group |-> g]

AskRelated ==
    \E base \in NestedBases, wishes \in Leaves \cup TwoDeep \cup ThreeDeep :
        input' = [ask |-> "related", base |-> base, wishes |-> wishes]
AskTags ==
    \/ \E s \in Statements : input' = [ask |-> "tags", statement |-> s, place |-> "condition"]
    \/ \E s \in FewSelects, place \in G!Places : input' = [ask |-> "tags", statement |-> s, place |-> place]

AskStep ==
    /\ input = Nothing
    /\ \/ part = "documents" /\ (AskDocuments \/ AskArrays)
       \/ part = "conditions" /\ AskConditions
       \/ part = "relations" /\ AskRelations
       \/ part = "related" /\ AskRelated
       \/ part = "tags" /\ AskTags
    /\ UNCHANGED <<part, clause_vars, chunk_vars>>
BackStep == input # Nothing /\ input' = Nothing /\ UNCHANGED <<part, clause_vars, chunk_vars>>

MCNext == CallStep \/ ChunkStep \/ AskStep \/ BackStep

MCSpec == MCInit /\ [][MCNext]_all

-------------------------------------------------------------------------------
Asks(what) == input # Nothing /\ input.ask = what

\* Every backend reads a document, array or list condition the same way, and
\* as its documentation says (db_sql.rs, sqlite_json.rs, mysql_json.rs, the
\* condition builders): with NULL cells, NULL among the operands, the null
\* document beside it, empty lists and lists too long to bind one by one.
BackendsAgree ==
    /\ Asks("tests") => W!ContainmentAgrees(input.cell, input.value) /\ W!EqualityAgrees(input.cell, input.value)
    /\ Asks("path") => W!ExistenceAgrees(input.cell, input.path)
    /\ Asks("array") => W!ArraysAgree(input.cell, input.value.elements)
    /\ Asks("condition") /\ input.asked \in Documented =>
           W!ConditionsAgree(input.asked.condition, input.asked.given, input.asked.condition.column :> input.cell)

\* A bulk delete, restore or update writes only rows its filters keep, in the
\* scope it is for, and is refused without a filter that spares some row; what
\* counts as such a filter can exclude a value, alone or in a group
\* (mutation_safety.rs, filters.rs).
MutationsKeepTheirScope ==
    /\ part = "mutations" =>
           /\ R!MutationsKeepTheirScope(built, target.soft, MutableRows)
           /\ \A update \in Updates : R!UpdatesKeepTheirScope(built, update, target.soft, MutableRows)
    /\ Asks("condition") => W!RestrictionsExclude(input.asked.condition, Cells[input.asked.condition.column])
    /\ Asks("group") => W!GroupsRestrict(input.group, {"v", "w"})

\* Rows!ReadsAgree: count, exists, aggregates, pluck and paginate speak of the
\* rows get() returns; Rows!ModelsAreWhole: a model among them has each column
\* once and its own; Related!RelatedRowsAreAsAsked: the rows kept by their
\* related rows are those whose related rows are as asked;
\* Chunks!ChunksHandEachRowOnce: chunk() hands every row that stays to the caller
\* exactly once, in order, never more rows than the limit.
ReadsAgree ==
    /\ part = "rows" => R!ReadsAgree(Databases, built) /\ R!ModelsAreWhole(built)
    /\ part = "chunks" => H!ChunksHandEachRowOnce
    /\ Asks("related") => \A db \in {"MySQL", "SQLite"} : N!RelatedRowsAreAsAsked(input.base, db, "m", input.wishes)

\* Clauses!KeysTellQueriesApart: queries with one cache key read the same rows;
\* Tags!TagsCoverReads: a cached query is tagged with every table it reads.
CachedReadsAreTheQuerys ==
    KeysTellQueriesApart /\ (Asks("tags") => G!TagsCoverReads(input.statement, input.place))

\* No query compares randomized ciphertext, and each column of a result is
\* decrypted in the scope and decoded by the type of the column it is a copy
\* of, through joins, aliases, subqueries, windows and unions
\* (Projections!CiphertextIsNotCompared, OutputsAreReadAsStored).
EncryptedStaysOpaque ==
    part = "projections" /\ R!IsTaken(built) /\ R!ensure_query_is_executable(built) =>
        R!CiphertextIsNotCompared(built, AggregatedRefs) /\ R!OutputsAreReadAsStored(built)

\* Loading relations eagerly gives each model what loading it alone gives, and
\* a tree what repeated loads give: however the column compares texts, in
\* batches of keys, with repeated and NULL keys (Relations).  A relation's
\* terminals speak of the same rows, and its inverse of the same link, whatever a
\* deserialized model holds.  The rows of a join regroup into the same
\* nesting (Relations!RegroupedAsNested).
EagerLoadsWhatLazyLoads ==
    /\ Asks("eager") =>
           L!EagerLoadsWhatLazyLoads(input.base, [i \in DOMAIN input.owners |-> Owner(input.owners[i])], input.tree)
    /\ Asks("tree") => L!TreesAreRepeatedLoads(input.base, Plain, input.depth) /\ L!InversesAgree(input.base)
    /\ Asks("joined") => L!RegroupedAsNested(input.rows)
    /\ Asks("wrappers") => L!InversesAgree(input.base) /\ \A w \in WrappersOf(input.base) : L!TerminalsAgree(input.base, w)
===============================================================================
