------------------------------ MODULE Conditions ------------------------------
(***************************************************************************)
(* WHERE conditions: the operands a filter method makes, the form each     *)
(* backend renders them in, and what that form says of a row; groups of    *)
(* conditions; and which of them restrict nothing (src/src/query/filters,  *)
(* src/src/query/sql/condition_builders).  Operands are JSON documents as  *)
(* in JsonTests, with Null for None and NaN for a float SQL cannot compare.*)
(***************************************************************************)
EXTENDS JsonTests, TLC

CONSTANTS
    NaN,
    ColumnType,     \* column -> "integer", "text", "json" or "array"
    LongList        \* INLINE_INTEGER_LIST_AFTER: longer lists are not bound value by value

IsJsonColumn(column) == ColumnType[column] = "json"

-------------------------------------------------------------------------------
(* Operands                                                                *)

Invalid == [kind |-> "Invalid"]
NoValue == [kind |-> "None"]

Serialized(v) == IF v = Null THEN JsonNull ELSE v

\* ConditionValue::single: a None is SQL NULL, any other null a document.
Single(v) ==
    IF v = NaN THEN Invalid ELSE IF v = Null THEN NoValue ELSE [kind |-> "Single", value |-> v]

List(vs) ==
    IF NaN \in Range(vs) THEN Invalid
    ELSE [kind |-> "List", values |-> [i \in DOMAIN vs |-> Serialized(vs[i])]]

\* Mutant: a None among documents is taken for the null document.
MembersSerialized(vs) ==
    IF NaN \in Range(vs) THEN Invalid
    ELSE IF JsonNull \notin Range(vs) THEN List(vs)
    ELSE [kind |-> "DocumentList", values |-> [i \in DOMAIN vs |-> Serialized(vs[i])],
          sql_null |-> FALSE]

\* The members of where_in and where_not_in
MembersOf(vs) ==
    IF NaN \in Range(vs) THEN Invalid
    ELSE IF JsonNull \notin Range(vs) THEN List(vs)
    ELSE [kind |-> "DocumentList", values |-> SelectSeq(vs, LAMBDA v : v # Null),
          sql_null |-> Null \in Range(vs)]

Bounds(low, high) ==
    IF NaN \in {low, high} THEN Invalid
    ELSE [kind |-> "Range", low |-> Serialized(low), high |-> Serialized(high)]

\* A LIKE pattern: a literal, with a % before it, after it, both or neither
Pattern(leading, literal, trailing) ==
    [kind |-> "Pattern", leading |-> leading, literal |-> literal, trailing |-> trailing]

Column(other) == [kind |-> "Column", other |-> other]

Comparisons == {"Eq", "NotEq", "Gt", "Gte", "Lt", "Lte"}
ListOperators == {"In", "NotIn"}

-------------------------------------------------------------------------------
(* condition_spec: the operators each kind of operand is rendered with     *)

Rendered(kind) ==
    CASE kind = "Column" -> Comparisons
      [] kind = "None" -> {"Eq", "NotEq", "IsNull", "IsNotNull"}
      [] kind = "Single" -> Comparisons \cup {"JsonContains", "JsonContainedBy"}
      [] kind = "Pattern" -> {"Like", "LikeEscaped", "NotLike"}
      [] kind = "Path" -> {"JsonPathExists", "JsonPathNotExists"}
      [] kind = "Range" -> {"Between", "NotBetween"}
      [] kind = "List" -> ListOperators \cup ArrayOperators
      [] kind = "DocumentList" -> ListOperators
      [] OTHER -> {}

\* Ordering and ranges have no reading of a null bound.
HasNullBound(c) ==
    \/ /\ c.operator \in {"Gt", "Gte", "Lt", "Lte"}
       /\ c.value = NoValue \/ (c.value.kind = "Single" /\ c.value.value = JsonNull)
    \/ c.value.kind = "Range" /\ JsonNull \in {c.value.low, c.value.high}

IsRepresentable(c) == ~HasNullBound(c) /\ c.operator \in Rendered(c.value.kind)

-------------------------------------------------------------------------------
(* What the rendered expression says of a row                              *)

\* json_to_column_value: the null document is SQL NULL in any other column.
Bound(value) == IF value = JsonNull THEN Null ELSE value.value

Compare(operator, left, right) ==
    IF Null \in {left, right} THEN "unknown"
    ELSE Truth(CASE operator = "Eq" -> left = right [] operator = "NotEq" -> left # right
                 [] operator = "Gt" -> left > right [] operator = "Gte" -> left >= right
                 [] operator = "Lt" -> left < right [] operator = "Lte" -> left <= right)

NullCheck(cell, negated) == Truth((cell = Null) # negated)

Between(cell, low, high, negated) ==
    IF cell = Null THEN "unknown" ELSE Truth((low <= cell /\ cell <= high) # negated)

\* LIKE: the text is the literal, with anything where there is a %
Matches(text, p) ==
    \E i, j \in 0..Len(text) :
        /\ SubSeq(text, i + 1, j) = p.literal /\ i <= j
        /\ ~p.leading => i = 0
        /\ ~p.trailing => j = Len(text)

\* The slices SQLite compares instead, so that a stored NUL does not end the text
SqliteMatches(text, p) ==
    LET n == Len(p.literal)
    IN  CASE p.leading /\ p.trailing -> \E i \in 0..(Len(text) - n) : SubSeq(text, i + 1, i + n) = p.literal
          [] p.trailing -> SubSeq(text, 1, IF n < Len(text) THEN n ELSE Len(text)) = p.literal
          [] p.leading -> n = 0 \/ SubSeq(text, IF n < Len(text) THEN Len(text) - n + 1 ELSE 1, Len(text)) = p.literal
          [] OTHER -> text = p.literal

build_pattern_expression(db, cell, operator, p) ==
    UnknownWhenNull(cell, (IF db = "SQLite" /\ operator = "LikeEscaped" THEN SqliteMatches(cell, p)
                           ELSE Matches(cell, p)) # (operator = "NotLike"))

\* IN and NOT IN of values that are not NULL; an empty list is a constant.
InList(cell, operator, listed) ==
    IF listed = {} THEN Truth(operator = "NotIn")
    ELSE IF cell = Null THEN "unknown" ELSE Truth((cell \in listed) = (operator = "In"))

\* A long list is one array on PostgreSQL, = ANY or <> ALL; the array has no NULL.
AnyOrAll(cell, operator, listed) ==
    IF operator = "In" THEN AnyOf({Compare("Eq", cell, v) : v \in listed})
    ELSE AllOf({Compare("NotEq", cell, v) : v \in listed})

build_non_null_list_expression(db, column, cell, operator, values) ==
    IF IsJsonColumn(column) /\ values # <<>>
    THEN LET equal == {json_equals_bound(db, cell, v, operator = "NotIn") : v \in Range(values)}
         IN  IF operator = "NotIn" THEN AllOf(equal) ELSE AnyOf(equal)
    ELSE LET listed == {Bound(v) : v \in Range(values)}
         IN  IF db = "Postgres" /\ Len(values) > LongList
             THEN AnyOrAll(cell, operator, listed) ELSE InList(cell, operator, listed)

\* Mutant: NULL is left in the list.
build_list_expression_literal(db, column, cell, operator, values, documents, sql_null) ==
    LET listed == {Bound(v) : v \in Range(values)} \cup (IF sql_null THEN {Null} ELSE {})
    IN  IF operator = "In" THEN AnyOf({Compare("Eq", cell, v) : v \in listed})
        ELSE AllOf({Compare("NotEq", cell, v) : v \in listed})

\* A NULL member reads "or the column is NULL", negated "and it is not".
build_list_expression(db, column, cell, operator, values, documents, sql_null) ==
    LET as_documents == documents /\ IsJsonColumn(column)
        listed == IF as_documents THEN values ELSE SelectSeq(values, LAMBDA v : v # JsonNull)
        with_null == sql_null \/ Len(listed) < Len(values)
        among == build_non_null_list_expression(db, column, cell, operator, listed)
        null_check == NullCheck(cell, operator = "NotIn")
    IN  IF ~with_null THEN among
        ELSE IF listed = <<>> THEN null_check
        ELSE IF operator = "In" THEN AnyOf({among, null_check}) ELSE AllOf({among, null_check})

\* The null document is SQL NULL, unless the column holds documents.
CompareValue(db, c, cell) ==
    IF c.operator \in {"Eq", "NotEq"} /\ IsJsonColumn(c.column)
    THEN json_equals_bound(db, cell, c.value.value, c.operator = "NotEq")
    ELSE IF c.operator \in {"Eq", "NotEq"} /\ c.value.value = JsonNull
    THEN NullCheck(cell, c.operator = "NotEq")
    ELSE Compare(c.operator, cell, Bound(c.value.value))

build_condition_expression(db, c, row) ==
    LET cell == row[c.column]
        v == c.value
    IN  CASE v.kind = "Column" -> Compare(c.operator, cell, row[v.other])
          [] v.kind = "None" -> NullCheck(cell, c.operator \in {"NotEq", "IsNotNull"})
          [] v.kind = "Single" ->
                 IF c.operator \in Comparisons THEN CompareValue(db, c, cell)
                 ELSE json_containment_bound(db, cell, v.value, c.operator = "JsonContains")
          [] v.kind = "Pattern" -> build_pattern_expression(db, cell, c.operator, v)
          [] v.kind = "Path" -> json_exists_bound(db, cell, v.path, c.operator = "JsonPathNotExists")
          [] v.kind = "Range" -> Between(cell, Bound(v.low), Bound(v.high), c.operator = "NotBetween")
          [] c.operator \in ArrayOperators -> array_bound(db, cell, c.operator, v.values)
          [] v.kind = "List" ->
                 build_list_expression(db, c.column, cell, c.operator, v.values, FALSE, FALSE)
          [] v.kind = "DocumentList" ->
                 build_list_expression(db, c.column, cell, c.operator, v.values, TRUE, v.sql_null)

-------------------------------------------------------------------------------
(* Groups                                                                  *)

Group(combine, conditions, nested) ==
    [combine_with |-> combine, conditions |-> conditions, nested_groups |-> nested]

RECURSIVE IsEmptyGroup(_)
IsEmptyGroup(g) == g.conditions = <<>> /\ \A n \in Range(g.nested_groups) : IsEmptyGroup(n)

RECURSIVE collect_conditions(_)
collect_conditions(g) ==
    Range(g.conditions) \cup UNION {collect_conditions(n) : n \in Range(g.nested_groups)}

\* add_filters: a group, without the groups that are empty, given what each
\* condition says of the row
RECURSIVE build_or_group_condition(_, _)
build_or_group_condition(g, says) ==
    LET members == {says[c] : c \in Range(g.conditions)} \cup
                   {build_or_group_condition(n, says) :
                        n \in {m \in Range(g.nested_groups) : ~IsEmptyGroup(m)}}
    IN  IF g.combine_with = "And" THEN AllOf(members) ELSE AnyOf(members)

\* Mutant: only a list that excludes nothing is recognised.
condition_is_vacuous_lists(c) ==
    c.operator = "NotIn" /\ c.value.kind = "List" /\ c.value.values = <<>>

\* A condition that cannot exclude a row, or only NULL
condition_is_vacuous(c) ==
    LET v == c.value
    IN  \/ /\ c.operator = "NotIn" /\ v.kind \in {"List", "DocumentList"}
           /\ Range(v.values) \subseteq {JsonNull}
           /\ v.kind = "DocumentList" => ~IsJsonColumn(c.column)
        \/ c.operator = "NotEq" /\ v = NoValue
        \/ c.operator = "NotEq" /\ v.kind = "Single" /\ v.value = JsonNull /\ ~IsJsonColumn(c.column)
        \/ c.operator = "ArrayContains" /\ v.kind = "List" /\ v.values = <<>>
        \/ /\ c.operator \in {"Like", "LikeEscaped"} /\ v.kind = "Pattern"
           /\ v.literal = <<>> /\ (v.leading \/ v.trailing)
        \/ /\ c.operator = "JsonContains" /\ v.kind = "Single"
           /\ v.value \in {Array(<<>>), Object(<<>>)}

RECURSIVE is_restrictive_with(_, _)
is_restrictive_with(g, vacuous) ==
    IF g.combine_with = "And"
    THEN \/ \E c \in Range(g.conditions) : c \notin vacuous
         \/ \E n \in Range(g.nested_groups) : is_restrictive_with(n, vacuous)
    ELSE /\ ~IsEmptyGroup(g)
         /\ \A c \in Range(g.conditions) : c \notin vacuous
         /\ \A n \in Range(g.nested_groups) : IsEmptyGroup(n) \/ is_restrictive_with(n, vacuous)

-------------------------------------------------------------------------------
(* How the filters' docs read a condition                                  *)

Equals(column, cell, v) ==
    CASE v = Null -> cell = Null
      [] IsJsonColumn(column) -> cell = v
      [] OTHER -> cell = Bound(v)

\* What a condition's documentation says it keeps, from the values the caller
\* passed.  A list that excludes nothing keeps every row, NULL or not.
Reads(c, given, row) ==
    LET cell == row[c.column]
    IN  CASE c.operator = "Eq" -> Equals(c.column, cell, given[1])
          [] c.operator = "NotEq" -> cell # Null /\ ~Equals(c.column, cell, given[1])
          [] c.operator = "In" -> \E v \in Range(given) : Equals(c.column, cell, v)
          [] c.operator = "NotIn" ->
                 given = <<>> \/ (cell # Null /\ \A v \in Range(given) : ~Equals(c.column, cell, v))
          [] c.operator \in {"Like", "LikeEscaped"} -> cell # Null /\ Matches(cell, c.value)

\* Every backend's rendering of a condition keeps exactly the rows its
\* documentation says, with NULL cells, NULL among the operands, the null
\* document, empty and long lists.
ConditionsAgree(c, given, row) ==
    \A db \in Backends : (build_condition_expression(db, c, row) = "true") = Reads(c, given, row)

\* A condition taken for a restriction excludes some stored value that is not
\* NULL, whatever the backend
RestrictionsExclude(c, cells) ==
    ~condition_is_vacuous(c) =>
        \A db \in Backends : \E cell \in cells \ {Null} :
            build_condition_expression(db, c, c.column :> cell) # "true"

\* A group is restrictive exactly when rows may satisfy all that is vacuous in
\* it, nothing else, and be excluded
GroupsRestrict(g, vacuous) ==
    ~IsEmptyGroup(g) =>
        (is_restrictive_with(g, vacuous) <=>
            build_or_group_condition(g, [c \in collect_conditions(g) |-> Truth(c \in vacuous)]) # "true")
===============================================================================
