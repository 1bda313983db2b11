--------------------------------- MODULE Tags ---------------------------------
(***************************************************************************)
(* The tables a cached query is tagged with (src/src/query/sql/execution,  *)
(* cache_tables): its own, its joined ones, those of the queries it is     *)
(* composed of, and those found word by word in caller-written SQL.        *)
(*                                                                         *)
(* SQL is a sequence of tokens <<kind, text>>: a "word", a quoted "name",  *)
(* a "literal" or a "symbol".  Beside it stand statements a caller may     *)
(* write, each as its tokens and the tables it reads.                      *)
(***************************************************************************)
EXTENDS Naturals, Sequences, SequencesExt, FiniteSets

Word(text) == <<"word", text>>
Name(text) == <<"name", text>>
Symbol(text) == <<"symbol", text>>
Dot == Symbol(".")
Open == Symbol("(")
Close == Symbol(")")
Comma == Symbol(",")

-------------------------------------------------------------------------------
(* Words                                                                   *)

IsName(token) == token[1] \in {"word", "name"}

\* The next word with the dotted parts that belong to it
RECURSIVE Dotted(_)
Dotted(tokens) ==
    IF Len(tokens) >= 3 /\ tokens[2] = Dot THEN <<tokens[1]>> \o Dotted(SubSeq(tokens, 3, Len(tokens))) ELSE <<tokens[1]>>

\* Names with their parts, and the symbols between; literals are left out.
RECURSIVE WordsOf(_)
WordsOf(tokens) ==
    IF tokens = <<>> THEN <<>>
    ELSE IF ~IsName(tokens[1]) THEN <<<<tokens[1]>>>> \o WordsOf(Tail(tokens))
    ELSE <<Dotted(tokens)>> \o WordsOf(SubSeq(tokens, 2 * Len(Dotted(tokens)), Len(tokens)))
sql_tokens(tokens) == WordsOf(SelectSeq(tokens, LAMBDA t : t[1] # "literal"))

\* The bare name of a table reference, in a set, or nothing
normalize_table_name(reference) ==
    IF \A i \in DOMAIN reference : IsName(reference[i]) THEN {Last(reference)[2]} ELSE {}

\* Mutant: a quoted name may be a keyword.
Says_unquoted(word, texts) == Len(word) = 1 /\ word[1][2] \in texts

Says(word, texts) == Len(word) = 1 /\ word[1][1] = "word" /\ word[1][2] \in texts

-------------------------------------------------------------------------------
(* The tables of a text                                                    *)

NotATable == {"select", "unnest", "values"}
BeforeATable == {"only", "lateral"}
ListEnd == {"where", "group", "order", "limit", "offset", "having", "union", "intersect", "except", "window", "for",
            "returning", "fetch"}

\* One word: the depth of parentheses, that of each FROM list being read
\* (innermost last), and whether a table comes next
InList(state) == state.lists # <<>> /\ Last(state.lists) = state.depth
AfterWord(state, word) ==
    LET ended == IF InList(state) /\ Says(word, ListEnd) THEN [state EXCEPT !.lists = Front(@)] ELSE state
    IN  IF ~state.expect \/ Says(word, BeforeATable) THEN ended
        ELSE IF Says(word, NotATable) THEN [ended EXCEPT !.expect = FALSE]
        ELSE [ended EXCEPT !.expect = FALSE, !.tables = @ \cup normalize_table_name(word)]

\* Mutant: a group of tables is read up to its first.
Step_no_groups(state, word) ==
    CASE word = <<Open>> -> [state EXCEPT !.depth = @ + 1]
      [] word = <<Close>> -> [state EXCEPT !.depth = @ - 1, !.lists = SelectSeq(@, LAMBDA d : d <= state.depth - 1)]
      [] word = <<Comma>> -> [state EXCEPT !.expect = InList(state)]
      [] Says(word, {"from"}) -> [state EXCEPT !.lists = Append(@, state.depth), !.expect = TRUE]
      [] Says(word, {"join"}) -> [state EXCEPT !.expect = TRUE]
      [] OTHER -> AfterWord(state, word)

Step(state, word) ==
    CASE word = <<Open>> ->
            [state EXCEPT !.depth = @ + 1, !.lists = IF state.expect THEN Append(@, state.depth + 1) ELSE @]
      [] word = <<Close>> ->
            LET depth == IF state.depth = 0 THEN 0 ELSE state.depth - 1
            IN  [state EXCEPT !.depth = depth, !.lists = SelectSeq(@, LAMBDA d : d <= depth)]
      [] word = <<Comma>> -> [state EXCEPT !.expect = InList(state)]
      [] Says(word, {"from"}) -> [state EXCEPT !.lists = Append(@, state.depth), !.expect = TRUE]
      [] Says(word, {"join"}) -> [state EXCEPT !.expect = TRUE]
      [] OTHER -> AfterWord(state, word)

collect_tables_from_sql(sql) ==
    FoldLeft(Step, [depth |-> 0, lists |-> <<>>, expect |-> FALSE, tables |-> {}], sql_tokens(sql)).tables

-------------------------------------------------------------------------------
(* A query: its table, joined tables, the texts it holds by place, and the *)
(* tables of the queries it was composed of                                *)

Places ==
    {"union", "cte", "subquery", "projection", "having", "order", "condition"}
QueryOf(table) == [table |-> table, dependencies |-> {}, joins |-> {}, texts |-> [place \in Places |-> <<>>]]

\* Mutant: texts of an ordering are not looked at.
cache_tables_without_order(q) ==
    {q.table} \cup q.dependencies \cup UNION {normalize_table_name(j) : j \in q.joins} \cup
    UNION {collect_tables_from_sql(q.texts[place]) : place \in Places \ {"order"}}

cache_tables(q) ==
    {q.table} \cup q.dependencies \cup UNION {normalize_table_name(j) : j \in q.joins} \cup
    UNION {collect_tables_from_sql(q.texts[place]) : place \in Places}

\* A query composed of another remembers what that one reads.
absorb_operand_error(q, operand) == [q EXCEPT !.dependencies = @ \cup cache_tables(operand)]

-------------------------------------------------------------------------------
(* Statements a caller may write                                           *)

Part(sql, tables) == [sql |-> sql, reads |-> tables]
Joined(parts, between) ==
    Part(FlattenSeq([i \in 1..(2 * Len(parts) - 1) |-> IF i % 2 = 1 THEN parts[(i + 1) \div 2].sql ELSE between]),
         UNION {parts[i].reads : i \in DOMAIN parts})
Around(before, part, after) == Part(before \o part.sql \o after, part.reads)

\* A table, by a plain, a quoted or a qualified name, after ONLY, and with an alias
Tables ==
    {Part(<<Word("t")>>, {"t"}), Part(<<Name("from")>>, {"from"}), Part(<<Name("where")>>, {"where"}),
     Part(<<Word("x"), Dot, Word("u")>>, {"u"}), Part(<<Word("only"), Word("v")>>, {"v"}),
     Part(<<Word("w"), Word("as"), Word("alias")>>, {"w"})}
Function == Part(<<Word("f"), Open, Word("a"), Comma, <<"literal", "from">>, Close>>, {})

On == <<Word("on"), Word("a")>>
Lists(factors) ==
    factors \cup {Joined(<<a, b>>, <<Comma>>) : a, b \in factors} \cup
    {Around(<<>>, Joined(<<a, b>>, <<Word("left"), Word("join")>>), On) : a, b \in factors}
Grouped(lists) == {Around(<<Open>>, list, <<Close>>) : list \in lists}

Tails == {<<>>, <<Word("where"), Word("a"), Symbol("="), Name("t"), Dot, Word("b")>>,
          <<Word("order"), Word("by"), Word("a"), Comma, Word("b")>>}
SelectFrom(lists) ==
    {Around(<<Word("select"), Word("a"), Comma, Word("b"), Word("from")>>, list, tail) : list \in lists, tail \in Tails}
Derived(selects) ==
    {Around(lateral \o <<Open>>, s, <<Close, Word("d")>>) : s \in selects, lateral \in {<<>>, <<Word("lateral")>>}}
Filtering(selects, inner) ==
    {Joined(<<s, Around(<<Word("where"), Word("a"), Word("in"), Open>>, i, <<Close>>)>>, <<>>) : s \in selects, i \in inner}
Combined(selects, others) == {Joined(<<a, b>>, <<Word("union"), Word("all")>>) : a \in selects, b \in others}

\* Every table a statement reads is tagged, wherever the query holds it, also
\* when the query is an operand of another (cache_tables,
\* collect_tables_from_sql): a write to it drops what was cached.
TagsCoverReads(part, place) ==
    LET q == [QueryOf("m") EXCEPT !.texts[place] = part.sql, !.joins = {<<Word("x"), Word("j")>>}]
    IN  {"m", "n", "j"} \cup part.reads \subseteq cache_tables(absorb_operand_error(QueryOf("n"), q))
===============================================================================
