------------------------------ MODULE MCLedgers ------------------------------
(***************************************************************************)
(* Migrator, Seeding, MemoryLock, SchemaChanges, SchemaExport and Sync for *)
(* TLC, one at a time: `part` says which one a behaviour is about, and the *)
(* variables of the others rest.                                           *)
(***************************************************************************)
EXTENDS Migrator, MemoryLock, TLC

CONSTANTS p1, p2, t1, t2, t3, NoSeed

VARIABLES
    part,
    s_backend, s_holders, s_ledger, s_rows, s_commits, s_tx, s_task, s_budget, s_forced,
    y_kind, y_db, y_alone, y_sync, y_deaths,
    change              \* a table to create, an alteration to make or a schema to export

s_vars == <<s_backend, s_holders, s_ledger, s_rows, s_commits, s_tx, s_task, s_budget, s_forced>>
y_vars == <<y_kind, y_db, y_alone, y_sync, y_deaths>>
all == <<part, vars, s_vars, lock_vars, y_vars, change>>

-------------------------------------------------------------------------------
(* Migrator: a replica of the release before, and one of this release      *)

TwoReleases == p1 :> {1, 3} @@ p2 :> {1, 2, 3}
OneCallEach == p1 :> 1 @@ p2 :> 1

\* An empty database; a branch merged late; a version one process does not know
Left == {<<>>, <<3, 1>>, <<1, 2>>}

AllOperations ==
    {[name |-> "run"], [name |-> "rollback", steps |-> 2], [name |-> "reset"],
     [name |-> "refresh"], [name |-> "sql", version |-> 2, apply |-> TRUE],
     [name |-> "sql", version |-> 1, apply |-> FALSE]}

-------------------------------------------------------------------------------
(* Seeding: two seeders, one with one call and one seed, which depends on  *)
(* a seed that only the other has                                          *)

Seed(name, priority, depends) == [name |-> name, priority |-> priority, depends |-> depends]

TwoSeeders == p1 :> <<Seed("posts", 1, {"users"}), Seed("users", 2, {})>>
           @@ p2 :> <<Seed("posts", 1, {"users"}), Seed("posts", 3, {})>>

SeedOperations ==
    {[name |-> "run"], [name |-> "refresh"], [name |-> "run_seed", seed |-> "posts"],
     [name |-> "rollback", steps |-> 1], [name |-> "rollback_seed", seed |-> "users"]}

S == INSTANCE Seeding WITH
         Seeders <- TwoSeeders, Names <- {"users", "posts"},
         Operations <- SeedOperations, MaxCalls <- (p1 :> 2 @@ p2 :> 1),
         backend <- s_backend, holders <- s_holders, ledger <- s_ledger, rows <- s_rows,
         commits <- s_commits, tx <- s_tx, task <- s_task, budget <- s_budget, forced <- s_forced

-------------------------------------------------------------------------------
(* Sync: two releases of the models, over an empty database, a table with  *)
(* colliding rows and a column more, and another table's index             *)

Declared(name, rust, default) ==
    [name |-> name, rust |-> rust, nullable |-> FALSE, default |-> default,
     primary_key |-> name = "id", auto_increment |-> name = "id"]
Index(columns, unique) == [name |-> <<"t", columns, unique>>, columns |-> columns, unique |-> unique]
ModelSchema(table, columns, indexes) ==
    [table |-> table, columns |-> <<Declared("id", "i64", "none")>> \o columns,
     primary_keys |-> <<>>, indexes |-> indexes]

OldModels == <<ModelSchema("t", <<Declared("a", "String", "literal")>>, <<Index(<<"a">>, TRUE)>>)>>
\* Two models of t
NewModels ==
    <<ModelSchema("t", <<Declared("a", "String", "literal"), Declared("b", "DateTime<Utc>", "now()")>>,
                  <<Index(<<"a">>, TRUE)>>),
      ModelSchema("u", <<>>, <<>>),
      ModelSchema("t", <<Declared("c", "String", "none")>>, <<Index(<<"c">>, FALSE)>>)>>

Types == INSTANCE Catalog

StoredColumn(on, type, not_null, default, character) ==
    [sql |-> Types!type_to_sql(on, type), numbers |-> FALSE, not_null |-> not_null, default |-> default,
     unique |-> FALSE, character |-> IF on = "MySQL" THEN character ELSE <<>>]
Table(columns, duplicates) == [columns |-> columns, key |-> <<"id">>, uniques |-> <<>>, rows |-> TRUE, duplicates |-> duplicates]
OnTable(table, index) == [name |-> index.name, table |-> table, columns |-> index.columns, unique |-> index.unique]

Empty == [tables |-> <<>>, indexes |-> {}]
SomeDatabases(on) ==
    LET id == StoredColumn(on, "BigInteger", TRUE, "none", <<>>)
        text == StoredColumn(on, "Text", FALSE, "none", <<>>)
    IN  {Empty,
         [tables |-> "t" :> Table("id" :> id @@ "a" :> text @@ "x" :> text, TRUE), indexes |-> {}],
         [tables |-> "v" :> Table("id" :> id, FALSE),
          indexes |-> {[OnTable("v", Index(<<"a">>, TRUE)) EXCEPT !.columns = <<"id">>]}]}

Y == INSTANCE Sync WITH
         NoName <- None, Syncers <- {p1, p2}, Compiled <- (p1 :> OldModels @@ p2 :> NewModels),
         Kinds <- Backends, Databases <- SomeDatabases, MaxDeaths <- 1,
         kind <- y_kind, db <- y_db, alone <- y_alone, sync <- y_sync, deaths <- y_deaths

-------------------------------------------------------------------------------
(* SchemaChanges: up to three operations on a table of two columns, under  *)
(* indexes of every sort, and tables of up to four calls of the builder    *)

Indexings ==
    {{}, {OnTable("t", Index(<<"a">>, TRUE)), OnTable("t", Index(<<"b">>, FALSE))},
     {OnTable("t", Index(<<"a", "b">>, FALSE)), OnTable("t", Index(<<"b">>, FALSE))},
     {OnTable("u", [Index(<<"c">>, TRUE) EXCEPT !.columns = <<"x">>]),
      OnTable("t", Index(<<"a">>, FALSE)), OnTable("t", Index(<<"a">>, TRUE))}}
Altered(on, indexes) ==
    [tables |-> "t" :> Table("a" :> StoredColumn(on, "String", TRUE, "literal",
                                        <<"CHARACTER", "SET", "latin1", "COLLATE", "latin1_bin">>)
                          @@ "b" :> StoredColumn(on, "Text", FALSE, "none", <<>>), FALSE),
     indexes |-> indexes]

ColumnNames == {"a", "b", "c"}
AlterOperations ==
    {[name |-> "drop", column |-> name] : name \in ColumnNames}
    \cup {[name |-> "rename", from |-> from, to |-> to] : from, to \in ColumnNames}
    \cup {[name |-> "change", column |-> name, type |-> type] : name \in ColumnNames, type \in {"Text", "Integer"}}
    \cup {[name |-> "add", column |-> [Types!ColumnDefinition(name, "String") EXCEPT
                                          !.unique = unique, !.nullable = ~unique,
                                          !.default = IF unique THEN "literal" ELSE "none"]] :
              name \in ColumnNames, unique \in BOOLEAN}
\* The columns there are after an operation that can be done; {} when it cannot
NamesAfter(names, operation) ==
    CASE operation.name = "add" ->
             IF operation.column.name \in names THEN {} ELSE names \cup {operation.column.name}
      [] operation.name = "rename" ->
             IF operation.from \in names /\ operation.to \notin names
             THEN (names \ {operation.from}) \cup {operation.to} ELSE {}
      [] operation.name = "drop" -> IF operation.column \in names THEN names \ {operation.column} ELSE {}
      [] operation.name = "change" -> IF operation.column \in names THEN names ELSE {}
Alterations ==
    {operations \in UNION {[1..n -> AlterOperations] : n \in 1..3} :
        {} \notin {Y!FoldLeft(NamesAfter, {"a", "b"}, SubSeq(operations, 1, n)) : n \in DOMAIN operations}}

NewColumn(name, type, chained) == [name |-> "column", column |-> Y!ColumnBuilder(name, type, chained)]
BuilderCalls ==
    {[name |-> "column", column |-> Y!increments_column("id", "BigInteger")],
     NewColumn("a", "String", <<"primary_key">>), NewColumn("a", "String", <<"literal", "not_null", "unique">>),
     NewColumn("b", "Text", <<"literal">>), NewColumn("b", "TimestampTz", <<"now()", "not_null">>),
     NewColumn("c", "Jsonb", <<"not_null", "nullable", "NULL">>), NewColumn("c", "Integer", <<"(expression)", "not_null">>),
     [name |-> "timestamps"], [name |-> "soft_deletes"],
     [name |-> "primary_key", columns |-> <<"a", "c">>], [name |-> "unique", columns |-> <<"a">>],
     [name |-> "index", columns |-> <<"a">>, unique |-> TRUE],
     [name |-> "index", columns |-> <<"id", "a">>, unique |-> FALSE]}
ColumnsOf(calls) == {i \in DOMAIN calls : calls[i].name = "column"}
TableCalls ==
    {calls \in UNION {[1..n -> BuilderCalls] : n \in 1..4} :
        LET names == {calls[i].column.name : i \in ColumnsOf(calls)}
        IN  /\ ColumnsOf(calls) # {} /\ Cardinality(names) = Cardinality(ColumnsOf(calls))
            /\ \A i \in {j \in DOMAIN calls : "columns" \in DOMAIN calls[j]} : Range(calls[i].columns) \subseteq names
            /\ \A i, j \in DOMAIN calls : calls[i] = calls[j] => i = j}
    \cup {<<[name |-> "column", column |-> Y!increments_column("id", type)]>> : type \in Types!IntegerTypes}

-------------------------------------------------------------------------------
(* SchemaExport: every pair of references between two tables, a view, a    *)
(* domain, a composite type, a routine and a sequence, and three of those  *)
(* that bind definitions together; views over views and stored programs;   *)
(* a virtual table with its shadow tables                                  *)

X == INSTANCE SchemaExport WITH Refused <- None

Tables == {"a", "b"}
TypeNames == {"d", "c", "a row", "b row"}
References ==
    ({"column"} \X Tables \X TypeNames) \cup ({"foreign key"} \X Tables \X Tables)
    \cup ({"generated", "routine check", "default", "index", "trigger", "policy"} \X Tables \X {"f"})
    \cup ({"plain check", "unvalidated check"} \X Tables \X {"d"})
    \cup ({"argument"} \X {"f"} \X TypeNames) \cup ({"parsed body", "quoted body"} \X {"f"} \X {"b", "v"})
    \cup {<<"inherits", "b", "a">>, <<"default", "a", "s">>, <<"owned by", "s", "a">>,
          <<"base", "d", "c">>, <<"field", "c", "d">>, <<"field", "c", "a row">>,
          <<"domain check", "d", "f">>, <<"domain default", "d", "f">>,
          <<"reads", "v", "a">>, <<"reads", "v", "f">>, <<"view default", "v", "f">>,
          <<"rule", "v", "b">>, <<"trigger", "v", "f">>}
Binding ==
    {ref \in References : /\ ref[1] \in X!InDefinition \cup {"domain check", "foreign key"}
                          /\ ref[2] # "b" /\ ref[3] # "b row"}
PostgresSchemas ==
    [tables : {Tables}, row : {"a" :> "a row" @@ "b" :> "b row"}, views : {{"v"}}, domains : {{"d"}},
     composites : {{"c"}}, routines : {{"f"}}, sequences : {{"s"}}, unsupported : BOOLEAN,
     refs : {{one, two} : one, two \in References} \cup {{one, two, three} : one, two, three \in Binding}]

Program(kind, mode, zone, collation) ==
    [kind |-> kind, name |-> kind, on |-> "a", sql_mode |-> mode, time_zone |-> zone, collation |-> collation,
     database_collation |-> "latin1"]
StoredPrograms ==
    {Program("routine", "ANSI", "UTC", "latin1"), Program("trigger", "", "CET", "utf8"),
     Program("event", "ANSI", "CET", "latin1")}
MysqlSchemas ==
    {schema \in
        [tables : {Tables}, sequences : {{"s"}}, views : {{"v", "w"}}, collation : {"utf8"},
         collation_of : {"v" :> "latin1" @@ "w" :> "utf8"}, programs : SUBSET StoredPrograms,
         refs : SUBSET (({"foreign key"} \X Tables \X Tables)
                        \cup {<<"reads", "v", "w">>, <<"reads", "w", "b">>, <<"reads", "w", "v">>,
                              <<"reads", "v", "routine">>})] :
        /\ ~({<<"reads", "v", "w">>, <<"reads", "w", "v">>} \subseteq schema.refs)
        /\ <<"reads", "v", "routine">> \in schema.refs => X!Programs(schema, "routine") # {}}

SqliteObjects ==
    {[kind |-> object[1], name |-> object[2], of |-> object[3]] :
        object \in {<<"table", "z", "">>, <<"virtual", "y", "">>, <<"shadow", "y_data", "y">>,
                    <<"view", "x", "">>, <<"index", "i", "z">>, <<"trigger", "a", "x">>, <<"trigger", "b", "z">>}}
SqliteSchemas ==
    {schema \in [objects : SUBSET SqliteObjects] :
        \A object \in schema.objects :
            object.of # "" => \E other \in schema.objects : other.name = object.of}

ExportRestores(on, schema) ==
    CASE on = "Postgres" -> X!PostgresExportReplays(schema)
      [] on = "MySQL" -> X!MysqlExportReplays(schema)
      [] on = "SQLite" -> X!SqliteExportReplays(schema)

-------------------------------------------------------------------------------
NoChange == [ask |-> "none"]
Changes ==
    [ask : {"create"}, on : Backends, calls : TableCalls]
    \cup [ask : {"alter"}, on : Backends, indexes : Indexings, operations : Alterations]
    \cup [ask : {"export"}, on : {"Postgres"}, schema : PostgresSchemas]
    \cup [ask : {"export"}, on : {"MySQL"}, schema : MysqlSchemas]
    \cup [ask : {"export"}, on : {"SQLite"}, schema : SqliteSchemas]

CreationIsAsDeclared(builder) ==
    /\ Y!CreatedAsDeclared(change.on, Empty, "t", builder)
    /\ Y!CreationResumes(change.on, Empty, "t", builder)
AlterationIsAsAsked(before) ==
    /\ Y!OneAlterationOrMany(change.on, before, "t", change.operations)
    /\ Len(change.operations) = 1 =>
           Y!OperationKeepsTheRest(change.on, before, "t", change.operations[1])

-------------------------------------------------------------------------------
MCInit ==
    /\ part \in {"migrator", "seeding", "memory lock", "sync", "changes"}
    /\ Init /\ S!Init /\ LockInit /\ Y!Init
    /\ change = NoChange
    /\ part # "migrator" => backend = "SQLite" /\ ledger = <<>> /\ ~dangling
    /\ part # "seeding" => s_backend = "SQLite"
    /\ part # "sync" => y_kind = "SQLite" /\ y_db = Empty /\ ~y_alone

MigratorStep(A) == part = "migrator" /\ A /\ UNCHANGED <<part, s_vars, lock_vars, y_vars, change>>
SeedingStep(A) == part = "seeding" /\ A /\ UNCHANGED <<part, vars, lock_vars, y_vars, change>>
MemoryStep(A) == part = "memory lock" /\ A /\ UNCHANGED <<part, vars, s_vars, y_vars, change>>
SyncStep == part = "sync" /\ Y!Next /\ UNCHANGED <<part, vars, s_vars, lock_vars, change>>
AskChange == part = "changes" /\ change = NoChange /\ change' \in Changes /\ UNCHANGED <<part, vars, s_vars, lock_vars, y_vars>>
ChangeMade == change # NoChange /\ change' = NoChange /\ UNCHANGED <<part, vars, s_vars, lock_vars, y_vars>>

MCNext ==
    \/ MigratorStep(Next) \/ SeedingStep(S!Next) \/ MemoryStep(LockNext)
    \/ SyncStep \/ AskChange \/ ChangeMade

MCSpec ==
    /\ MCInit /\ [][MCNext]_all
    /\ \A p \in Processes : WF_all(MigratorStep(Step(p)) \/ SeedingStep(S!Step(p)))
    /\ WF_all(MigratorStep(\E work \in Works : LateEnds(work)))

\* Seeding!LedgerTellsRows, SeededOnce, DependenciesFirst and StaleRunsNothing: a
\* seed is recorded exactly when its data is there, racing seeders put it in once,
\* after the data of what it depends on, and no callback runs in a transaction too
\* old to write.
SeedsRunOnce == S!LedgerTellsRows /\ S!SeededOnce /\ S!DependenciesFirst /\ S!StaleRunsNothing
\* Migrator!NewestFirst and NoNewDangling, and Sync!SyncOnlyAdds: versions are
\* rolled back newest first, no rebuild leaves dangling foreign keys it did not
\* find, and no sync loses anything but a registered table it was forced to drop.
StepsKeepTheSchema == NewestFirst /\ NoNewDangling /\ [][part = "sync" => Y!SyncOnlyAdds]_y_vars
\* Sync!SyncedAsDeclared and SyncResumes, and SchemaChanges!CreatedAsDeclared,
\* CreationResumes, OneAlterationOrMany and OperationKeepsTheRest: what a table
\* builder, an alteration or a sync leaves in the database is what was declared,
\* on every backend, also when an earlier attempt stopped half way; and replaying
\* an exported schema makes it again (SchemaExport!PostgresExportReplays,
\* MysqlExportReplays and SqliteExportReplays).
TablesAreAsDeclared ==
    /\ Y!SyncedAsDeclared /\ Y!SyncResumes
    /\ change.ask = "create" => CreationIsAsDeclared(Y!Built("t", change.calls))
    /\ change.ask = "alter" => AlterationIsAsAsked(Altered(change.on, change.indexes))
    /\ change.ask = "export" => ExportRestores(change.on, change.schema)
\* Migrator!CallsReturn and Seeding!CallsReturn: every call returns.
EveryCallReturns == []<>(Quiet /\ S!Quiet)
===============================================================================
