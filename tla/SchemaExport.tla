--------------------------- MODULE SchemaExport ---------------------------
(***************************************************************************)
(* schema/writer.rs: the script SchemaWriter::write_schema makes of a      *)
(* database's catalogs, and what replaying it on an empty database does.   *)
(*                                                                         *)
(* A schema is a set of objects and of references <<how, from, to>>: the   *)
(* clause of `from` in which `to` stands.  A statement makes and drops     *)
(* things, needs others to be there, sets session variables and works      *)
(* under given values of some.  A script is a sequence of batches: sets of *)
(* statements of one sort, which may run in any order.  Names, texts,      *)
(* owners and grants are left out.                                         *)
(***************************************************************************)
EXTENDS Naturals, FiniteSets, Sequences, SequencesExt

LOCAL INSTANCE TLC

CONSTANT Refused        \* what an export that is refused comes to

NoSettings == [variable \in {} |-> Refused]

Statement(makes, needs) ==
    [makes |-> makes, drops |-> {}, needs |-> needs, sets |-> NoSettings, under |-> NoSettings]
Setting(variable, value) == [Statement({}, {}) EXCEPT !.sets = variable :> value]
Under(statement, settings) == [statement EXCEPT !.under = settings]

Thing(name) == <<"object", name>>
Things(names) == {Thing(name) : name \in names}
Creations(names) == {Statement({Thing(name)}, {}) : name \in names}
\* The objects that stand in a clause of `from` of one of these sorts
Used(schema, from, hows) == {ref[3] : ref \in {r \in schema.refs : r[1] \in hows /\ r[2] = from}}
\* One statement for each clause of this sort, which needs the object and what the clause names
Each(schema, how) ==
    {Statement({ref}, {Thing(ref[2]), Thing(ref[3])}) : ref \in {r \in schema.refs : r[1] = how}}
\* One batch after the other, for each of the objects
InTurn(objects, Batches(_)) == FoldLeft(LAMBDA text, object : text \o Batches(object), <<>>, SetToSeq(objects))

EmptyCatalog == [prelude |-> <<>>, definitions |-> <<>>, verbatim |-> <<>>, constraints |-> <<>>]

\* No catalog read leaves a table to the generator, which stands between the prelude and the definitions
write_schema(catalog) ==
    catalog.prelude \o catalog.definitions \o catalog.verbatim \o catalog.constraints

-------------------------------------------------------------------------------
(* PostgreSQL: tables, views, domains, composite types, the row types of   *)
(* the tables, routines and sequences                                      *)

RowTypes(schema) == {schema.row[table] : table \in schema.tables}
\* A row type comes with its table
Standing(schema, name) ==
    IF name \in RowTypes(schema) THEN CHOOSE table \in schema.tables : schema.row[table] = name ELSE name

\* The clauses that are part of the definition; every other one is restored later
InDefinition ==
    {"column", "generated", "inherits", "plain check", "argument", "parsed body", "base", "field", "reads"}

\* A body kept as text names tables that may come later, if the session does not look into it
postgres_node(schema, name) ==
    LET node == Statement({Thing(name)}, {Thing(Standing(schema, used)) : used \in Used(schema, name, InDefinition)})
    IN  IF Used(schema, name, {"quoted body"}) = {} THEN node ELSE Under(node, "check_function_bodies" :> "off")

nodes(schema) ==
    schema.tables \cup schema.views \cup schema.domains \cup schema.composites \cup schema.routines
    \cup {type \in RowTypes(schema) : \E ref \in schema.refs : ref[3] = type}

prelude(schema) == <<Creations(schema.sequences), {Setting("check_function_bodies", "off")}>>

postlude(schema) == <<Each(schema, "domain default") \cup Each(schema, "domain check"), Each(schema, "view default")>>

\* Whom a node waits for: pg_depend, without what a domain has of routines and tables
dependencies_of_domains_too(schema) ==
    {<<ref[2], ref[3]>> : ref \in {r \in schema.refs : r[1] \in InDefinition \cup {"domain default", "domain check"}}}
    \cup {<<schema.row[table], table>> : table \in schema.tables}
dependencies(schema) ==
    {<<ref[2], ref[3]>> : ref \in {r \in schema.refs : r[1] \in InDefinition}}
    \cup {<<schema.row[table], table>> : table \in schema.tables}

\* What waits for nothing that is left is written, until nothing is left
RECURSIVE Emitted(_, _, _)
Emitted(schema, left, output) ==
    LET ready == {name \in left : \A to \in left \ {name} : <<name, to>> \notin dependencies(schema)}
    IN  IF left = {} THEN output
        ELSE IF ready = {} THEN Refused
        ELSE Emitted(schema, left \ ready, 
                     Append(output, {postgres_node(schema, name) : name \in ready \ RowTypes(schema)}))
ordered(schema) == Emitted(schema, nodes(schema), prelude(schema))

\* Where postgres_table puts what it keeps out of the table's definition
table_verbatim(schema) == <<Each(schema, "index"), Each(schema, "default")>>
table_constraints(schema) ==
    <<{Statement({<<"key", table>>}, {Thing(table)}) : table \in schema.tables}, Each(schema, "unvalidated check")>>
foreign_keys(schema) ==
    <<{Statement({ref}, {Thing(ref[2]), <<"key", ref[3]>>}) : ref \in {r \in schema.refs : r[1] = "foreign key"}}>>

\* A replica identity and a CLUSTER designation name an index
postgres_late_statements(schema) ==
    <<Each(schema, "policy"), Each(schema, "trigger"), Each(schema, "rule"),
      {Statement({<<"designated", ref[2]>>}, {ref}) : ref \in {r \in schema.refs : r[1] = "index"}}>>

introspect_postgres(schema) ==
    [prelude |-> <<>>, definitions |-> ordered(schema),
     verbatim |-> Append(table_verbatim(schema), Each(schema, "owned by")),
     constraints |->
         table_constraints(schema) \o postlude(schema) \o <<Each(schema, "routine check")>> \o foreign_keys(schema)
         \o postgres_late_statements(schema) \o <<{Setting("check_function_bodies", "callers")}>>]

write_postgres(schema) ==
    IF schema.unsupported \/ ordered(schema) = Refused THEN Refused
    ELSE write_schema(introspect_postgres(schema))
-------------------------------------------------------------------------------
(* MySQL and MariaDB: tables, sequences, views, and the stored programs    *)
(* (routines, triggers, events), each with the settings it was made under  *)

Canonical == "ANSI_QUOTES"
Client == {"sql_mode", "character_set", "collation_connection", "time_zone"}

save_settings(schema) ==
    <<{Setting("character_set", "utf8mb4"), Setting("sql_mode", Canonical), Setting("database collation", schema.collation)}>>
restore_settings == <<{Setting(variable, "callers") : variable \in Client}>>

\* The table without its foreign keys, which are added when every table is there
mysql_defer_foreign_keys(schema, table) == Statement({Thing(table)}, {})

\* What is said before the mode is the program's own is read in the canonical one
stored_object_mode_kept(program, needs) ==
    <<{Under(Setting("collation_connection", program.collation), "sql_mode" :> Canonical)},
      {Setting("time_zone", program.time_zone), Setting("database collation", program.database_collation),
       Setting("sql_mode", program.sql_mode)},
      {Under(Statement({Thing(program.name)}, needs), "sql_mode" :> program.sql_mode)}>>
stored_object(program, needs) ==
    <<{Setting("sql_mode", Canonical)},
      {Under(Setting("collation_connection", program.collation), "sql_mode" :> Canonical)}
      \cup (IF program.kind = "event" THEN {Setting("time_zone", program.time_zone)} ELSE {}),
      {Setting("database collation", program.database_collation)},
      {Setting("sql_mode", program.sql_mode)},
      {Under(Statement({Thing(program.name)}, needs),
             "sql_mode" :> program.sql_mode @@ "collation_connection" :> program.collation
             @@ "database collation" :> program.database_collation
             @@ IF program.kind = "event" THEN "time_zone" :> program.time_zone ELSE NoSettings)}>>
Programs(schema, kind) == {program \in schema.programs : program.kind = kind}

\* A view is first a table of its columns, so that views may read one another in any order
stand_ins(schema) == Creations(schema.views)
replace_stand_in(schema, view) ==
    <<{Setting("sql_mode", Canonical)},
      {Under(Setting("collation_connection", schema.collation_of[view]), "sql_mode" :> Canonical)},
      {[Statement({}, {Thing(view)}) EXCEPT !.drops = {Thing(view)}]},
      {Under(Statement({Thing(view), <<"view", view>>}, Things(Used(schema, view, {"reads"}))),
             "sql_mode" :> Canonical @@ "collation_connection" :> schema.collation_of[view])}>>

introspect_mysql(schema) ==
    [prelude |-> save_settings(schema),
     definitions |-> <<{mysql_defer_foreign_keys(schema, table) : table \in schema.tables}
                          \cup Creations(schema.sequences), stand_ins(schema)>>,
     verbatim |-> InTurn(Programs(schema, "routine"), LAMBDA program : stored_object(program, {}))
                  \o InTurn(schema.views, LAMBDA view : replace_stand_in(schema, view)),
     constraints |->
         <<Each(schema, "foreign key")>>
         \o InTurn(Programs(schema, "trigger"), LAMBDA program : stored_object(program, {Thing(program.on)}))
         \o InTurn(Programs(schema, "event"), LAMBDA program : stored_object(program, {}))
         \o <<IF schema.programs = {} THEN {} ELSE {Setting("database collation", schema.collation)}>>
         \o restore_settings]

-------------------------------------------------------------------------------
(* SQLite: the statements the catalog keeps.  A virtual table makes its    *)
(* shadow tables itself.                                                   *)

IsExported_shadows_too(object) == TRUE
IsExported(object) == object.kind # "shadow"

SqliteRanks == <<{"table", "shadow"}, {"virtual"}, {"view"}, {"index"}, {"trigger"}>>
SqliteStatement(schema, object) ==
    Statement({Thing(object.name)} \cup {Thing(other.name) : other \in {o \in schema.objects : o.kind = "shadow" /\ o.of = object.name}},
              IF object.kind \in {"index", "trigger"} THEN {Thing(object.of)} ELSE {})
introspect_sqlite(schema) ==
    [EmptyCatalog EXCEPT !.verbatim =
        [rank \in DOMAIN SqliteRanks |->
            {SqliteStatement(schema, object) :
                object \in {o \in schema.objects : o.kind \in SqliteRanks[rank] /\ IsExported(o)}}]]

-------------------------------------------------------------------------------
(* What replaying a script on an empty database does, and the properties   *)

Fresh == [made |-> {}, works |-> TRUE,
          session |-> [variable \in Client \cup {"check_function_bodies", "database collation"} |-> "callers"]]
Run(database, batch) ==
    LET there == database.made \ UNION {statement.drops : statement \in batch}
    IN  [made |-> there \cup UNION {statement.makes : statement \in batch},
         session |-> [variable \in DOMAIN database.session |->
             IF \E statement \in batch : variable \in DOMAIN statement.sets
             THEN (CHOOSE statement \in batch : variable \in DOMAIN statement.sets).sets[variable]
             ELSE database.session[variable]],
         works |->
             /\ database.works
             /\ \A statement \in batch :
                    /\ statement.needs \subseteq database.made
                    /\ \A other \in batch \ {statement} : other.makes \cap statement.makes = {}
                    /\ statement.makes \cap there = {}
                    /\ \A variable \in DOMAIN statement.under :
                           database.session[variable] = statement.under[variable]]
Replay(script) == FoldLeft(Run, Fresh, script)

\* Replaying the script makes every object, each after what it names and under the
\* settings it was made with, and gives the caller their session back.
Restores(script, names, database_collation) ==
    LET after == Replay(script)
    IN  /\ after.works
        /\ Things(names) \subseteq after.made
        /\ \A variable \in DOMAIN after.session \ {"database collation"} : after.session[variable] = "callers"
        /\ after.session["database collation"] = database_collation

\* Objects none of which can be made before another of them
Entangled(schema, names) ==
    \A name \in names : \E used \in Used(schema, name, InDefinition) : Standing(schema, used) \in names

\* A PostgreSQL export restores the schema, clause by clause; it is refused only for
\* objects it does not know, or when there is no order in which the definitions work.
PostgresExportReplays(schema) ==
    LET script == write_postgres(schema)
        names == nodes(schema) \ RowTypes(schema)
        clauses == {ref \in schema.refs : ref[1] \notin InDefinition \cup {"quoted body"}}
    IN  IF script = Refused
        THEN schema.unsupported \/ \E some \in SUBSET names \ {{}} : Entangled(schema, some)
        ELSE Restores(script, names \cup schema.sequences, "callers") /\ clauses \subseteq Replay(script).made

\* A MySQL export restores tables that refer to one another, views over views
\* whatever their names, and every stored program under its own settings.
MysqlExportReplays(schema) ==
    LET script == write_schema(introspect_mysql(schema))
    IN  /\ Restores(script, schema.tables \cup schema.views \cup {program.name : program \in schema.programs}, schema.collation)
        /\ schema.refs \cap {<<"foreign key", a, b>> : a, b \in schema.tables} \subseteq Replay(script).made
        /\ {<<"view", view>> : view \in schema.views} \subseteq Replay(script).made

\* A SQLite export restores every object, and no shadow table a second time.
SqliteExportReplays(schema) ==
    Restores(write_schema(introspect_sqlite(schema)), {object.name : object \in schema.objects}, "callers")
===============================================================================
