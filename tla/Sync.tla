-------------------------------- MODULE Sync --------------------------------
(***************************************************************************)
(* Schema sync: each process registers its models' tables and brings the   *)
(* database to them, one statement at a time, on a pool and outside any    *)
(* transaction (sync.rs, sync/schema.rs).                                  *)
(*                                                                         *)
(* What one statement found is used by a later one: whether the table was  *)
(* there decides how its indexes are created, and the columns found        *)
(* missing are added one by one.  A process may die between any two        *)
(* statements and start over, and another release of the program may sync  *)
(* the same database at the same time.                                     *)
(*                                                                         *)
(* A model's schema is the connection's default one, names are compared as *)
(* they are, and what another client does to the database is left out.     *)
(***************************************************************************)
EXTENDS SchemaChanges

CONSTANTS
    Syncers,          \* processes
    Compiled,         \* Compiled[p]: the model schemas p registers, in order
    Kinds,            \* the backends
    Databases(_),     \* Databases(kind): what a database may hold before
    MaxDeaths         \* bound on processes dying

VARIABLES
    kind,             \* the backend
    db,               \* the database: Catalog's tables and indexes
    alone,            \* whether one process syncs, with or without force
    sync,             \* sync[p]: the call p is in
    deaths

sync_vars == <<kind, db, alone, sync, deaths>>

-------------------------------------------------------------------------------
(* Registering                                                             *)

push_missing_by_name(known, added) ==
    FoldLeft(LAMBDA so_far, item :
                IF \E i \in DOMAIN so_far : so_far[i].name = item.name THEN so_far ELSE Append(so_far, item),
             known, added)

register_schema_first(schemas, schema) ==
    IF \E i \in DOMAIN schemas : schemas[i].table = schema.table THEN schemas ELSE Append(schemas, schema)

\* Two models of one table are one schema with the columns and indexes of both
register_schema(schemas, schema) ==
    IF \E i \in DOMAIN schemas : schemas[i].table = schema.table
    THEN [i \in DOMAIN schemas |->
             IF schemas[i].table # schema.table THEN schemas[i]
             ELSE [schemas[i] EXCEPT !.columns = push_missing_by_name(@, schema.columns),
                                     !.indexes = push_missing_by_name(@, schema.indexes)]]
    ELSE Append(schemas, schema)

SchemasOf(p) == FoldLeft(register_schema, <<>>, Compiled[p])

-------------------------------------------------------------------------------
(* What a model declares, as this backend's DDL                            *)

primary_key_columns(model) ==
    IF model.primary_keys # <<>> THEN model.primary_keys
    ELSE LET keys == SelectSeq(model.columns, LAMBDA column : column.primary_key)
         IN  [i \in DOMAIN keys |-> keys[i].name]

column_type(column) ==
    LET mapped == rust_type_to_column_type(column.rust)
    IN  IF mapped = "none" THEN "Text" ELSE mapped

keyed_column_type_plain(backend, model, column) == column_type(column)

\* MySQL keys no unbounded text
keyed_column_type(backend, model, column) ==
    LET keyed == \/ Contains(primary_key_columns(model), column.name)
                 \/ \E i \in DOMAIN model.indexes : Contains(model.indexes[i].columns, column.name)
    IN  IF backend = "MySQL" /\ keyed /\ column_type(column) = "Text" THEN "String" ELSE column_type(column)

column_definition(column, type, single_key) ==
    [ColumnDefinition(column.name, type) EXCEPT
        !.nullable = column.nullable, !.default = column.default, !.primary_key = single_key,
        !.auto_increment = column.auto_increment /\ can_auto_increment(type)]

build_create_table_sql(backend, model) ==
    LET key == primary_key_columns(model)
    IN  create_table(backend, model.table,
            [i \in DOMAIN model.columns |->
                column_definition(model.columns[i], keyed_column_type(backend, model, model.columns[i]),
                                  key = <<model.columns[i].name>>)],
            key, <<>>, TRUE)

\* Rows that are there cannot be given what has no default, nor SQLite's a
\* default it does not add: the column is added without
AddedAsDeclared(backend, column, type) ==
    [ColumnDefinition(column.name, type) EXCEPT !.default = column.default, !.nullable = column.nullable]

Added(backend, column, type) ==
    LET plain == [ColumnDefinition(column.name, type) EXCEPT !.default = column.default]
    IN  CASE backend = "SQLite" /\ column.default # "none" /\ ~sqlite_can_add_with_default(column.default) ->
                 [plain EXCEPT !.default = "none"]
          [] OTHER ->
                 [plain EXCEPT !.nullable = column.nullable \/ column.auto_increment \/ column.default = "none"]

add_missing_column(backend, model, column) ==
    [kind |-> "add column", table |-> model.table,
     clause |-> to_sql(backend, Added(backend, column, keyed_column_type(backend, model, column)))]

\* The declared columns a table lacks; the ones it has more are left alone
diff_columns(model, existing) == SelectSeq(model.columns, LAMBDA column : column.name \notin existing)

-------------------------------------------------------------------------------
(* A call of sync_database_with_options                                    *)

Idle == [pc |-> "idle"]

Init ==
    /\ kind \in Kinds
    /\ db \in Databases(kind)
    /\ alone \in BOOLEAN
    /\ sync = [p \in Syncers |-> Idle]
    /\ deaths = 0

Model(p) == sync[p].models[1]
Exists(p) == Model(p).table \in DOMAIN db.tables
Go(p, pc) == sync' = [sync EXCEPT ![p].pc = pc]
Fail(p) == sync' = [sync EXCEPT ![p].pc = "failed"]

\* Run one statement, and go on, or return its error
Statement(p, statement, next) ==
    IF Accepts(kind, db, statement)
    THEN db' = Applied(kind, db, statement) /\ sync' = [sync EXCEPT ![p] = next]
    ELSE db' = db /\ Fail(p)

\* The models are copied from the registry once; without any the call fails
sync_database_with_options(p, force_sync) ==
    /\ sync[p].pc = "idle"
    /\ alone => \A other \in Syncers : sync[other] = Idle
    /\ force_sync => alone
    /\ sync' = [sync EXCEPT ![p] =
                   [pc |-> IF SchemasOf(p) = <<>> THEN "failed" ELSE "check", force |-> force_sync,
                    models |-> SchemasOf(p), created |-> FALSE, columns |-> <<>>, indexes |-> <<>>]]
    /\ UNCHANGED db

check_table_exists(p) ==
    /\ sync[p].pc = "check"
    /\ sync' = [sync EXCEPT ![p].created = ~Exists(p) \/ sync[p].force,
                            ![p].pc = CASE ~Exists(p)      -> "create"
                                        [] sync[p].force   -> "drop"
                                        [] OTHER           -> "inspect"]
    /\ UNCHANGED db

drop_registered(p) ==
    /\ sync[p].pc = "drop"
    /\ Statement(p, [kind |-> "drop table", table |-> Model(p).table, if_exists |-> TRUE],
                 [sync[p] EXCEPT !.pc = "create"])

WithIndexes(p) == [sync[p] EXCEPT !.pc = "index owner", !.indexes = Model(p).indexes]

create_registered(p) ==
    /\ sync[p].pc = "create"
    /\ Statement(p, build_create_table_sql(kind, Model(p)), WithIndexes(p))

\* No column at all means the table could not be read, or is gone
fetch_existing_columns(p) ==
    /\ sync[p].pc = "inspect"
    /\ IF ~Exists(p) THEN Fail(p)
       ELSE LET missing == diff_columns(Model(p), DOMAIN db.tables[Model(p).table].columns)
            IN  sync' = [sync EXCEPT ![p] = IF missing = <<>> THEN WithIndexes(p)
                                            ELSE [sync[p] EXCEPT !.pc = "add", !.columns = missing]]
    /\ UNCHANGED db

add_missing(p) ==
    /\ sync[p].pc = "add"
    /\ Statement(p, add_missing_column(kind, Model(p), sync[p].columns[1]),
                 IF Len(sync[p].columns) = 1 THEN [WithIndexes(p) EXCEPT !.columns = <<>>]
                 ELSE [sync[p] EXCEPT !.columns = Tail(@)])

NextIndex(p) == [sync[p] EXCEPT !.pc = "index owner", !.indexes = Tail(@)]

\* Before an index: whose it is where names are the database's, whether it is
\* there where they are the table's.  After the last one, the next model
check_index_owner(p) ==
    /\ sync[p].pc = "index owner"
    /\ IF sync[p].indexes = <<>>
       THEN sync' = [sync EXCEPT ![p].models = Tail(@),
                                 ![p].pc = IF Len(sync[p].models) = 1 THEN "done" ELSE "check"]
       ELSE LET wanted == sync[p].indexes[1]
                named == {index \in db.indexes : index.name = wanted.name}
            IN  CASE kind # "MySQL" /\ \E index \in named : index.table # Model(p).table -> Fail(p)
                  [] kind = "MySQL" /\ mysql_index_exists(db, Model(p).table, wanted.name) ->
                         sync' = [sync EXCEPT ![p] = NextIndex(p)]
                  [] OTHER -> Go(p, "index")
    /\ UNCHANGED db

IndexStatement(p) == create_index(kind, Model(p).table, sync[p].indexes[1], ~sync[p].created)

\* A new table's index must come to be; an older one's may wait for its rows
sync_indexes(p) ==
    /\ sync[p].pc = "index"
    /\ CASE Accepts(kind, db, IndexStatement(p)) ->
               /\ db' = Applied(kind, db, IndexStatement(p))
               /\ sync' = [sync EXCEPT ![p] = NextIndex(p)]
         [] ~Accepts(kind, db, IndexStatement(p)) /\ sync[p].created -> Fail(p) /\ UNCHANGED db
         [] OTHER -> sync' = [sync EXCEPT ![p] = NextIndex(p)] /\ UNCHANGED db

Step(p) ==
    /\ \/ check_table_exists(p) \/ drop_registered(p) \/ create_registered(p) \/ fetch_existing_columns(p)
       \/ add_missing(p) \/ check_index_owner(p) \/ sync_indexes(p)
    /\ UNCHANGED <<kind, alone, deaths>>

Call(p) == (\E force_sync \in BOOLEAN : sync_database_with_options(p, force_sync)) /\ UNCHANGED <<kind, alone, deaths>>

\* The process dies and starts over
Die(p) ==
    /\ deaths < MaxDeaths /\ sync[p].pc \notin {"idle", "done", "failed"}
    /\ deaths' = deaths + 1
    /\ sync' = [sync EXCEPT ![p] = Idle]
    /\ UNCHANGED <<kind, db, alone>>

Next == \E p \in Syncers : Call(p) \/ Step(p) \/ Die(p)

-------------------------------------------------------------------------------
(* Properties                                                              *)

IndexThere(model, index) == \E i \in IndexesOf(db, model.table) : i.name = index.name

\* When a call returns, every table, column and index registered is there; only
\* an index the database still refuses may be missing (sync_model_schemas).
SyncedAsDeclared ==
    \A p \in Syncers : sync[p].pc = "done" =>
        \A m \in DOMAIN Compiled[p] :
            LET model == Compiled[p][m]
            IN  /\ model.table \in DOMAIN db.tables
                /\ \A i \in DOMAIN model.columns : model.columns[i].name \in DOMAIN db.tables[model.table].columns
                /\ \A i \in DOMAIN model.indexes :
                       \/ IndexThere(model, model.indexes[i])
                       \/ ~Accepts(kind, db, create_index(kind, model.table, model.indexes[i], TRUE))

\* Index names the models take that another table's index has
ForeignName ==
    \E p \in Syncers : \E m \in DOMAIN Compiled[p] :
        \E i \in DOMAIN Compiled[p][m].indexes, index \in db.indexes :
            /\ index.name = Compiled[p][m].indexes[i].name
            /\ index.table # Compiled[p][m].table

\* A process syncing alone, also after dying anywhere in an earlier call, fails
\* only over an index name that is another table's (reconcile_existing_table,
\* add_missing_column, sync_indexes).
SyncResumes ==
    \A p \in Syncers : alone /\ sync[p].pc = "failed" => ForeignName /\ kind # "MySQL"

\* Without force no table, column, row or index is ever lost, whoever syncs
\* beside whom; with force only tables that are registered (sync_model_schemas).
SyncOnlyAdds ==
    /\ \A table \in DOMAIN db.tables :
           \/ /\ table \in DOMAIN db'.tables
              /\ \A name \in DOMAIN db.tables[table].columns :
                     /\ name \in DOMAIN db'.tables[table].columns
                     /\ db'.tables[table].columns[name] = db.tables[table].columns[name]
              /\ IndexesOf(db, table) \subseteq IndexesOf(db', table)
              /\ db'.tables[table].rows = db.tables[table].rows
           \/ \E p \in Syncers : sync[p].pc = "drop" /\ sync[p].force /\ Model(p).table = table

===============================================================================
