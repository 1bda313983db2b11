------------------------------- MODULE Catalog -------------------------------
(***************************************************************************)
(* Logical column types, what each backend calls them, and one column of   *)
(* a CREATE TABLE or an ADD COLUMN (migration/types.rs, migration/ddl.rs,  *)
(* schema/types.rs); and what the databases do with the DDL migrations and *)
(* sync send them, as far as that DDL relies on it: external.              *)
(*                                                                         *)
(* A type is its constructor's name, lengths and precisions left out; a    *)
(* Rust type is the key its spelling is reduced to.  A default is the form *)
(* of its text: a literal, NULL, a parenthesized expression, or one of the *)
(* two kinds of spelling of the current time, CURRENT_TIMESTAMP and the    *)
(* function calls.  CHECK clauses and extra SQL are written as they are,   *)
(* on every backend, and left out.                                         *)
(*                                                                         *)
(* A database is its tables and its indexes; a table its columns, its key, *)
(* its unique constraints, whether it has rows, and whether two collide    *)
(* under a unique index.  A column is stored as its clause, with the words *)
(* of its character set and collation where MySQL shows them.              *)
(***************************************************************************)
EXTENDS Naturals, Sequences, FiniteSets, SequencesExt

IntegerTypes == {"SmallInteger", "Integer", "BigInteger",
                 "TinyUnsigned", "SmallUnsigned", "Unsigned", "BigUnsigned"}
Arrays == {"IntegerArray", "BigIntegerArray", "TextArray", "BooleanArray", "DoubleArray", "JsonArray"}
Times == {"DateTime", "Timestamp", "TimestampTz"}
ColumnType ==
    IntegerTypes \cup Arrays \cup Times \cup
    {"Float", "Double", "Decimal", "Numeric", "String", "Varchar", "Text", "Boolean",
     "Date", "Time", "Uuid", "Json", "Jsonb", "Binary", "Custom"}

can_auto_increment(type) == type \in IntegerTypes \cup {"Custom"}

to_postgres_sql(type) ==
    CASE type \in {"SmallInteger", "TinyUnsigned"}        -> "SMALLINT"
      [] type \in {"Integer", "SmallUnsigned", "Unsigned"} -> "INTEGER"
      [] type \in {"BigInteger", "BigUnsigned"}           -> "BIGINT"
      [] type = "Float"                                   -> "REAL"
      [] type = "Double"                                  -> "DOUBLE PRECISION"
      [] type \in {"Decimal", "Numeric"}                  -> "DECIMAL"
      [] type \in {"String", "Varchar"}                   -> "VARCHAR"
      [] type \in {"DateTime", "Timestamp"}               -> "TIMESTAMP"
      [] type = "Binary"                                  -> "BYTEA"
      [] type \in Arrays                                  -> "ARRAY"
      [] OTHER                                            -> type

to_mysql_sql(type) ==
    CASE type = "SmallInteger"                   -> "SMALLINT"
      [] type = "Integer"                        -> "INT"
      [] type = "BigInteger"                     -> "BIGINT"
      [] type = "TinyUnsigned"                   -> "TINYINT UNSIGNED"
      [] type = "SmallUnsigned"                  -> "SMALLINT UNSIGNED"
      [] type = "Unsigned"                       -> "INT UNSIGNED"
      [] type = "BigUnsigned"                    -> "BIGINT UNSIGNED"
      [] type \in {"Decimal", "Numeric"}         -> "DECIMAL"
      [] type \in {"String", "Varchar"}          -> "VARCHAR"
      [] type = "Text"                           -> "LONGTEXT"
      [] type = "Boolean"                        -> "TINYINT(1)"
      [] type = "Time"                           -> "TIME(6)"
      [] type \in Times                          -> "DATETIME(6)"
      [] type = "Uuid"                           -> "BINARY(16)"
      [] type \in Arrays \cup {"Json", "Jsonb"}  -> "JSON"
      [] type = "Binary"                         -> "LONGBLOB"
      [] OTHER                                   -> type

to_sqlite_sql(type) ==
    CASE type \in IntegerTypes \cup {"Boolean"}                  -> "INTEGER"
      [] type \in {"Float", "Double", "Decimal", "Numeric"}  -> "REAL"
      [] type = "Binary"                                     -> "BLOB"
      [] type = "Custom"                                     -> type
      [] OTHER                                               -> "TEXT"

type_to_sql(backend, type) ==
    CASE backend = "Postgres" -> to_postgres_sql(type)
      [] backend = "MySQL"    -> to_mysql_sql(type)
      [] backend = "SQLite"   -> to_sqlite_sql(type)

\* "none" for a type without a serial of its width
postgres_serial_type(sql) ==
    CASE sql = "SMALLINT" -> "SMALLSERIAL"
      [] sql = "INTEGER"  -> "SERIAL"
      [] sql = "BIGINT"   -> "BIGSERIAL"
      [] OTHER            -> "none"

\* The mapping as its table is written, by the key of a Rust type; "none" for a
\* type it does not know
rust_type_to_column_type(key) ==
    CASE key \in {"i8", "i16"}                 -> "SmallInteger"
      [] key = "i32"                           -> "Integer"
      [] key \in {"i64", "isize", "usize"}     -> "BigInteger"
      [] key = "u8"                            -> "TinyUnsigned"
      [] key = "u16"                           -> "SmallUnsigned"
      [] key = "u32"                           -> "Unsigned"
      [] key = "u64"                           -> "BigUnsigned"
      [] key \in {"i128", "u128"}              -> "Decimal"
      [] key = "f32"                           -> "Float"
      [] key = "f64"                           -> "Double"
      [] key = "bool"                          -> "Boolean"
      [] key \in {"String", "str", "Text"}     -> "Text"
      [] key = "Uuid"                          -> "Uuid"
      [] key \in {"Decimal", "BigDecimal"}     -> "Numeric"
      [] key \in {"NaiveDate", "Date"}         -> "Date"
      [] key \in {"NaiveTime", "Time"}         -> "Time"
      [] key = "NaiveDateTime"                 -> "DateTime"
      [] key \in {"Json", "JsonValue", "Jsonb", "Value"} -> "Jsonb"
      [] key \in {"Vec<u8>", "Bytes"}          -> "Binary"
      [] key \in {"Vec<i32>", "IntArray"}      -> "IntegerArray"
      [] key \in {"Vec<i64>", "BigIntArray"}   -> "BigIntegerArray"
      [] key \in {"Vec<String>", "TextArray"}  -> "TextArray"
      [] key \in {"Vec<bool>", "BoolArray"}    -> "BooleanArray"
      [] key \in {"Vec<f64>", "FloatArray"}    -> "DoubleArray"
      [] key \in {"Vec<Value>", "JsonArray"}   -> "JsonArray"
      [] key \in {"DateTime<Utc>", "DateTimeUtc"} -> "TimestampTz"
      [] OTHER                                 -> "none"

-------------------------------------------------------------------------------
(* One column                                                              *)

ColumnDefinition(name, type) ==
    [name |-> name, type |-> type, nullable |-> TRUE, default |-> "none",
     primary_key |-> FALSE, auto_increment |-> FALSE, unique |-> FALSE]

is_current_timestamp(default) == default \in {"CURRENT_TIMESTAMP", "now()"}
sqlite_can_add_with_default(default) == default # "(expression)" /\ ~is_current_timestamp(default)

default_sql_as_is(backend, column) == column.default

default_sql(backend, column) ==
    CASE column.default = "none" -> "none"
      [] backend = "SQLite" /\ is_current_timestamp(column.default) -> "CURRENT_TIMESTAMP"
      [] backend = "MySQL" /\ column.type \in Times /\ is_current_timestamp(column.default) ->
             "CURRENT_TIMESTAMP(6)"
      [] /\ backend = "MySQL" /\ column.default \notin {"NULL", "(expression)"}
         /\ column.type \in Arrays \cup {"Text", "Json", "Jsonb", "Binary"} -> "(expression)"
      [] OTHER -> column.default

type_sql(backend, column) ==
    LET sql == type_to_sql(backend, column.type)
        serial == postgres_serial_type(sql)
    IN  IF column.auto_increment /\ backend = "Postgres" /\ serial # "none" THEN serial ELSE sql

not_null_unless_key(backend, column) == ~column.nullable /\ ~column.primary_key

not_null_clause(backend, column) == ~column.nullable /\ (~column.primary_key \/ backend = "SQLite")

\* The clause of one column
to_sql(backend, column) ==
    [name |-> column.name,
     sql |-> type_sql(backend, column),
     numbers |-> column.auto_increment /\ backend = "MySQL" /\ can_auto_increment(column.type),
     not_null |-> not_null_clause(backend, column),
     default |-> default_sql(backend, column),
     unique |-> column.unique /\ ~column.primary_key]

-------------------------------------------------------------------------------
(* The databases                                                           *)

Stored(clause) ==
    [sql |-> clause.sql, numbers |-> clause.numbers, not_null |-> clause.not_null,
     default |-> IF clause.default = "NULL" THEN "none" ELSE clause.default,
     unique |-> clause.unique, character |-> <<>>]

IndexesOf(db, table) == {index \in db.indexes : index.table = table}

\* MySQL keys no unbounded text, SQLite reads one spelling of the current time
\* only, and a MySQL default is as precise as its column
GoodColumn(backend, clause, keyed) ==
    /\ backend = "SQLite" => clause.default # "now()"
    /\ backend = "MySQL" =>
           /\ keyed => clause.sql \notin {"LONGTEXT", "LONGBLOB", "JSON"}
           /\ clause.sql \in {"LONGTEXT", "LONGBLOB", "JSON"} =>
                  clause.default \in {"none", "NULL", "(expression)"}
           /\ clause.sql = "DATETIME(6)" => ~is_current_timestamp(clause.default)
           /\ clause.numbers => keyed

\* Rows that are there already need a value in a new column; SQLite gives them a
\* constant, and adds no column with an index
CanAdd(backend, clause, rows) ==
    /\ GoodColumn(backend, clause, clause.unique)
    /\ backend = "SQLite" => ~clause.unique
    /\ rows /\ backend # "MySQL" /\ clause.not_null => clause.default \notin {"none", "NULL"}
    /\ rows /\ backend = "SQLite" => sqlite_can_add_with_default(clause.default)

\* PostgreSQL and SQLite name indexes per database, MySQL per table
NameTaken(backend, db, statement) ==
    \E index \in db.indexes :
        index.name = statement.name /\ (backend = "MySQL" => index.table = statement.table)

Accepts(backend, db, statement) ==
    LET known == statement.table \in DOMAIN db.tables
        columns == DOMAIN db.tables[statement.table].columns
        stored == db.tables[statement.table]
    IN  CASE statement.kind = "create table" ->
                 \/ known /\ statement.if_not_exists
                 \/ /\ ~known
                    /\ \A i \in DOMAIN statement.columns :
                           GoodColumn(backend, statement.columns[i],
                               \/ statement.columns[i].unique
                               \/ Contains(statement.key, statement.columns[i].name)
                               \/ \E u \in DOMAIN statement.uniques :
                                      Contains(statement.uniques[u], statement.columns[i].name))
          [] statement.kind = "drop table" -> known \/ statement.if_exists
          [] statement.kind = "add column" ->
                 /\ known /\ statement.clause.name \notin columns
                 /\ CanAdd(backend, statement.clause, stored.rows)
          [] statement.kind = "drop column" ->
                 /\ known /\ statement.name \in columns
                 /\ backend = "SQLite" =>
                        \A index \in IndexesOf(db, statement.table) : ~Contains(index.columns, statement.name)
          [] statement.kind = "rename column" ->
                 known /\ statement.from \in columns /\ statement.to \notin columns
          [] statement.kind \in {"alter type", "modify column"} -> known /\ statement.name \in columns
          [] statement.kind = "create index" ->
                 /\ known /\ ToSet(statement.columns) \subseteq columns
                 /\ \/ statement.if_not_exists /\ NameTaken(backend, db, statement)
                    \/ /\ ~NameTaken(backend, db, statement)
                       /\ ~(statement.unique /\ stored.duplicates)
                       /\ backend = "MySQL" =>
                              \A column \in ToSet(statement.columns) :
                                  stored.columns[column].sql \notin {"LONGTEXT", "LONGBLOB", "JSON"}
          [] statement.kind = "drop index" ->
                 \E index \in db.indexes :
                     index.name = statement.name /\ (backend = "MySQL" => index.table = statement.table)

Renamed(from, to, names) == [i \in DOMAIN names |-> IF names[i] = from THEN to ELSE names[i]]

\* A dropped column takes its indexes with it; MySQL keeps the rest of a wider one
WithoutColumn(backend, db, table, name) ==
    {index \in db.indexes : index.table # table \/ ~Contains(index.columns, name)}
    \cup (IF backend # "MySQL" THEN {}
          ELSE {[index EXCEPT !.columns = SelectSeq(@, LAMBDA column : column # name)] :
                    index \in {i \in IndexesOf(db, table) : Contains(i.columns, name) /\ Len(i.columns) > 1}})

\* What MODIFY COLUMN restates replaces the column's declaration
Modified(column, statement) ==
    LET rest == statement.rest
        given(word) == \E i \in DOMAIN rest : rest[i] = word
    IN  [column EXCEPT !.sql = statement.sql, !.character = statement.character,
                       !.not_null = given("NOT"), !.numbers = given("AUTO_INCREMENT"),
                       !.default = IF given("DEFAULT")
                                   THEN LET value == rest[(CHOOSE i \in DOMAIN rest : rest[i] = "DEFAULT") + 1]
                                        IN  IF value = "NULL" THEN "none" ELSE value
                                   ELSE "none"]

With(f, x, y) == [z \in DOMAIN f \cup {x} |-> IF z = x THEN y ELSE f[z]]
Without(f, x) == [z \in DOMAIN f \ {x} |-> f[z]]

Applied(backend, db, statement) ==
    LET table == statement.table
        columns == db.tables[table].columns
    IN  CASE statement.kind = "create table" ->
                 IF table \in DOMAIN db.tables THEN db
                 ELSE [db EXCEPT !.tables = With(@, table,
                           [columns |-> [name \in {statement.columns[i].name : i \in DOMAIN statement.columns} |->
                                            Stored(SelectSeq(statement.columns, LAMBDA c : c.name = name)[1])],
                            key |-> statement.key, uniques |-> statement.uniques, rows |-> FALSE, duplicates |-> FALSE])]
          [] statement.kind = "drop table" ->
                 [tables |-> Without(db.tables, table), indexes |-> db.indexes \ IndexesOf(db, table)]
          [] statement.kind = "add column" ->
                 [db EXCEPT !.tables[table].columns = With(@, statement.clause.name, Stored(statement.clause))]
          [] statement.kind = "drop column" ->
                 [tables |-> [db.tables EXCEPT ![table].columns = Without(@, statement.name)],
                  indexes |-> WithoutColumn(backend, db, table, statement.name)]
          [] statement.kind = "rename column" ->
                 [tables |-> [db.tables EXCEPT ![table].columns =
                                 With(Without(@, statement.from), statement.to, columns[statement.from])],
                  indexes |-> {IF index.table # table THEN index
                               ELSE [index EXCEPT !.columns = Renamed(statement.from, statement.to, @)] :
                                   index \in db.indexes}]
          [] statement.kind = "alter type" ->
                 [db EXCEPT !.tables[table].columns[statement.name].sql = statement.sql]
          [] statement.kind = "modify column" ->
                 [db EXCEPT !.tables[table].columns[statement.name] = Modified(@, statement)]
          [] statement.kind = "create index" ->
                 IF NameTaken(backend, db, statement) THEN db
                 ELSE [db EXCEPT !.indexes = @ \cup {[name |-> statement.name, table |-> table,
                           columns |-> statement.columns, unique |-> statement.unique]}]
          [] statement.kind = "drop index" ->
                 [db EXCEPT !.indexes = {index \in @ : index.name # statement.name
                                             \/ (backend = "MySQL" /\ index.table # table)}]

\* One statement after the ones before it, none of which failed
Execute(backend, run, statement) ==
    CASE ~run.ok -> run
      [] ~Accepts(backend, run.db, statement) -> [run EXCEPT !.ok = FALSE]
      [] OTHER -> [run EXCEPT !.db = Applied(backend, @, statement)]

ExecuteAll(backend, run, statements) ==
    FoldLeft(LAMBDA so_far, statement : Execute(backend, so_far, statement), run, statements)

\* The words MySQL's SHOW CREATE TABLE writes for a column after its name
show_create_table(column) ==
    (CASE column.sql = "VARCHAR" -> <<"VARCHAR", "(255)">>
       [] column.sql = "INT UNSIGNED" -> <<"INT", "UNSIGNED">>
       [] OTHER -> <<column.sql>>)
    \o column.character
    \o (IF column.not_null THEN <<"NOT", "NULL">> ELSE <<>>)
    \o (CASE column.default # "none" -> <<"DEFAULT", column.default>>
          [] ~column.not_null -> <<"DEFAULT", "NULL">>
          [] OTHER -> <<>>)
    \o (IF column.numbers THEN <<"AUTO_INCREMENT">> ELSE <<>>)

\* Whether a NULL goes in, and whether a row without the column gets a number
HoldsNull(backend, table, name) ==
    LET column == table.columns[name]
        sole == table.key = <<name>>
    IN  /\ ~column.not_null
        /\ column.sql \notin {"SMALLSERIAL", "SERIAL", "BIGSERIAL"}
        /\ Contains(table.key, name) => backend = "SQLite" /\ ~(sole /\ column.sql = "INTEGER")
Numbers(backend, table, name) ==
    LET column == table.columns[name]
    IN  CASE backend = "Postgres" -> column.sql \in {"SMALLSERIAL", "SERIAL", "BIGSERIAL"}
          [] backend = "MySQL"    -> column.numbers
          [] backend = "SQLite"   -> column.sql = "INTEGER" /\ table.key = <<name>>

===============================================================================
