---------------------------- MODULE SchemaChanges ----------------------------
(***************************************************************************)
(* What a migration asks of a schema: the builder of a new table, the      *)
(* builder of an alteration, and the statements Schema runs for each       *)
(* (migration/table.rs, alter.rs, schema.rs, ddl.rs).                      *)
(*                                                                         *)
(* An alteration reads the table once, before its first statement: the     *)
(* indexes over the columns it drops on SQLite, whose DROP COLUMN refuses  *)
(* an indexed column, and the declarations of the columns whose type it    *)
(* changes on MySQL, whose MODIFY COLUMN restates the whole column.  By    *)
(* the time a statement uses what was read, the ones before it may have    *)
(* renamed, dropped or replaced the column.                                *)
(***************************************************************************)
EXTENDS Catalog

CONSTANT NoName    \* an alteration's column that the table does not store

-------------------------------------------------------------------------------
(* A new table                                                             *)

NewTable == [columns |-> <<>>, indexes |-> <<>>, primary_key |-> NoName, composite |-> <<>>, uniques |-> <<>>]

increments_column(name, type) ==
    [ColumnDefinition(name, type) EXCEPT !.nullable = FALSE, !.primary_key = TRUE, !.auto_increment = TRUE]

\* A call chained to a column; a default is a call of its own name
ColumnCall(column, call) ==
    CASE call = "not_null"    -> [column EXCEPT !.nullable = FALSE]
      [] call = "nullable"    -> [column EXCEPT !.nullable = TRUE]
      [] call = "unique"      -> [column EXCEPT !.unique = TRUE]
      [] call = "primary_key" -> [column EXCEPT !.primary_key = TRUE, !.nullable = FALSE]
      [] call = "default_now" -> [column EXCEPT !.default = "CURRENT_TIMESTAMP"]
      [] OTHER                -> [column EXCEPT !.default = call]
ColumnBuilder(name, type, chained) == FoldLeft(ColumnCall, ColumnDefinition(name, type), chained)

timestamps_of(type) ==
    <<ColumnBuilder("created_at", type, <<"default_now", "not_null">>),
      ColumnBuilder("updated_at", type, <<"default_now", "not_null">>)>>
soft_deletes == ColumnBuilder("deleted_at", "TimestampTz", <<"nullable">>)

index_name(table, columns, unique) == <<table, columns, unique>>

\* One call on the builder
BuilderCall(table, builder, call) ==
    CASE call.name = "column" ->
             [builder EXCEPT !.columns = Append(@, call.column),
                             !.primary_key = IF call.column.primary_key THEN call.column.name ELSE @]
      [] call.name = "timestamps" -> [builder EXCEPT !.columns = @ \o timestamps_of("TimestampTz")]
      [] call.name = "soft_deletes" -> [builder EXCEPT !.columns = Append(@, soft_deletes)]
      [] call.name = "primary_key" -> [builder EXCEPT !.composite = call.columns]
      [] call.name = "unique" -> [builder EXCEPT !.uniques = Append(@, call.columns)]
      [] call.name = "index" ->
             [builder EXCEPT !.indexes = Append(@, [name |-> index_name(table, call.columns, call.unique),
                                                    columns |-> call.columns, unique |-> call.unique])]

Built(table, calls) == FoldLeft(LAMBDA b, call : BuilderCall(table, b, call), NewTable, calls)

create_table(backend, table, columns, key, uniques, if_not_exists) ==
    [kind |-> "create table", table |-> table, if_not_exists |-> if_not_exists, key |-> key, uniques |-> uniques,
     columns |-> [i \in DOMAIN columns |-> to_sql(backend, columns[i])]]

\* A table has one key: an explicit composite one wins over a column's own
build_create(backend, table, builder, if_not_exists) ==
    create_table(backend, table, builder.columns,
                 CASE builder.composite # <<>>       -> builder.composite
                   [] builder.primary_key # NoName   -> <<builder.primary_key>>
                   [] OTHER                          -> <<>>,
                 builder.uniques, if_not_exists)

create_index(backend, table, index, if_not_exists) ==
    [kind |-> "create index", table |-> table, name |-> index.name, columns |-> index.columns,
     unique |-> index.unique, if_not_exists |-> if_not_exists /\ backend # "MySQL"]

mysql_index_exists(db, table, name) == \E index \in IndexesOf(db, table) : index.name = name

CreateIndexUnasked(backend, table, run, index, if_not_exists) ==
    Execute(backend, run, create_index(backend, table, index, if_not_exists))

\* MySQL has no CREATE INDEX IF NOT EXISTS: its catalog is asked instead
CreateIndex(backend, table, run, index, if_not_exists) ==
    IF if_not_exists /\ backend = "MySQL" /\ mysql_index_exists(run.db, table, index.name)
    THEN run
    ELSE Execute(backend, run, create_index(backend, table, index, if_not_exists))

create(backend, db, table, builder, if_not_exists) ==
    FoldLeft(LAMBDA run, index : CreateIndex(backend, table, run, index, if_not_exists),
             Execute(backend, [ok |-> TRUE, db |-> db], build_create(backend, table, builder, if_not_exists)),
             builder.indexes)

-------------------------------------------------------------------------------
(* An alteration: a sequence of operations                                 *)

\* The words of a MySQL column's declaration besides its type
ATTRIBUTES == {"NOT", "NULL", "DEFAULT", "AUTO_INCREMENT", "ON", "COMMENT"}

RECURSIVE Attributes(_, _, _)
Attributes(rest, character, clause_words) ==
    CASE rest = <<>> -> [character |-> character, rest |-> <<>>]
      [] rest # <<>> /\ clause_words > 0 ->
             Attributes(Tail(rest), Append(character, Head(rest)), clause_words - 1)
      [] rest # <<>> /\ clause_words = 0 ->
             CASE Head(rest) = "CHARACTER"            -> Attributes(Tail(rest), Append(character, Head(rest)), 2)
               [] Head(rest) \in {"CHARSET", "COLLATE"} -> Attributes(Tail(rest), Append(character, Head(rest)), 1)
               [] Head(rest) \in ATTRIBUTES           -> [character |-> character, rest |-> rest]
               [] OTHER                               -> Attributes(Tail(rest), character, 0)

mysql_column_attributes(stored, name) == Attributes(show_create_table(stored.columns[name]), <<>>, 0)

stored_names_of_names(names, operation) == names

\* By the name a column has at this point, the one the table stores it under
stored_names(names, operation) ==
    CASE operation.name = "rename" ->
             With(Without(names, operation.from), operation.to,
                  IF operation.from \in DOMAIN names THEN names[operation.from] ELSE operation.from)
      [] operation.name = "add"    -> With(names, operation.column.name, NoName)
      [] operation.name = "drop"   -> With(names, operation.column, NoName)
      [] operation.name = "change" -> names

\* What MODIFY COLUMN would drop from each column whose type changes, by its name
\* at the change; the last change of a name speaks for all of them
keep_column_attributes(operations, stored) ==
    LET before(i) == FoldLeft(stored_names, <<>>, SubSeq(operations, 1, i - 1))
        source(i) == IF operations[i].column \in DOMAIN before(i) THEN before(i)[operations[i].column]
                     ELSE operations[i].column
        kept == {i \in DOMAIN operations : operations[i].name = "change" /\ source(i) \in DOMAIN stored.columns}
        last(name) == CHOOSE i \in kept : /\ operations[i].column = name
                                          /\ \A j \in kept : operations[j].column = name => j <= i
    IN  [name \in {operations[i].column : i \in kept} |-> mysql_column_attributes(stored, source(last(name)))]

\* The stored name of a dropped column, traced back through the operations before
\* the drop; NoName for a column this alteration adds
traced_first_rename(operations, position) ==
    FoldRight(LAMBDA earlier, original :
                 IF earlier.name = "rename" /\ original = operations[position].column /\ earlier.to = original
                 THEN earlier.from ELSE original,
              SubSeq(operations, 1, position - 1), operations[position].column)

traced(operations, position) ==
    FoldRight(LAMBDA earlier, original :
                 CASE original = NoName -> NoName
                   [] earlier.name = "rename" /\ earlier.to = original -> earlier.from
                   [] earlier.name = "add" /\ earlier.column.name = original -> NoName
                   [] OTHER -> original,
              SubSeq(operations, 1, position - 1), operations[position].column)

sqlite_dropped_columns(operations) ==
    {traced(operations, i) : i \in {j \in DOMAIN operations : operations[j].name = "drop"}} \ {NoName}

\* Explicit indexes over one dropped column alone, with the column
sqlite_column_indexes(db, table, dropped) ==
    {[column |-> index.columns[1], index |-> index.name] :
        index \in {i \in IndexesOf(db, table) : Len(i.columns) = 1 /\ i.columns[1] \in dropped}}

sqlite_unique_addition(backend, operation) ==
    /\ operation.name = "add" /\ backend = "SQLite"
    /\ operation.column.unique /\ ~operation.column.primary_key

holds_text(sql) == sql \in {"VARCHAR", "LONGTEXT"}

build_operation(backend, table, operation, kept) ==
    CASE operation.name = "add" ->
             [kind |-> "add column", table |-> table,
              clause |-> to_sql(backend, [operation.column EXCEPT
                             !.unique = @ /\ ~sqlite_unique_addition(backend, operation)])]
      [] operation.name = "drop" -> [kind |-> "drop column", table |-> table, name |-> operation.column]
      [] operation.name = "rename" ->
             [kind |-> "rename column", table |-> table, from |-> operation.from, to |-> operation.to]
      [] operation.name = "change" /\ backend = "Postgres" ->
             [kind |-> "alter type", table |-> table, name |-> operation.column,
              sql |-> type_to_sql(backend, operation.type)]
      [] operation.name = "change" /\ backend = "MySQL" ->
             LET attributes == IF operation.column \in DOMAIN kept THEN kept[operation.column]
                               ELSE [character |-> <<>>, rest |-> <<>>]
             IN  [kind |-> "modify column", table |-> table, name |-> operation.column,
                  sql |-> type_to_sql(backend, operation.type), rest |-> attributes.rest,
                  character |-> IF holds_text(type_to_sql(backend, operation.type))
                                THEN attributes.character ELSE <<>>]

\* The statements of one operation, and the indexes still to drop after it.  Only
\* SQLite has any: an index found before, under the name its column has by now
build_step(backend, table, kept, so_far, operation) ==
    LET covering == {i \in so_far.indexes : operation.name = "drop" /\ i.column = operation.column}
        own == index_name(table, <<operation.column.name>>, TRUE)
        creates == sqlite_unique_addition(backend, operation)
    IN  [statements |->
            so_far.statements
            \o SetToSeq({[kind |-> "drop index", table |-> table, name |-> i.index] : i \in covering})
            \o <<build_operation(backend, table, operation, kept)>>
            \o (IF creates THEN <<[kind |-> "create index", table |-> table, name |-> own, unique |-> TRUE,
                                   columns |-> <<operation.column.name>>, if_not_exists |-> FALSE]>>
                ELSE <<>>),
         indexes |->
            {IF operation.name = "rename" /\ i.column = operation.from
             THEN [i EXCEPT !.column = operation.to] ELSE i : i \in so_far.indexes \ covering}
            \cup (IF creates THEN {[column |-> operation.column.name, index |-> own]} ELSE {})]

build(backend, table, operations, kept, indexes) ==
    FoldLeft(LAMBDA so_far, operation : build_step(backend, table, kept, so_far, operation),
             [statements |-> <<>>, indexes |-> indexes], operations).statements

\* SQLite cannot change a type: refused before the first statement
alter_table(backend, run, table, operations) ==
    IF backend = "SQLite" /\ \E i \in DOMAIN operations : operations[i].name = "change"
    THEN [run EXCEPT !.ok = FALSE]
    ELSE ExecuteAll(backend, run,
             build(backend, table, operations,
                   IF backend = "MySQL" THEN keep_column_attributes(operations, run.db.tables[table]) ELSE <<>>,
                   IF backend = "SQLite"
                   THEN sqlite_column_indexes(run.db, table, sqlite_dropped_columns(operations)) ELSE {}))

-------------------------------------------------------------------------------
(* Properties                                                              *)

Fresh(db) == [ok |-> TRUE, db |-> db]

\* Enforced by the column's own constraint, by an index over it alone, or by the key
Unique(db, table, name) ==
    \/ db.tables[table].columns[name].unique
    \/ db.tables[table].key = <<name>> \/ Contains(db.tables[table].uniques, <<name>>)
    \/ \E index \in IndexesOf(db, table) : index.unique /\ index.columns = <<name>>

IsNow(default) == is_current_timestamp(default) \/ default = "CURRENT_TIMESTAMP(6)"
SameDefault(declared, stored) ==
    \/ declared = stored \/ (IsNow(declared) /\ IsNow(stored))
    \/ declared = "NULL" /\ stored = "none"
    \/ declared = "literal" /\ stored = "(expression)"

AsDeclared(backend, db, table, column) ==
    /\ column.name \in DOMAIN db.tables[table].columns
    /\ HoldsNull(backend, db.tables[table], column.name) <=> column.nullable
    /\ column.auto_increment => Numbers(backend, db.tables[table], column.name)
    /\ column.unique \/ column.primary_key => Unique(db, table, column.name)
    /\ SameDefault(column.default, db.tables[table].columns[column.name].default)

\* Every key declared on a column is the table's key, and a composite one is of
\* columns declared NOT NULL
OneKey(builder) ==
    /\ \A i \in DOMAIN builder.columns :
           builder.columns[i].primary_key => builder.composite = <<>> /\ builder.primary_key = builder.columns[i].name
    /\ \A i \in DOMAIN builder.columns : Contains(builder.composite, builder.columns[i].name) => ~builder.columns[i].nullable

CreatedFrom(backend, made, table, builder) ==
    /\ made.ok
    /\ \A i \in DOMAIN builder.columns : AsDeclared(backend, made.db, table, builder.columns[i])
    /\ \A i \in DOMAIN builder.uniques :
           Len(builder.uniques[i]) = 1 => Unique(made.db, table, builder.uniques[i][1])

\* A table is created with the nullability, numbering, uniqueness and defaults its
\* builder declares, on every backend, whatever clauses that takes there
\* (TableBuilder::build_create, ColumnDefinition::to_sql).
CreatedAsDeclared(backend, db, table, builder) ==
    OneKey(builder) => CreatedFrom(backend, create(backend, db, table, builder, FALSE), table, builder)

\* create_table_if_not_exists after a run of it that stopped between two of its
\* statements, which MySQL does not roll back, succeeds and leaves what an
\* uninterrupted one leaves (Schema::create).
Resumes(backend, whole, db, table, builder) ==
    whole.ok =>
        \A done \in 0..Len(builder.indexes) :
            create(backend,
                   create(backend, db, table, [builder EXCEPT !.indexes = SubSeq(@, 1, done)], TRUE).db,
                   table, builder, TRUE) = whole
CreationResumes(backend, db, table, builder) ==
    Resumes(backend, create(backend, db, table, builder, TRUE), db, table, builder)

\* Each change is of a stored column of its own, under a name of its own
Unambiguous(operations) ==
    LET changes == {i \in DOMAIN operations : operations[i].name = "change"}
    IN  \A i, j \in changes :
            /\ traced(operations, i) # NoName
            /\ i # j => /\ operations[i].column # operations[j].column
                        /\ traced(operations, i) # traced(operations, j)

AlteredAlike(backend, each, db, table, operations) ==
    each.ok /\ (backend = "MySQL" => Unambiguous(operations)) =>
        alter_table(backend, Fresh(db), table, operations) = each

\* An alteration of several operations does what alterations of one operation
\* each do in turn, although it reads the table only once, before all of them
\* (AlterTableBuilder::keep_column_attributes, sqlite_dropped_columns, build).
OneAlterationOrMany(backend, db, table, operations) ==
    AlteredAlike(backend,
                 FoldLeft(LAMBDA run, operation : alter_table(backend, run, table, <<operation>>),
                          Fresh(db), operations),
                 db, table, operations)

OtherColumns(names, operation) ==
    names \ (IF operation.name = "rename" THEN {operation.from}
             ELSE IF operation.name = "add" THEN {operation.column.name}
             ELSE {operation.column})

KeepsTheRest(backend, db, new, old, others, table, operation) ==
    /\ \A name \in others : new.tables[table].columns[name] = old[name]
    /\ {i \in db.indexes : i.table # table \/ ToSet(i.columns) \subseteq others} \subseteq new.indexes
    /\ operation.name = "add" => AsDeclared(backend, new, table, operation.column)
    /\ operation.name = "rename" => new.tables[table].columns[operation.to] = old[operation.from]
    /\ operation.name = "change" =>
           /\ new.tables[table].columns[operation.column] = [old[operation.column] EXCEPT
                  !.sql = type_to_sql(backend, operation.type),
                  !.character = IF holds_text(type_to_sql(backend, operation.type)) THEN @ ELSE <<>>]
           /\ new.indexes = db.indexes

KeptBy(backend, run, db, table, operation) ==
    run.ok => KeepsTheRest(backend, db, run.db, db.tables[table].columns,
                           OtherColumns(DOMAIN db.tables[table].columns, operation), table, operation)

\* One operation changes the column it names and no other: an added column is as
\* declared, a changed one keeps all but its type, and a dropped one takes only
\* indexes over it along (AlterTableBuilder::build_operation).
OperationKeepsTheRest(backend, db, table, operation) ==
    KeptBy(backend, alter_table(backend, Fresh(db), table, <<operation>>), db, table, operation)

===============================================================================
