------------------------------- MODULE JsonTests -------------------------------
(***************************************************************************)
(* The JSON conditions of a query: containment, equality and existence of  *)
(* a path, which each backend has to be made to read the same way          *)
(* (src/src/query/db_sql.rs and db_sql/).  A document is a record with its *)
(* kind; an absent value and an SQL NULL are both Null.                    *)
(***************************************************************************)
EXTENDS Integers, Sequences, FiniteSets, SequencesExt

CONSTANTS
    Null,       \* SQL NULL
    Members     \* the member names documents may have

Scalar(kind, value) == [kind |-> kind, value |-> value]
JsonNull == Scalar("null", 0)
Number(n) == Scalar("number", n)
Array(elements) == [kind |-> "array", elements |-> elements]
Object(members) == [kind |-> "object", members |-> members]

IsScalar(document) == document.kind \notin {"array", "object"}

Backends == {"Postgres", "MySQL", "MariaDB", "SQLite"}

-------------------------------------------------------------------------------
(* Three-valued logic                                                      *)

Truth(holds) == IF holds THEN "true" ELSE "false"

Not(a) == CASE a = "true" -> "false" [] a = "false" -> "true" [] OTHER -> "unknown"

AllOf(truths) ==
    IF "false" \in truths THEN "false" ELSE IF "unknown" \in truths THEN "unknown" ELSE "true"

AnyOf(truths) ==
    IF "true" \in truths THEN "true" ELSE IF "unknown" \in truths THEN "unknown" ELSE "false"

\* unknown_when_null: a NULL column matches neither a test nor its negation.
UnknownWhenNull(cell, holds) == IF cell = Null THEN "unknown" ELSE Truth(holds)

-------------------------------------------------------------------------------
(* What PostgreSQL's @> reads, which the others are to follow              *)

RECURSIVE Holds(_, _)
Holds(document, candidate) ==
    CASE candidate.kind = "object" ->
             /\ document.kind = "object"
             /\ \A name \in DOMAIN candidate.members :
                    /\ name \in DOMAIN document.members
                    /\ Holds(document.members[name], candidate.members[name])
      [] candidate.kind = "array" ->
             /\ document.kind = "array"
             /\ \A element \in Range(candidate.elements) :
                    \E held \in Range(document.elements) : Holds(held, element)
      [] OTHER -> document = candidate

JsonbContains(document, candidate) ==
    \/ Holds(document, candidate)
    \/ /\ document.kind = "array" /\ IsScalar(candidate)
       /\ candidate \in Range(document.elements)

\* A path is read strictly: a member of an object, an element of an array.
Step(document, step) ==
    IF document = Null THEN Null
    ELSE IF step \in Members
    THEN IF document.kind = "object" /\ step \in DOMAIN document.members
         THEN document.members[step] ELSE Null
    ELSE IF document.kind = "array" /\ step + 1 \in DOMAIN document.elements
         THEN document.elements[step + 1] ELSE Null

Walk(document, path) == FoldLeft(Step, document, path)

-------------------------------------------------------------------------------
(* SQLite: the same readings from rows of json_each                        *)

\* The rows of json_each: an object's members, an array's elements, or the
\* scalar itself under no key.
JsonEach(node) ==
    CASE node.kind = "object" ->
             {[key |-> name, value |-> node.members[name]] : name \in DOMAIN node.members}
      [] node.kind = "array" ->
             {[key |-> i - 1, value |-> node.elements[i]] : i \in DOMAIN node.elements}
      [] OTHER -> {[key |-> Null, value |-> node]}

ScalarEquals(node, scalar) == node.kind = scalar.kind /\ node.value = scalar.value

RECURSIVE SqliteContains(_, _, _)
SqliteContains(node, candidate, top_level) ==
    LET SomeElement(element) ==
            \E row \in JsonEach(node) : SqliteContains(row.value, element, FALSE)
    IN  CASE candidate.kind = "object" ->
                 /\ node.kind = "object"
                 /\ \A name \in DOMAIN candidate.members : \E row \in JsonEach(node) :
                        /\ row.key = name
                        /\ SqliteContains(row.value, candidate.members[name], FALSE)
          [] candidate.kind = "array" ->
                 node.kind = "array" /\ \A element \in Range(candidate.elements) : SomeElement(element)
          [] OTHER ->
                 \/ ScalarEquals(node, candidate)
                 \/ top_level /\ node.kind = "array" /\ SomeElement(candidate)

\* Mutant: an element of an array is looked for at every level.
SqliteContainedByDeep(node, container, top_level) ==
    \/ SqliteContains(container, node, TRUE)
    \/ container.kind = "array" /\ \E e \in Range(container.elements) : SqliteContains(e, node, TRUE)

RECURSIVE SqliteContainedBy(_, _, _)
SqliteContainedBy(node, container, top_level) ==
    CASE container.kind = "object" ->
             /\ node.kind = "object"
             /\ ~\E row \in JsonEach(node) : ~\E name \in DOMAIN container.members :
                    row.key = name /\ SqliteContainedBy(row.value, container.members[name], FALSE)
      [] container.kind = "array" ->
             \/ /\ node.kind = "array"
                /\ ~\E row \in JsonEach(node) : ~\E element \in Range(container.elements) :
                       SqliteContainedBy(row.value, element, FALSE)
             \/ /\ top_level
                /\ \E element \in Range(container.elements) :
                       IsScalar(element) /\ ScalarEquals(node, element)
      [] OTHER -> ScalarEquals(node, container)

RECURSIVE SqliteEquals(_, _)
SqliteEquals(node, value) ==
    CASE value.kind = "object" ->
             /\ node.kind = "object"
             /\ Cardinality(JsonEach(node)) = Cardinality(DOMAIN value.members)
             /\ \A name \in DOMAIN value.members : \E row \in JsonEach(node) :
                    row.key = name /\ SqliteEquals(row.value, value.members[name])
      [] value.kind = "array" ->
             /\ node.kind = "array"
             /\ Len(node.elements) = Len(value.elements)
             /\ \A i \in DOMAIN value.elements : \E row \in JsonEach(node) :
                    row.key = i - 1 /\ SqliteEquals(row.value, value.elements[i])
      [] OTHER -> ScalarEquals(node, value)

-------------------------------------------------------------------------------
(* MySQL and MariaDB: JSON_CONTAINS, and the guards that narrow it         *)

\* JSON_CONTAINS: what is not an array is contained in an array that holds it.
RECURSIVE JsonContains(_, _)
JsonContains(target, candidate) ==
    CASE target.kind = "array" /\ candidate.kind = "array" ->
             \A element \in Range(candidate.elements) :
                 \E held \in Range(target.elements) : JsonContains(held, element)
      [] target.kind = "array" ->
             \E held \in Range(target.elements) : JsonContains(held, candidate)
      [] target.kind = "object" /\ candidate.kind = "object" ->
             \A name \in DOMAIN candidate.members :
                 /\ name \in DOMAIN target.members
                 /\ JsonContains(target.members[name], candidate.members[name])
      [] OTHER -> target = candidate

Guard(path, kind) == [path |-> path, kind |-> kind]

\* guard_sql: JSON_TYPE of the column's value at the path, NULL where there is none.
GuardHolds(document, guard) ==
    LET found == Walk(document, guard.path)
        value_type == IF found = Null THEN Null ELSE found.kind
    IN  CASE guard.kind = "ArrayOrAbsent" -> Truth(value_type \in {Null, "array"})
          [] value_type = Null -> "unknown"
          [] guard.kind = "Object" -> Truth(value_type = "object")
          [] guard.kind = "Array" -> Truth(value_type = "array")
          [] guard.kind = "NotArray" -> Truth(value_type # "array")
          [] guard.kind = "NotObject" -> Truth(value_type # "object")

\* Mutant: only the document itself is looked at.
ContainsGuardsTop(candidate, path) ==
    IF candidate.kind = "object" THEN {Guard(path, "Object")} ELSE {}

RECURSIVE ContainsGuards(_, _)
ContainsGuards(candidate, path) ==
    CASE candidate.kind = "object" ->
             {Guard(path, "Object")} \cup
             UNION {ContainsGuards(candidate.members[name], Append(path, name)) :
                        name \in DOMAIN candidate.members}
      [] candidate.kind = "array" -> {}
      [] OTHER -> IF path = <<>> THEN {} ELSE {Guard(path, "NotArray")}

RECURSIVE ContainedByGuards(_, _)
ContainedByGuards(target, path) ==
    CASE target.kind = "object" ->
             UNION {ContainedByGuards(target.members[name], Append(path, name)) :
                        name \in DOMAIN target.members}
      [] target.kind = "array" -> {Guard(path, IF path = <<>> THEN "NotObject" ELSE "ArrayOrAbsent")}
      [] OTHER -> {}

\* render: the containment AND each guard
Guarded(document, contained, guards) ==
    AllOf({Truth(contained)} \cup {GuardHolds(document, guard) : guard \in guards})

MysqlContains(document, candidate) ==
    Guarded(document, JsonContains(document, candidate), ContainsGuards(candidate, <<>>))

MysqlContainedBy(document, target) ==
    Guarded(document, JsonContains(target, document), ContainedByGuards(target, <<>>))

-------------------------------------------------------------------------------
(* The conditions                                                          *)

json_containment_bound(db, cell, value, contains) ==
    IF cell = Null THEN "unknown"
    ELSE CASE db = "Postgres" ->
                  Truth(IF contains THEN JsonbContains(cell, value) ELSE JsonbContains(value, cell))
           [] db = "SQLite" -> Truth(IF contains THEN SqliteContains(cell, value, TRUE)
                                                 ELSE SqliteContainedBy(cell, value, TRUE))
           [] OTHER -> IF contains THEN MysqlContains(cell, value) ELSE MysqlContainedBy(cell, value)

json_equals_bound(db, cell, value, negated) ==
    IF db = "SQLite"
    THEN IF cell = Null THEN IF negated THEN "false" ELSE "unknown"
         ELSE Truth(SqliteEquals(cell, value) # negated)
    ELSE UnknownWhenNull(cell, (cell = value) # negated)

\* JSON_CONTAINS_PATH reads [0] of what is not an array as the value itself.
LooseStep(document, step) ==
    IF step = 0 /\ document # Null /\ document.kind # "array" THEN document ELSE Step(document, step)

\* Every step into an array is guarded by the kind of what it steps into.
MysqlPathExists(document, path) ==
    AllOf({Truth(FoldLeft(LooseStep, document, path) # Null)} \cup
        {GuardHolds(document, Guard(SubSeq(path, 1, i - 1), "Array")) :
            i \in {j \in DOMAIN path : path[j] \notin Members}})

json_exists_bound(db, cell, path, negated) ==
    LET found == CASE cell = Null -> "unknown"
                   [] db \in {"MySQL", "MariaDB"} -> MysqlPathExists(cell, path)
                   [] OTHER -> Truth(Walk(cell, path) # Null)
    IN  IF negated THEN Not(found) ELSE found

-------------------------------------------------------------------------------
(* Array conditions: a native array on PostgreSQL, a JSON array elsewhere  *)

\* x = ANY(column): NULL equals nothing, and hides that nothing equals x.
EqualsAny(cell, value) ==
    IF cell = Null \/ value = JsonNull THEN "unknown"
    ELSE IF value \in Range(cell.elements) THEN "true"
    ELSE IF JsonNull \in Range(cell.elements) THEN "unknown" ELSE "false"

\* Mutant: an empty array or a NULL one has no element that offends.
PostgresContainedByBare(cell, values) ==
    Truth(cell = Null \/ Range(cell.elements) \subseteq values)

\* postgres_array_contained_by: no element of a column that is not NULL offends.
PostgresContainedBy(cell, values) ==
    LET listed == values \ {JsonNull}
        null_allowed == JsonNull \in values
        Offends(element) ==
            CASE listed = {} /\ ~null_allowed -> TRUE
              [] listed = {} -> element # JsonNull
              [] ~null_allowed -> element = JsonNull \/ element \notin listed
              [] OTHER -> element # JsonNull /\ element \notin listed
    IN  Truth(cell # Null /\ ~\E element \in Range(cell.elements) : Offends(element))

\* The document has to be an array before its elements are looked at.
ArrayOnly(cell, holds) ==
    IF cell = Null THEN "unknown" ELSE Truth(cell.kind = "array" /\ holds)

ArrayOperators == {"ArrayContains", "ArrayContainedBy", "ArrayOverlaps"}

array_bound(db, cell, operator, values) ==
    LET listed == Range(values)
    IN  CASE operator = "ArrayOverlaps" /\ values = <<>> -> "false"
          [] db = "Postgres" /\ operator = "ArrayContains" ->
                 IF values = <<>> THEN Truth(cell # Null)
                 ELSE AllOf({EqualsAny(cell, value) : value \in listed})
          [] db = "Postgres" /\ operator = "ArrayOverlaps" -> AnyOf({EqualsAny(cell, value) : value \in listed})
          [] db = "Postgres" -> PostgresContainedBy(cell, listed)
          [] db = "SQLite" ->
                 LET Has(value) == \E row \in JsonEach(cell) : SqliteEquals(row.value, value)
                 IN  ArrayOnly(cell,
                         CASE operator = "ArrayContains" -> \A value \in listed : Has(value)
                           [] operator = "ArrayOverlaps" -> \E value \in listed : Has(value)
                           [] OTHER -> \A row \in JsonEach(cell) :
                                           \E value \in listed : SqliteEquals(row.value, value))
          [] operator = "ArrayOverlaps" ->
                 ArrayOnly(cell, \E value \in listed : JsonContains(cell, value))
          [] OTHER -> AllOf({ArrayOnly(cell, TRUE),
                           json_containment_bound(db, cell, Array(values), operator = "ArrayContains")})

-------------------------------------------------------------------------------
(* What the conditions promise                                             *)

\* No array lies anywhere below an array of the document.
RECURSIVE Arrays(_)
Arrays(document) ==
    CASE document.kind = "array" -> 1 + FoldLeft(LAMBDA most, e : IF Arrays(e) > most THEN Arrays(e) ELSE most, 0, document.elements)
      [] document.kind = "object" ->
             LET below == {Arrays(document.members[name]) : name \in DOMAIN document.members}
             IN  IF below = {} THEN 0 ELSE CHOOSE n \in below : \A k \in below : k <= n
      [] OTHER -> 0

Flat(document) == Arrays(document) <= 1

ContainmentAgrees(cell, value) ==
    \A db \in Backends, contains \in BOOLEAN :
        (db \in {"MySQL", "MariaDB"} /\ cell # Null => Flat(IF contains THEN cell ELSE value))
            => (json_containment_bound(db, cell, value, contains) = "true")
               = (json_containment_bound("Postgres", cell, value, contains) = "true")

EqualityAgrees(cell, value) ==
    \A db \in Backends, negated \in BOOLEAN :
        (json_equals_bound(db, cell, value, negated) = "true")
            = (cell # Null /\ (cell = value) # negated)

ExistenceAgrees(cell, path) ==
    \A db \in Backends, negated \in BOOLEAN :
        (json_exists_bound(db, cell, path, negated) = "true")
            = (cell # Null /\ (Walk(cell, path) # Null) # negated)

ArraysAgree(cell, values) ==
    \A db \in Backends, operator \in ArrayOperators :
        (array_bound(db, cell, operator, values) = "true")
            = (array_bound("Postgres", cell, operator, values) = "true")
===============================================================================
