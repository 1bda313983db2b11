----------------------------- MODULE BulkUpdates -----------------------------
(***************************************************************************)
(* The setters of update_all, each rendered for every backend so that all  *)
(* write the same value (src/src/model/batch.rs, batch/sql_execution.rs).  *)
(* Integers are those of SQLite, MinWord..MaxWord; a REAL is the integer   *)
(* arithmetic that left this range.  A factor is mantissa / Ten^scale.     *)
(***************************************************************************)
EXTENDS JsonTests, FiniteSetsExt

CONSTANTS
    Real,               \* what integer arithmetic gives past its range
    Abort,              \* the statement fails
    MaxWord,            \* i64::MAX
    Ten,                \* the base decimals are written in
    Precision,          \* bits of an f32's significand
    SpacingSteps,       \* steps of the search for an f32's spacing
    Grain               \* parts the least f32 is divided into by what a REAL tells apart

Abs(n) == IF n < 0 THEN -n ELSE n
MinWord == -MaxWord - 1     \* i64::MIN

-------------------------------------------------------------------------------
(* SQLite's integers                                                       *)

Integer64(n) == IF n \in MinWord..MaxWord THEN n ELSE Real
Times(a, b) == IF a = Null \/ a = Real THEN a ELSE Integer64(a * b)
Plus(a, b) == IF a = Null \/ b = Null THEN Null ELSE IF a = Real \/ b = Real THEN Real ELSE Integer64(a + b)

\* Division and remainder cut towards zero
Quotient(a, b) == IF a = Null \/ a = Real THEN a ELSE IF a < 0 THEN -((-a) \div b) ELSE a \div b
Remainder(a, b) == IF a = Null \/ a = Real THEN a ELSE a - b * Quotient(a, b)

gcd(a, b) == Max({d \in 1..Max({a, b}) : a % d = 0 /\ b % d = 0})

\* The factor as a fraction in lowest terms, turned over to divide, with its
\* divisor positive
Fraction(factor, divide) ==
    LET denominator == Ten ^ factor.scale
        common == IF factor.mantissa = 0 THEN denominator ELSE gcd(Abs(factor.mantissa), denominator)
        n == Quotient(factor.mantissa, common)
        d == denominator \div common
        times == IF divide THEN d ELSE n
        over == IF divide THEN n ELSE d
    IN  IF over < 0 THEN [times |-> -times, over |-> -over] ELSE [times |-> times, over |-> over]

\* None of the checked steps overflows.
scales_exactly(factor, divide) ==
    LET f == Fraction(factor, divide)
    IN  /\ factor.mantissa \in MinWord..MaxWord /\ Ten ^ factor.scale <= MaxWord
        /\ {f.times, f.over, Abs(f.times)} \subseteq MinWord..MaxWord
        /\ (f.over - 1) * Abs(f.times) + f.over \div 2 <= MaxWord

\* Mutant: the half is added below zero as well
sqlite_integer_scale_up(cell, factor, divide) ==
    LET f == Fraction(factor, divide)
    IN  IF f.over = 1 THEN Times(cell, f.times)
        ELSE Plus(Times(Quotient(cell, f.over), f.times),
                  Quotient(Plus(Times(Remainder(cell, f.over), f.times), f.over \div 2), f.over))

sqlite_integer_scale(cell, factor, divide) ==
    LET f == Fraction(factor, divide)
        half == IF (cell # Null /\ cell < 0) # (f.times < 0) THEN -(f.over \div 2) ELSE f.over \div 2
    IN  IF f.over = 1 THEN Times(cell, f.times)
        ELSE Plus(Times(Quotient(cell, f.over), f.times),
                  Quotient(Plus(Times(Remainder(cell, f.over), f.times), half), f.over))

\* A result that is no integer of the column's range fails the statement.
sqlite_integer_checked(result, bounds) ==
    IF result = Null THEN Null
    ELSE IF result = Real \/ result \notin bounds THEN Abort ELSE result

\* PostgreSQL and MySQL keep the product exact until it is stored: rounded half
\* away from zero, or out of the column's range
ExactlyScaled(cell, factor, divide, bounds) ==
    LET denominator == Ten ^ factor.scale
        top == cell * (IF divide THEN denominator ELSE factor.mantissa)
        bottom == IF divide THEN factor.mantissa ELSE denominator
        rounded == (2 * Abs(top) + Abs(bottom)) \div (2 * Abs(bottom))
        result == IF (top < 0) # (bottom < 0) THEN -rounded ELSE rounded
    IN  IF cell = Null THEN Null ELSE IF result \in bounds THEN result ELSE Abort

\* scaled: a factor must be finite and a divisor not zero; SQLite refuses one
\* its integers cannot follow.
scaled(db, cell, factor, divide, bounds) ==
    IF db # "SQLite" THEN ExactlyScaled(cell, factor, divide, bounds)
    ELSE sqlite_integer_checked(sqlite_integer_scale(cell, factor, divide), bounds)

stepped(db, cell, by, bounds) ==
    IF db = "SQLite" THEN sqlite_integer_checked(IF cell = Null THEN Null ELSE Integer64(cell + by), bounds)
    ELSE IF cell = Null THEN Null ELSE IF cell + by \in bounds THEN cell + by ELSE Abort

-------------------------------------------------------------------------------
(* An f32 column on SQLite, which stores REALs                             *)

\* The spacing of the f32s around a value: the least one, Grain, times each
\* factor 2^128, 2^64, .. 2 that the value still outgrows
Spacing(value) ==
    FoldLeft(LAMBDA quantum, step :
                 LET factor == 2 ^ (2 ^ (SpacingSteps - step))
                 IN  IF Abs(value) >= quantum * factor * 2 ^ (Precision - 1) THEN quantum * factor ELSE quantum,
             Grain, [step \in 1..SpacingSteps |-> step])

sqlite_f32_round(value) ==
    LET quantum == Spacing(value)
        whole == Abs(value) \div quantum
        rest == 2 * (Abs(value) % quantum)
        nearest == whole + IF rest > quantum \/ (rest = quantum /\ whole % 2 = 1) THEN 1 ELSE 0
    IN  IF value < 0 THEN -(quantum * nearest) ELSE quantum * nearest

\* The values an f32 has: a significand of Precision bits times a power of two
Singles == {Grain * m * 2 ^ e : m \in 0..(2 ^ Precision - 1), e \in 0..(2 ^ SpacingSteps - 1)}

\* Whether the last bit of the significand of a single is 0
EvenSingle(s) == (s \div Spacing(s)) % 2 = 0

-------------------------------------------------------------------------------
(* Arrays and documents                                                    *)

\* JSON_ARRAY_APPEND wraps what is not an array.
JsonArrayAppend(document, value) ==
    Array(IF document.kind = "array" THEN Append(document.elements, value) ELSE <<document, value>>)

array_appended(db, cell, value) ==
    IF db \in {"MySQL", "MariaDB"} THEN JsonArrayAppend(IF cell = Null THEN Array(<<>>) ELSE cell, value)
    ELSE CASE cell = Null -> Array(<<value>>)
           [] cell.kind = "array" -> Array(Append(cell.elements, value))
           [] OTHER -> Array(<<cell, value>>)

\* MySQL's JSON_TABLE reads a JSON null element as an SQL NULL, which equals nothing.
Removes(db, element, value) ==
    CASE db = "SQLite" -> SqliteEquals(element, value)
      [] db = "MySQL" -> IF element = JsonNull THEN value = JsonNull
                         ELSE json_equals_bound(db, element, value, FALSE) = "true"
      [] OTHER -> element = value

array_removed(db, cell, value) ==
    IF cell = Null \/ cell.kind # "array" THEN cell
    ELSE Array(SelectSeq(cell.elements, LAMBDA element : ~Removes(db, element, value)))

\* The document with `value` at `path`, whose parent is there and is what the
\* last step needs; an index past the end appends.
RECURSIVE PutAt(_, _, _)
PutAt(document, path, value) ==
    IF path = <<>> THEN value
    ELSE LET step == Head(path)
             below == IF Len(path) = 1 THEN value ELSE PutAt(Step(document, step), Tail(path), value)
         IN  IF step \in Members
             THEN Object([name \in DOMAIN document.members \cup {step} |->
                             IF name = step THEN below ELSE document.members[name]])
             ELSE Array(IF step + 1 \in DOMAIN document.elements
                        THEN [document.elements EXCEPT ![step + 1] = below]
                        ELSE Append(document.elements, below))

\* jsonb_set and JSON_SET: step by step, a document without what the next step
\* needs is left as it is.
RECURSIVE JsonSet(_, _, _)
JsonSet(document, path, value) ==
    LET step == Head(path)
        there == Step(document, step)
    IN  IF document.kind # (IF step \in Members THEN "object" ELSE "array") THEN document
        ELSE IF Len(path) = 1 THEN PutAt(document, path, value)
        ELSE IF there = Null THEN document
        ELSE PutAt(document, <<step>>, JsonSet(there, Tail(path), value))

\* SQLite's own json_set creates the members a path passes through.
RECURSIVE Creating(_, _, _)
Creating(document, path, value) ==
    IF path = <<>> THEN value
    ELSE LET step == Head(path)
             there == Step(document, step)
             below == Creating(IF there # Null THEN there
                               ELSE IF Len(path) > 1 /\ path[2] \in Members THEN Object(<<>>) ELSE Array(<<>>),
                               Tail(path), value)
         IN  CASE step \in Members /\ document.kind = "object" -> PutAt(document, <<step>>, below)
               [] step \notin Members /\ document.kind = "array" /\ step <= Len(document.elements) ->
                      PutAt(document, <<step>>, below)
               [] OTHER -> document

ParentOf(document, path) == Walk(document, SubSeq(path, 1, Len(path) - 1))

\* Mutant: the parent of a member is not looked at
sqlite_json_set_unguarded(document, path, value) == Creating(document, path, value)

sqlite_json_set(document, path, value) ==
    LET parent == ParentOf(document, path)
        last == path[Len(path)]
    IN  IF last \in Members
        THEN IF parent = Null \/ parent.kind # "object" THEN document ELSE Creating(document, path, value)
        ELSE IF parent = Null \/ parent.kind # "array" THEN document
        ELSE IF Len(parent.elements) > last THEN Creating(document, path, value)
        ELSE Creating(document, SubSeq(path, 1, Len(path) - 1) \o <<Len(parent.elements)>>, value)

json_path_set(db, cell, path, value) ==
    CASE cell = Null -> Null
      [] db = "SQLite" -> sqlite_json_set(cell, path, value)
      [] OTHER -> JsonSet(cell, path, value)

-------------------------------------------------------------------------------
(* What the setters promise                                                *)

\* SQLite scales an integer column to the very integer an exact product rounded
\* half away from zero gives, in the column's range or failing, for every value
\* the column has, whenever it takes the factor at all.
ScalesAgree(factor, divide, bounds) ==
    scales_exactly(factor, divide) /\ (divide => factor.mantissa # 0) =>
        \A cell \in bounds \cup {Null} :
            scaled("SQLite", cell, factor, divide, bounds) = scaled("Postgres", cell, factor, divide, bounds)

StepsAgree(by, bounds) ==
    \A cell \in bounds \cup {Null} : stepped("SQLite", cell, by, bounds) = stepped("Postgres", cell, by, bounds)

\* A REAL is rounded to the nearest f32, to the even one of two.
RoundsToSingle(value) ==
    LET rounded == sqlite_f32_round(value)
        distance == Abs(value - rounded)
    IN  /\ Abs(rounded) \in Singles
        /\ \A s \in Singles :
            /\ Abs(Abs(value) - s) >= distance
            /\ Abs(Abs(value) - s) = distance /\ s # Abs(rounded) => EvenSingle(Abs(rounded))

\* Every backend writes the document the others write.
SettersAgree(cell, path, value) ==
    \A db \in Backends :
        /\ path # <<>> => json_path_set(db, cell, path, value) = json_path_set("Postgres", cell, path, value)
        /\ array_appended(db, cell, value) = array_appended("Postgres", cell, value)
        /\ array_removed(db, cell, value) = array_removed("Postgres", cell, value)
===============================================================================
