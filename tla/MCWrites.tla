------------------------------- MODULE MCWrites -------------------------------
(***************************************************************************)
(* Writes of models for TLC, one matter at a time: `part` says which, and  *)
(* the variables of the others hold Nothing.                               *)
(***************************************************************************)
EXTENDS Integers, Sequences, TLC

CONSTANTS Nothing, NoKey, NoCode, Null, k, l, Real, Abort, a1, a2, h1, h2,
          Unsaved, None, Unborn, Gone, NoPool, NoThread, NoPlace, Unknown

VARIABLES
    part,
    table, writers, kind, numbered,                     \* Writes
    stored, last_value, batch, besides,                 \* Inserts
    pivot, setting, calls,                              \* Pivot
    child_rows, identity_map, owner, taken, made_for,   \* Aggregates
    pools, identities, global, tasks, slot, polls,      \* Scopes
    document, meant,                                    \* Documents
    input                                               \* BulkUpdates, FlushOrder

SeqsOf(S, n) == UNION {[1..i -> S] : i \in 0..n}

-------------------------------------------------------------------------------
(* Writes: two callers save, upsert and delete, alone or nested            *)

W == INSTANCE Writes WITH
         WriteCallers <- {a1, a2},
         WriteCalls <-
             LET Job(do, model) == [do |-> do, model |-> model, conflict |-> "code", columns |-> {}]
                 Parent(key, code, says) == [table |-> "p", key |-> key, code |-> code, says |-> says]
                 Child(key, says) == [table |-> "c", key |-> key, code |-> NoCode, says |-> says]
                 Alone(job) == [jobs |-> <<job>>, nested |-> FALSE]
                 Nested(jobs) == [jobs |-> jobs, nested |-> TRUE]
             IN  {Alone(Job("save", Parent(key, "x", "new"))) : key \in {NoKey, 1, 2}} \cup
                 {Alone([Job("upsert", Parent(key, code, "new")) EXCEPT !.conflict = on, !.columns = columns]) :
                     key \in {NoKey, 1}, code \in {"x", NoCode}, on \in {"key", "code"}, columns \in {{}, {"says"}}} \cup
                 {Alone(Job("delete", Parent(1, "x", "new")))} \cup
                 {Nested(<<Job("save", Parent(key, "x", "new")), Job("save", Child(NoKey, "a")), Job("save", Child(NoKey, "b"))>>) :
                     key \in {NoKey, 1}} \cup
                 {Nested(<<Job("save", Parent(1, "x", "new")), Job("save", Child(1, "b"))>>),
                  Nested(<<Job("delete", Child(1, "a")), Job("delete", Parent(1, "x", "a"))>>)},
         WriteSettings <- [backend : {"MySQL", "Postgres"}, counter : BOOLEAN, soft : {FALSE}] \cup
                          [backend : {"SQLite"}, counter : BOOLEAN, soft : BOOLEAN],
         FirstTables <-
             LET Row(in, code, of) == [table |-> in, key |-> 1, code |-> code, says |-> "old", of |-> of,
                                       created |-> "old", trashed |-> FALSE, by |-> "old"]
             IN  {{}, {Row("p", "x", NoKey), Row("c", NoCode, 1)}, {Row("p", "y", NoKey)}}

-------------------------------------------------------------------------------
(* Inserts: batches at the limits of a statement                           *)

I == INSTANCE Inserts WITH
         Batches <-
             LET Given(key, says, bytes) == [key |-> key, says |-> says, bytes |-> bytes]
                 few == {NoKey, 2, 3}
             IN  {<<>>} \cup {<<Given(a, "a", 1)>> : a \in few} \cup
                 {<<Given(a, "a", bytes), Given(b, "b", 3)>> : a, b \in few, bytes \in {1, 9}} \cup
                 {<<Given(a, "a", 1), Given(b, "b", 3), Given(c, "c", 9)>> : a, b, c \in {NoKey, 1, 4, 2}} \cup
                 {<<Given(4, "a", 1), Given(3, "b", 3), Given(2, "c", 3), Given(5, "d", 3)>>,
                  <<Given(NoKey, "a", 1), Given(NoKey, "b", 3), Given(NoKey, "c", 3), Given(NoKey, "d", 3)>>},
         BindLimits <- [Postgres |-> 6, MySQL |-> 6, SQLite |-> 5],
         MaxStatementBytes <- 4, ColumnCounts <- {0, 2, 9}, MaxBesides <- 1

-------------------------------------------------------------------------------
(* Pivot: two callers attach, detach and sync the links of one owner       *)

P == INSTANCE Pivot WITH
         Callers <- {a1, a2}, Related <- {1, 2}, Wishes <- {<<>>, <<1>>, <<1, 2>>, <<2, 1>>}

-------------------------------------------------------------------------------
(* Aggregates: an owner of up to two children                              *)

A == INSTANCE Aggregates WITH Owners <- {"one", "two"}, Children <- {a1, a2}

-------------------------------------------------------------------------------
(* Documents: attachments and translations                                 *)

T == INSTANCE Documents WITH Keys <- {k, l}, MaxFiles <- 2, Texts <- {k, l}, Untranslated <- None

-------------------------------------------------------------------------------
(* BulkUpdates: factors, steps, singles and documents                      *)

B == INSTANCE BulkUpdates WITH
         Members <- {k, l}, MaxWord <- 63, Ten <- 10, Precision <- 3, SpacingSteps <- 3, Grain <- 4

Factors == [ask : {"scale"}, factor : [mantissa : -64..64, scale : 0..2], divide : BOOLEAN,
            bounds : {-64..63, -8..7, 0..15}]
Blocks == [ask : {"single"}, from : {32 * block : block \in 0..112}]
FlatDocuments ==
    {B!JsonNull, B!Number(1)} \cup {B!Array(s) : s \in SeqsOf({B!JsonNull, B!Number(1)}, 2)} \cup
    {B!Object(f) : f \in UNION {[names -> {B!Number(1)}] : names \in SUBSET {k, l}}}
Documents ==
    FlatDocuments \cup {B!Array(<<d, B!Number(1)>>) : d \in FlatDocuments} \cup {B!Object(k :> d) : d \in FlatDocuments}
Settings == [ask : {"document"}, cell : Documents \cup {Null}, path : SeqsOf({k, 0, 1}, 3),
             value : {B!JsonNull, B!Number(1), B!Array(<<B!Number(1)>>)}]

Ask ==
    \/ input' \in Factors
    \/ input' \in Blocks
    \/ input' \in Settings

-------------------------------------------------------------------------------
(* FlushOrder: three entries of tables that refer to themselves (a) or in  *)
(* a chain (b to a, c to b), as either side may declare it                 *)

F == INSTANCE FlushOrder WITH References <- [a |-> "a", b |-> "a", c |-> "b"], NoRow <- 0

EntriesOf(tables, states) ==
    {e \in [table : tables, state : states, fk : 0..3, was : 0..3, numbered : BOOLEAN] :
        /\ e.state = "New" => e.was = 0
        /\ e.state = "Removed" => e.fk = e.was
        /\ e.state # "New" => e.numbered}
Selfless(entries, i) == {[id |-> i] @@ e : e \in {x \in entries : x.fk # i /\ x.was # i}}

AskFlush(entries) ==
    \E x \in Selfless(entries, 1), y \in Selfless(entries, 2), z \in Selfless(entries, 3),
       b \in {<<"child", "b">>, <<"parent", "b">>} :
        /\ F!IsFlush(<<x, y, z>>)
        /\ input' = [ask |-> "flush", entries |-> <<x, y, z>>, declares |-> {b, <<"child", "c">>}]

-------------------------------------------------------------------------------
(* Scopes: tasks that share threads, and pools that share addresses        *)

C == INSTANCE Scopes WITH
         Pools <- 1..3, Addresses <- {1, 2}, Tasks <- {a1, a2},
         Threads <- {h1, h2}, MaxIdentities <- 3, MaxScopes <- 2

-------------------------------------------------------------------------------
write_vars == <<table, writers, kind, numbered>>
insert_vars == <<stored, last_value, batch, besides>>
pivot_vars == <<pivot, setting, calls>>
aggregate_vars == <<child_rows, identity_map, owner, taken, made_for>>
scope_vars == <<pools, identities, global, tasks, slot, polls>>
document_vars == <<document, meant>>
all == <<part, write_vars, insert_vars, pivot_vars, aggregate_vars, scope_vars, document_vars, input>>

Symmetric == Permutations({a1, a2}) \cup Permutations({h1, h2})

MCInit ==
    /\ part \in {"writes", "inserts", "pivot", "aggregates", "updates", "flush", "scopes", "attachments", "translations"}
    /\ IF part = "writes" THEN W!WritesInit
       ELSE table = Nothing /\ writers = Nothing /\ kind = Nothing /\ numbered = Nothing
    /\ IF part = "inserts" THEN I!InsertsInit
       ELSE stored = Nothing /\ last_value = Nothing /\ batch = Nothing /\ besides = Nothing
    /\ IF part = "pivot" THEN P!PivotInit ELSE pivot = Nothing /\ setting = Nothing /\ calls = Nothing
    /\ IF part = "aggregates" THEN A!AggregatesInit
       ELSE /\ child_rows = Nothing /\ identity_map = Nothing /\ owner = Nothing
            /\ taken = Nothing /\ made_for = Nothing
    /\ IF part = "scopes" THEN C!ScopesInit
       ELSE /\ pools = Nothing /\ identities = Nothing /\ global = Nothing
            /\ tasks = Nothing /\ slot = Nothing /\ polls = Nothing
    /\ CASE part = "attachments" -> T!AttachmentsInit
         [] part = "translations" -> T!TranslationsInit
         [] OTHER -> document = Nothing /\ meant = Nothing
    /\ input = Nothing

WriteStep ==
    part = "writes" /\ W!WritesNext /\ UNCHANGED <<part, insert_vars, pivot_vars, aggregate_vars, scope_vars, document_vars, input>>
InsertStep ==
    part = "inserts" /\ I!InsertsNext /\ UNCHANGED <<part, write_vars, pivot_vars, aggregate_vars, scope_vars, document_vars, input>>
PivotStep ==
    part = "pivot" /\ P!PivotNext /\ UNCHANGED <<part, write_vars, insert_vars, aggregate_vars, scope_vars, document_vars, input>>
AggregateStep ==
    part = "aggregates" /\ A!AggregatesNext /\ UNCHANGED <<part, write_vars, insert_vars, pivot_vars, scope_vars, document_vars, input>>
ScopeStep ==
    part = "scopes" /\ C!ScopesNext /\ UNCHANGED <<part, write_vars, insert_vars, pivot_vars, aggregate_vars, document_vars, input>>
AskStep ==
    /\ input = Nothing
    /\ \/ part = "updates" /\ Ask
       \/ part = "flush" /\ AskFlush(EntriesOf({"a", "b"}, {"New", "Managed", "Removed"}))
       \/ part = "flush" /\ AskFlush(EntriesOf({"a", "b", "c"}, {"New", "Removed"}))
    /\ UNCHANGED <<part, write_vars, insert_vars, pivot_vars, aggregate_vars, scope_vars, document_vars>>
BackStep ==
    /\ input # Nothing /\ input' = Nothing
    /\ UNCHANGED <<part, write_vars, insert_vars, pivot_vars, aggregate_vars, scope_vars, document_vars>>
DocumentStep ==
    /\ \/ part = "attachments" /\ T!AttachmentsNext
       \/ part = "translations" /\ T!TranslationsNext
    /\ UNCHANGED <<part, write_vars, insert_vars, pivot_vars, aggregate_vars, scope_vars, input>>

MCNext == WriteStep \/ InsertStep \/ PivotStep \/ AggregateStep \/ ScopeStep \/ DocumentStep \/ AskStep \/ BackStep

MCSpec == MCInit /\ [][MCNext]_all

-------------------------------------------------------------------------------
\* Writes!WriteIsWhole: a nested save is stored as a whole, its children with
\* the key of their parent, or not at all; and no save or upsert of a row
\* changes the created_at it was inserted with.
WritesAreWhole == [][part = "writes" => W!WriteIsWhole]_write_vars

\* Inserts!InsertsComeBackInOrder: insert_all returns each model as stored, in
\* the order given, whatever its statements returned.
InsertsComeBackInOrder == part = "inserts" => I!InsertsComeBackInOrder

\* Pivot!LinksAreAsAsked, Documents!FilesAreAsAsked, FilesKeepTheirMetadata and
\* TranslationsAreAsAsked: attach, detach and sync leave the links,
\* the files and the translations asked for, and a refused call leaves all.
LinksAreAsAsked ==
    /\ part = "pivot" => P!LinksAreAsAsked
    /\ part = "attachments" => T!FilesAreAsAsked /\ T!FilesKeepTheirMetadata
    /\ part = "translations" => T!TranslationsAreAsAsked

\* Aggregates!AggregateIsWhole: a collection is never taken for another
\* owner's, and saving an owner deletes only children the caller took out of
\* the collection it had loaded.
AggregatesAreWhole == [][part = "aggregates" => A!AggregateIsWhole]_aggregate_vars

\* A bulk update computes on SQLite what PostgreSQL and MySQL compute: integers
\* scaled by a decimal and stepped, within their column's range or not at all,
\* a float rounded to single precision, and a document set at a path
\* (sql_execution.rs).
UpdatesAgree ==
    part = "updates" /\ input # Nothing =>
        CASE input.ask = "scale" ->
                 /\ B!ScalesAgree(input.factor, input.divide, input.bounds)
                 /\ input.factor.scale = 0 => B!StepsAgree(input.factor.mantissa, input.bounds)
          [] input.ask = "single" ->
                 \A v \in input.from..(input.from + 31) :
                     v <= B!Max(B!Singles) => B!RoundsToSingle(v) /\ B!RoundsToSingle(-v)
          [] input.ask = "document" -> B!SettersAgree(input.cell, input.path, input.value)

\* FlushOrder!FlushesThatCanSucceedDo: a flush writes its entries in an order
\* the foreign keys of their tables accept, whenever there is one
\* (plan_flush_order, order_self_references).
FlushesThatCanSucceedDo ==
    part = "flush" /\ input # Nothing => F!FlushesThatCanSucceedDo(input.entries, input.declares)

\* Scopes!ScopesFollowTheirFutures: a future runs on the connection of the scope
\* it was called in, whichever thread polls it and whoever shares that thread,
\* and a pool is never taken for one dropped before it.
ScopesFollowTheirFutures == part = "scopes" => C!ScopesFollowTheirFutures
===============================================================================
