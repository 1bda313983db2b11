------------------------------- MODULE Inserts -------------------------------
(***************************************************************************)
(* insert_all: a batch of models written with few statements and returned  *)
(* as stored, in the order given (src/src/internal/batch_insert.rs,        *)
(* key_sequence.rs, model/crud.rs).  A model is what it says, the key it   *)
(* holds if any, and the bytes of its values.  Another session inserts rows *)
(* the database numbers, and a trigger may leave a row out.                *)
(***************************************************************************)
EXTENDS Integers, Sequences, FiniteSets, SequencesExt, FiniteSetsExt

CONSTANTS
    NoKey,
    Batches,          \* the lists insert_all is called with
    BindLimits,       \* backend |-> parameters one statement takes
    MaxStatementBytes,
    ColumnCounts,     \* how many columns the model may have
    MaxBesides        \* rows the other session inserts

VARIABLES
    stored,     \* committed rows
    last_value, \* of the key's PostgreSQL sequence
    batch,      \* the call
    besides

insert_vars == <<stored, last_value, batch, besides>>

\* What the model's key and table are: auto-increment or set by the client, one
\* column or several, of a type that comes back as it was sent or text.
Models == {m \in [backend : {"Postgres", "MySQL", "SQLite"}, auto : BOOLEAN, single : BOOLEAN,
                  text : BOOLEAN, columns : ColumnCounts, trigger : BOOLEAN] :
           m.text => ~m.auto}

Row(key, says) == [key |-> key, says |-> says]
KeysOf(rows) == {r.key : r \in rows}
Visible == stored \cup batch.written

InsertsInit ==
    /\ stored \in {{}, {Row(1, "old")}}
    /\ last_value = Cardinality(stored)
    /\ besides = 0
    /\ \E m \in Models, models \in Batches :
        /\ \A i \in DOMAIN models : models[i].key = NoKey => m.auto
        /\ batch = [model |-> m, models |-> models, results |-> <<>>, written |-> {}, pc |-> "start", sent |-> <<>>]

-------------------------------------------------------------------------------
(* The database                                                            *)

\* The key the database gives the next row, `rows` being there
NextNumber(rows, last) == IF batch.model.backend = "Postgres" THEN last + 1 ELSE Max(KeysOf(rows) \cup {0}) + 1

\* What inserting `models` in order stores: the rows, the sequence's new value
\* and whether a key was taken
Inserting(rows, models) ==
    FoldLeft(LAMBDA acc, m :
                 LET key == IF m.key = NoKey THEN NextNumber(rows \cup Range(acc.rows), acc.last) ELSE m.key
                 IN  [rows |-> Append(acc.rows, Row(key, m.says)),
                      last |-> IF m.key = NoKey /\ batch.model.backend = "Postgres" THEN acc.last + 1 ELSE acc.last,
                      taken |-> acc.taken \/ key \in KeysOf(rows \cup Range(acc.rows))],
             [rows |-> <<>>, last |-> last_value, taken |-> FALSE], models)

\* The rows a statement may leave in: all, or all but one when a trigger drops it
LeftIn(rows) == {rows} \cup IF batch.model.trigger THEN {RemoveAt(rows, i) : i \in DOMAIN rows} ELSE {}

Orders(s) == {[i \in DOMAIN s |-> s[p[i]]] \o <<>> : p \in Permutations(DOMAIN s)}

-------------------------------------------------------------------------------
(* Chunks and strategies                                                   *)

rows_per_statement(m) == Max({1, BindLimits[m.backend] \div Max({m.columns, 1})})

held_keys(m, models) == IF m.auto THEN Cardinality({i \in DOMAIN models : models[i].key # NoKey}) ELSE 0

\* Keys known before the insert, told apart, and read back as they were sent
client_keys_known(m, models) ==
    /\ \A i \in DOMAIN models : models[i].key # NoKey
    /\ m.text => m.backend = "SQLite"
    /\ \A i, j \in DOMAIN models : models[i].key = models[j].key => i = j

strategy(m, models) ==
    LET held == held_keys(m, models)
        numbered == m.auto /\ held = 0
    IN  CASE held \notin {0, Len(models)} -> "per_row"
          [] m.backend = "Postgres" -> "as_returned"
          [] m.backend = "SQLite" /\ numbered /\ m.single -> "by_increasing_key"
          [] numbered \/ ~client_keys_known(m, models) -> "per_row"
          [] m.backend = "SQLite" -> "by_client_key"
          [] OTHER -> "then_select"

\* As many rows as fit the byte limit, and one however large it is
mysql_chunk(models, max_rows) ==
    LET fits(n) == n = 1 \/ FoldLeft(+, 0, [i \in 1..n |-> models[i].bytes]) <= MaxStatementBytes
    IN  SubSeq(models, 1, Max({0} \cup {n \in 1..Min({max_rows, Len(models)}) : \A k \in 1..n : fits(k)}))

\* insert_individually: a lone model, and models no other strategy can match back
TakesOne(b) == Len(b.models) = 1 \/ strategy(b.model, b.models) = "per_row"

\* insert_by_strategy: the rows of the next statement
chunk(b) ==
    LET rest == SubSeq(b.models, Len(b.results) + 1, Len(b.models))
        limit == rows_per_statement(b.model)
    IN  CASE TakesOne(b) -> SubSeq(rest, 1, Min({1, Len(rest)}))
          [] strategy(b.model, b.models) = "then_select" -> mysql_chunk(rest, limit)
          [] OTHER -> SubSeq(rest, 1, Min({limit, Len(rest)}))

-------------------------------------------------------------------------------
(* Rows put back in the order of their models                              *)

Put(rows) == [ok |-> TRUE, rows |-> rows]
Refused == [ok |-> FALSE, rows |-> <<>>]

order_by_keys(rows, models) ==
    IF Len(rows) = Len(models) /\ \A i \in DOMAIN models : \E j \in DOMAIN rows : rows[j].key = models[i].key
    THEN Put([i \in DOMAIN models |-> CHOOSE r \in Range(rows) : r.key = models[i].key] \o <<>>)
    ELSE Refused

\* Whatever the strategy, rows are taken in the order they came back
in_order_as_returned(b, sent, rows) == IF Len(rows) = Len(sent) THEN Put(rows) ELSE Refused

in_order(b, sent, rows) ==
    IF Len(b.models) # 1 /\ strategy(b.model, b.models) \in {"by_client_key", "then_select"}
    THEN order_by_keys(rows, sent)
    ELSE IF Len(rows) # Len(sent) THEN Refused
    ELSE IF Len(b.models) # 1 /\ strategy(b.model, b.models) = "by_increasing_key"
    THEN Put(SortSeq(rows, LAMBDA r, s : r.key < s.key))
    ELSE Put(rows)

\* The order the database hands rows back in
Returned(rows) == IF batch.model.backend = "Postgres" THEN {rows} ELSE Orders(rows)

-------------------------------------------------------------------------------
(* The call                                                                *)

Fail == batch' = [batch EXCEPT !.pc = "failed", !.written = {}]

\* One statement: a chunk is inserted, and what came back put in order.  A lone
\* model's insert is no transaction: its row is stored at once.
InsertChunk ==
    /\ batch.pc = "start" /\ chunk(batch) # <<>>
    /\ LET sent == chunk(batch)
           inserted == Inserting(Visible, sent)
       IN  /\ last_value' = inserted.last
           /\ IF inserted.taken THEN Fail /\ UNCHANGED stored
              ELSE \E left \in LeftIn(inserted.rows) : \E returned \in Returned(left) :
                  LET put == in_order(batch, sent, returned)
                  IN  IF put.ok
                      THEN /\ batch' = [batch EXCEPT !.results = @ \o put.rows, !.written = @ \cup Range(left),
                                                     !.sent = sent]
                           /\ stored' = IF Len(batch.models) = 1 THEN stored \cup Range(left) ELSE stored
                      ELSE Fail /\ stored' = IF Len(batch.models) = 1 THEN stored \cup Range(left) ELSE stored
    /\ UNCHANGED besides

\* Whether the key's sequence must be moved, and where to
advance_key_sequence(m, keys, last) == IF m.single /\ m.auto /\ m.backend = "Postgres" THEN Max(keys \cup {last}) ELSE last

\* Every row is in: the sequence is moved past the keys models held
Advance ==
    /\ batch.pc = "start" /\ chunk(batch) = <<>>
    /\ last_value' = IF held_keys(batch.model, batch.models) > 0
                     THEN advance_key_sequence(batch.model, KeysOf(Range(batch.results)), last_value)
                     ELSE last_value
    /\ batch' = [batch EXCEPT !.pc = "commit"]
    /\ UNCHANGED <<stored, besides>>

\* The transaction commits, or its connection is lost
EndBatch ==
    /\ batch.pc = "commit"
    /\ \/ stored' = stored \cup batch.written /\ batch' = [batch EXCEPT !.pc = "ok", !.written = {}]
       \/ Len(batch.models) > 1 /\ Fail /\ UNCHANGED stored
    /\ UNCHANGED <<last_value, besides>>

\* The other session inserts a row the database numbers.  SQLite has one
\* writer; a key the open batch holds makes it wait, so it is not taken here.
Beside ==
    /\ besides < MaxBesides /\ batch.model.auto
    /\ batch.model.backend = "SQLite" => batch.pc \in {"ok", "failed"} \/ batch.written = {}
    /\ LET n == NextNumber(Visible, last_value)
       IN  /\ n \notin KeysOf(batch.written)
           /\ stored' = IF n \in KeysOf(stored) THEN stored ELSE stored \cup {Row(n, "beside")}
           /\ last_value' = IF batch.model.backend = "Postgres" THEN last_value + 1 ELSE last_value
    /\ besides' = besides + 1
    /\ UNCHANGED batch

InsertsNext == InsertChunk \/ Advance \/ EndBatch \/ Beside

-------------------------------------------------------------------------------
(* Properties                                                              *)

\* insert_all returns its models as stored, each in its place, whatever order
\* the database handed rows back in; a batch that fails leaves no row of it; a
\* statement never carries more parameters or bytes than the backend takes,
\* unless one row alone does; and when it is over the sequence of an
\* auto-increment key hands out no key that a row has.
InsertsComeBackInOrder ==
    /\ batch.pc = "ok" =>
        /\ Len(batch.results) = Len(batch.models)
        /\ \A i \in DOMAIN batch.models :
            /\ batch.results[i].says = batch.models[i].says
            /\ batch.models[i].key # NoKey => batch.results[i].key = batch.models[i].key
            /\ batch.results[i] \in stored
    /\ batch.pc = "failed" /\ Len(batch.models) > 1 => \A r \in stored : r.says \in {"old", "beside"}
    /\ Len(batch.sent) > 1 =>
        /\ Len(batch.sent) * batch.model.columns <= BindLimits[batch.model.backend]
        /\ batch.model.backend = "MySQL" => FoldLeft(+, 0, [i \in DOMAIN batch.sent |-> batch.sent[i].bytes]) <= MaxStatementBytes
    /\ batch.pc = "ok" /\ batch.model.auto /\ batch.model.single => NextNumber(stored, last_value) \notin KeysOf(stored)
===============================================================================
