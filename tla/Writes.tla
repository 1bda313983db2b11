-------------------------------- MODULE Writes --------------------------------
(***************************************************************************)
(* Models saved, upserted and deleted, alone or with their children, by    *)
(* callers at the same time (src/src/model/crud.rs, api.rs, upsert.rs,     *)
(* nested.rs, callbacks.rs; model_trait/ of the macros).  One table holds   *)
(* the parents, "p", one the children, "c"; a row's id is its table and    *)
(* key.  `code` is a unique column that may be NULL (NoCode).              *)
(***************************************************************************)
EXTENDS Integers, Sequences, FiniteSets, SequencesExt, FiniteSetsExt

CONSTANTS
    NoKey, NoCode,
    WriteCallers,
    WriteCalls,         \* the jobs a caller may be asked to do, as one call
    WriteSettings,      \* backend, key kind and soft delete of the model
    FirstTables         \* the rows that may be there

VARIABLES
    table,      \* committed rows
    writers,    \* what each caller is at
    kind,       \* [backend, counter, soft]
    numbered    \* the last key the database gave

write_vars == <<table, writers, kind, numbered>>

Id(row) == <<row.table, row.key>>
Ids(rows) == {Id(row) : row \in rows}

\* What a job writes: a model as the caller holds it
Model(in, key, code, says) == [table |-> in, key |-> key, code |-> code, says |-> says]

WritesInit ==
    /\ kind \in WriteSettings /\ table \in FirstTables
    /\ numbered = Max({r.key : r \in table} \cup {0})
    /\ \E calls \in [WriteCallers -> WriteCalls] :
        writers = [c \in WriteCallers |->
            [pc |-> "next", jobs |-> calls[c].jobs, nested |-> calls[c].nested, tx |-> calls[c].nested,
             set |-> {}, unset |-> {}, results |-> <<>>, existing |-> {}]]

-------------------------------------------------------------------------------
(* The database                                                            *)

\* The rows a caller's statements see: its own transaction's over the committed
View(c) == {r \in table : Id(r) \notin Ids(writers[c].set) \cup writers[c].unset} \cup writers[c].set

\* Another transaction holds a row of this id or code; SQLite has one writer.
Held(c, id, code) ==
    \E o \in WriteCallers \ {c} :
        \/ kind.backend = "SQLite" /\ (writers[o].set # {} \/ writers[o].unset # {})
        \/ id \in writers[o].unset \cup Ids(writers[o].set)
        \/ code # NoCode /\ \E r \in writers[o].set : <<r.table, r.code>> = <<id[1], code>>

\* Rows of the table that hold the code under another key
SameCode(rows, m, key) == {r \in rows : r.table = m.table /\ r.key # key /\ m.code # NoCode /\ r.code = m.code}

\* A statement's effect is the transaction's, or is committed at once.
Store(c, row, next) ==
    IF writers[c].tx
    THEN writers' = [writers EXCEPT ![c] = [next EXCEPT !.set = {r \in @ : Id(r) # Id(row)} \cup {row}]] /\ UNCHANGED table
    ELSE writers' = [writers EXCEPT ![c] = next] /\ table' = {r \in table : Id(r) # Id(row)} \cup {row}

Failed(c) == writers' = [writers EXCEPT ![c].pc = "failed", ![c].set = {}, ![c].unset = {}]

-------------------------------------------------------------------------------
(* Choosing the statement                                                  *)

Job(c) == Head(writers[c].jobs)

\* apply_foreign_key: a child is given the key its parent was saved under.
ForeignKey(c) == IF Job(c).model.table = "c" THEN writers[c].results[1].key ELSE NoKey

is_new(m) == m.key = NoKey

\* save(): a new model is created; one with a counter key updated; for any other
\* the table is asked, trash included.
save(c) ==
    LET m == Job(c).model
    IN  CASE is_new(m) -> "create"
          [] kind.counter -> "update"
          [] \E r \in View(c) : Id(r) = Id(m) -> "update"
          [] OTHER -> "create"

\* __upsert: a key the database is to give conflicts with nothing.
upsert(c) ==
    LET m == Job(c).model
    IN  CASE kind.counter /\ is_new(m) /\ Job(c).conflict = "key" -> "create"
          [] kind.backend = "MySQL" -> "select"
          [] OTHER -> "upsert"

Choose(c) ==
    /\ writers[c].pc = "next" /\ writers[c].jobs # <<>>
    /\ LET step == CASE Job(c).do = "save" -> save(c) [] Job(c).do = "upsert" -> upsert(c) [] OTHER -> "delete"
       IN  writers' = [writers EXCEPT ![c].pc = step, ![c].tx = @ \/ step = "select"]
    /\ UNCHANGED <<table, kind, numbered>>

-------------------------------------------------------------------------------
(* Statements                                                              *)

\* The row an insert stores: timestamps are the database write's own
InsertedRow(c, m) ==
    [table |-> m.table, key |-> IF is_new(m) THEN numbered + 1 ELSE m.key, code |-> m.code, says |-> m.says,
     of |-> ForeignKey(c), created |-> c, trashed |-> FALSE, by |-> c]

Done(c, row) == [writers[c] EXCEPT !.pc = "after", !.results = Append(@, row)]

\* create after its callbacks, and the insert of an upsert that found no row
Insert(c) ==
    /\ writers[c].pc = "create"
    /\ LET row == InsertedRow(c, Job(c).model)
       IN  /\ ~Held(c, Id(row), row.code)
           /\ IF Id(row) \in Ids(View(c)) \/ SameCode(View(c), row, row.key) # {}
              THEN Failed(c) /\ UNCHANGED table
              ELSE Store(c, row, Done(c, row))
           /\ numbered' = Max({numbered, row.key})
    /\ UNCHANGED kind

\* The columns of the row an update leaves alone are its key and created_at.
Updated(old, m, of) == [old EXCEPT !.code = m.code, !.says = m.says, !.of = of, !.trashed = FALSE]

Update(c) ==
    /\ writers[c].pc = "update"
    /\ LET m == Job(c).model
           rows == {r \in View(c) : Id(r) = Id(m)}
       IN  /\ ~Held(c, Id(m), m.code)
           /\ IF rows = {} \/ SameCode(View(c), m, m.key) # {} THEN Failed(c) /\ UNCHANGED table
              ELSE LET row == [Updated(CHOOSE r \in rows : TRUE, m, ForeignKey(c)) EXCEPT !.by = c]
                   IN  Store(c, row, Done(c, row))
    /\ UNCHANGED <<kind, numbered>>

Columns == {"key", "code", "says", "of", "created", "trashed"}

\* Mutant: created_at is taken for a column like any other.
update_column_names_all(job) == IF job.columns # {} THEN job.columns ELSE Columns \ {"key", job.conflict}

\* The columns listed, or all but the key, the conflict's and created_at
update_column_names(job) == IF job.columns # {} THEN job.columns ELSE Columns \ {"key", job.conflict, "created"}

\* `old` with the columns an upsert updates taken from `new`
Merged(job, old, new) == [f \in DOMAIN old |-> IF f \in update_column_names(job) \/ f = "by" THEN new[f] ELSE old[f]]

\* The rows an upsert conflicts with
Conflicting(c, m, conflict) ==
    {r \in View(c) : r.table = m.table /\ IF conflict = "key" THEN r.key = m.key ELSE m.code # NoCode /\ r.code = m.code}

\* INSERT .. ON CONFLICT DO UPDATE: one statement.  The other unique column may
\* still refuse it.
UpsertStatement(c) ==
    /\ writers[c].pc = "upsert"
    /\ LET job == Job(c)
           m == IF kind.counter /\ job.conflict # "key" THEN [job.model EXCEPT !.key = NoKey] ELSE job.model
           new == InsertedRow(c, m)
           hit == Conflicting(c, m, job.conflict)
       IN  /\ ~Held(c, Id(new), m.code)
           /\ \E row \in IF hit = {} THEN {new} ELSE {Merged(job, r, new) : r \in hit} :
               /\ ~Held(c, Id(row), row.code)
               /\ IF SameCode(View(c), row, row.key) # {} \/ (hit = {} /\ Id(row) \in Ids(View(c)))
                  THEN Failed(c) /\ UNCHANGED table
                  ELSE Store(c, row, Done(c, row))
           /\ numbered' = Max({numbered, new.key})
    /\ UNCHANGED kind

\* upsert_mysql in its transaction: the row is locked if it is there.
Select(c) ==
    /\ writers[c].pc = "select"
    /\ LET job == Job(c)
           found == Conflicting(c, job.model, job.conflict)
       IN  /\ ~Held(c, IF job.conflict = "key" THEN Id(job.model) ELSE <<"p", NoKey>>,
                    IF job.conflict = "key" THEN NoCode ELSE job.model.code)
           /\ \A r \in found : ~Held(c, Id(r), NoCode)
           /\ writers' = [writers EXCEPT ![c].existing = found, ![c].set = @ \cup found,
                              ![c].pc = IF found = {} THEN "create" ELSE "apply",
                              ![c].jobs[1].model.key = IF kind.counter /\ job.conflict # "key" THEN NoKey ELSE @]
    /\ UNCHANGED <<table, kind, numbered>>

Apply(c) ==
    /\ writers[c].pc = "apply"
    /\ LET old == CHOOSE r \in writers[c].existing : TRUE
           row == Merged(Job(c), old, [InsertedRow(c, Job(c).model) EXCEPT !.key = old.key])
       IN  /\ ~Held(c, Id(row), row.code)
           /\ IF SameCode(View(c), row, row.key) # {} THEN Failed(c) /\ UNCHANGED table
              ELSE Store(c, row, Done(c, row))
    /\ UNCHANGED <<kind, numbered>>

\* delete(): a soft delete stamps a live row, any other removes the row.
Delete(c) ==
    /\ writers[c].pc = "delete"
    /\ LET m == Job(c).model
           rows == {r \in View(c) : Id(r) = Id(m) /\ (kind.soft => ~r.trashed)}
       IN  /\ ~Held(c, Id(m), NoCode)
           /\ IF rows = {} THEN writers' = [writers EXCEPT ![c].pc = "after"] /\ UNCHANGED table
              ELSE LET row == CHOOSE r \in rows : TRUE
                   IN  IF kind.soft THEN Store(c, [row EXCEPT !.trashed = TRUE, !.by = c], [writers[c] EXCEPT !.pc = "after"])
                       ELSE IF writers[c].tx
                       THEN /\ writers' = [writers EXCEPT ![c].pc = "after", ![c].unset = @ \cup {Id(m)},
                                               ![c].set = {r \in @ : Id(r) # Id(m)}]
                            /\ UNCHANGED table
                       ELSE writers' = [writers EXCEPT ![c].pc = "after"] /\ table' = table \ {row}
    /\ UNCHANGED <<kind, numbered>>

-------------------------------------------------------------------------------
(* The end of a job and of a call                                          *)

\* The after callbacks of the job have run: on to the next, or to the commit
After(c) ==
    /\ writers[c].pc = "after"
    /\ LET rest == Tail(writers[c].jobs)
       IN  writers' = [writers EXCEPT ![c].jobs = rest, ![c].tx = writers[c].nested,
                           ![c].pc = IF rest # <<>> THEN "next" ELSE IF writers[c].tx THEN "commit" ELSE "ok"]
    /\ UNCHANGED <<table, kind, numbered>>

\* The transaction of a nested call or of MySQL's upsert commits.
Commit(c) ==
    /\ writers[c].pc = "commit"
    /\ table' = View(c)
    /\ writers' = [writers EXCEPT ![c].pc = "ok", ![c].set = {}, ![c].unset = {}, ![c].tx = FALSE]
    /\ UNCHANGED <<kind, numbered>>

\* A validation, a callback, a statement or the commit fails: a transaction is
\* rolled back.
Break(c) ==
    /\ writers[c].pc \notin {"ok", "failed"}
    /\ Failed(c)
    /\ UNCHANGED <<table, kind, numbered>>

WritesNext ==
    \E c \in WriteCallers :
        Choose(c) \/ Insert(c) \/ Update(c) \/ UpsertStatement(c) \/ Select(c) \/ Apply(c) \/ Delete(c)
            \/ After(c) \/ Commit(c) \/ Break(c)

-------------------------------------------------------------------------------
(* Properties                                                              *)

\* A nested save that fails leaves nothing it wrote, whichever of its models,
\* callbacks or statements failed, and one that commits gives its children the
\* key of their parent; and no save or upsert of a row changes the created_at
\* it was inserted with.
WriteIsWhole ==
    /\ \A c \in WriteCallers :
        /\ writers[c].nested /\ writers'[c].pc = "failed" => \A r \in table' : r.by # c
        /\ writers[c].pc = "commit" /\ writers'[c].pc = "ok" /\ writers[c].results # <<>> =>
               \A r \in table' : r.by = c /\ r.table = "c" => r.of = writers[c].results[1].key
    /\ \A r \in table, s \in table' : Id(r) = Id(s) => s.created = r.created
===============================================================================
