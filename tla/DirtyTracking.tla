---------------------------- MODULE DirtyTracking ----------------------------
(***************************************************************************)
(* The baselines dirty tracking compares models with: one per row and pool *)
(* in a store of bounded capacity, set and forgotten by tasks whose        *)
(* transactions may roll back.  A baseline set in a transaction comes with *)
(* an undo step, kept in the transaction's record; the steps run one by    *)
(* one, newest first, while other tasks go on.                             *)
(*                                                                         *)
(* Sources: model/dirty_tracking.rs, and cache/query_cache/pending.rs for  *)
(* the undo steps.                                                         *)
(***************************************************************************)
EXTENDS Integers, FiniteSets, Sequences

CONSTANTS
    Rows,          \* RowKey: a model type and a primary key
    ModelOf,       \* the model type of each row
    Origins,       \* the pools
    Baselines,     \* <<row, pool>>: the rows each pool has
    Tasks,         \* each has one transaction at most
    ValuesOf,      \* what rows hold as the transaction of each task reads and writes them
    Outside,       \* ... and as statements outside transactions do
    Forgotten,     \* `values` of a baseline that was forgotten
    NoEntry,
    Capacity,
    MaxSequence,   \* bound on next_sequence
    MaxDepth,      \* bound on the nested transactions of each task
    MaxSteps       \* bound on the undo steps of one transaction

VARIABLES
    store,     \* SnapshotStore: entries, order, next_sequence; and what a call evicts
    levels,    \* per task, the undo steps of its open transaction and savepoints
    dropping,  \* per task, steps of a committed transaction yet to be dropped
    mode,      \* "run"; "undo" while the innermost level rolls back; "committed", "undone"
    base       \* history: per task and level, the baselines when it began, those still its own

vars == <<store, levels, dropping, mode, base>>

Values == Outside \cup UNION {ValuesOf[t] : t \in Tasks}
NoSequence == -1

\* A baseline is one of a row, and a missing entry is not one of the entries.
ASSUME BaselinesAssumption ==
    /\ Capacity \in Nat
    /\ \A p \in Baselines : p[1] \in Rows
    /\ NoEntry \notin [sequence : Nat, values : Values \cup {Forgotten}]

Last(s) == s[Len(s)]
Front(s) == SubSeq(s, 1, Len(s) - 1)

-------------------------------------------------------------------------------
(* SnapshotStore                                                           *)

\* The baseline reported for a row: the one every pool agrees on
Get(st, row) ==
    LET values == {st.entries[p].values : p \in {q \in Baselines : q[1] = row /\ st.entries[q] # NoEntry}}
    IN  IF Forgotten \notin values /\ \E v \in values : values = {v}
        THEN CHOOSE v \in values : TRUE ELSE NoEntry

\* The store with other entries, which `order` lists
Relisted(st, entries, order) == [st EXCEPT !.entries = entries, !.order = order]

\* Mutant: the evicted pool's baseline leaves alone.
EvictOldestAlone(st) ==
    LET oldest == CHOOSE o \in st.order : \A q \in st.order : o[1] <= q[1]
    IN  [st EXCEPT !.entries[oldest[2]] = NoEntry, !.order = @ \ {oldest},
                   !.evicted = {oldest[2][1]}]

\* A row leaves with every pool's baseline of it.
EvictOldest(st) ==
    LET row == (CHOOSE o \in st.order : \A q \in st.order : o[1] <= q[1])[2][1]
    IN  [Relisted(st, [p \in Baselines |-> IF p[1] = row THEN NoEntry ELSE st.entries[p]],
                      {o \in st.order : o[2][1] # row}) EXCEPT !.evicted = {row}]

Without(order, e) == IF e = NoEntry THEN order ELSE {o \in order : o[1] # e.sequence}

\* put; one put goes over the capacity by one, so the loop runs at most once.
Put(st, p, e) ==
    LET put == Relisted(st, [st.entries EXCEPT ![p] = e],
                        Without(st.order, st.entries[p]) \cup {<<e.sequence, p>>})
    IN  IF Cardinality(put.order) > Capacity THEN EvictOldest(put) ELSE put

Insert(st, p, values) ==
    Put([st EXCEPT !.next_sequence = @ + 1], p,
        [sequence |-> st.next_sequence, values |-> values])

\* Mutant: the order keeps the entry.
TakeListed(st, p) == [st EXCEPT !.entries[p] = NoEntry]

Take(st, p) ==
    Relisted(st, [st.entries EXCEPT ![p] = NoEntry], Without(st.order, st.entries[p]))

\* Whether forgetting p has to leave something behind: another pool holds a
\* different baseline of the row, which must not become the row's.
OthersDiffer(st, p) ==
    /\ st.entries[p] # NoEntry
    /\ \E q \in Baselines \ {p} :
           /\ q[1] = p[1] /\ st.entries[q] # NoEntry
           /\ \/ st.entries[p].values = Forgotten
              \/ st.entries[q].values # st.entries[p].values

\* replace: the new store, and the step that undoes it
Replace(st, p, values) ==
    LET inserts == values # Forgotten \/ OthersDiffer(st, p)
    IN  [store |-> IF inserts THEN Insert(Take(st, p), p, values) ELSE Take(st, p),
         step |-> [kind |-> "set",
                   items |-> {[at |-> p, previous |-> st.entries[p],
                               standing |-> IF inserts THEN st.next_sequence ELSE NoSequence]}]]

SequenceAt(st, p) == IF st.entries[p] = NoEntry THEN NoSequence ELSE st.entries[p].sequence

\* restore
Restore(st, i) ==
    IF SequenceAt(st, i.at) # i.standing THEN st
    ELSE IF i.previous = NoEntry THEN Take(st, i.at)
         ELSE Put(Take(st, i.at), i.at, i.previous)

\* The baselines an invalidation left behind that still stand
Standing(st, items) == {i \in items : SequenceAt(st, i.at) = i.standing}

\* restore, of every one of them: entries change places, and none is evicted.
RestoreAll(st, items) ==
    LET left == Standing(st, items)
        previous == [p \in {i.at : i \in left} |-> (CHOOSE i \in left : i.at = p).previous]
    IN  Relisted(st, [p \in Baselines |-> IF p \in DOMAIN previous THEN previous[p] ELSE st.entries[p]],
                 {o \in st.order : o[1] \notin {i.standing : i \in left}} \cup
                     {<<previous[p].sequence, p>> : p \in DOMAIN previous})

\* What an undo step does
Undone(st, step) ==
    IF step.kind = "set" THEN Restore(st, CHOOSE i \in step.items : TRUE) ELSE RestoreAll(st, step.items)

\* take, of every baseline that still stands
TakeAll(st, items) ==
    LET left == Standing(st, items)
    IN  Relisted(st, [p \in Baselines |-> IF p \in {i.at : i \in left} THEN NoEntry ELSE st.entries[p]],
                 {o \in st.order : o[1] \notin {i.standing : i \in left}})

-------------------------------------------------------------------------------
(* The tasks                                                               *)

\* A task calls the store while it neither rolls back nor drops steps.
Running(t) == mode[t] = "run" /\ dropping[t] = <<>>

\* Task t leaves the store as st.  What another task changes, and what is
\* evicted, is not a level's own any more.
Change(t, st) ==
    /\ store' = [st EXCEPT !.evicted = {}]
    /\ base' = [u \in Tasks |-> [l \in DOMAIN base[u] |-> [p \in Baselines |->
                  IF p[1] \in st.evicted \/ (u # t /\ st.entries[p] # store.entries[p])
                  THEN Forgotten ELSE base[u][l][p]]]]

\* undo_on_rollback: the step goes into the record of the innermost open
\* transaction; outside one it is dropped.
UndoOnRollback(t, step) ==
    IF levels[t] = <<>>
    THEN /\ dropping' = [dropping EXCEPT ![t] = IF step.kind = "set" THEN <<>> ELSE <<step>>]
         /\ UNCHANGED levels
    ELSE /\ Cardinality(UNION {{l} \X (1..Len(levels[t][l])) : l \in 1..Len(levels[t])}) < MaxSteps
         /\ levels' = [levels EXCEPT ![t][Len(levels[t])] = Append(@, step)]
         /\ UNCHANGED dropping

\* set_baseline
SetBaseline(t, p, values) ==
    LET replaced == Replace(store, p, values)
    IN  /\ Running(t) /\ store.next_sequence < MaxSequence
        /\ Change(t, replaced.store)
        /\ UndoOnRollback(t, replaced.step)
        /\ UNCHANGED mode

RememberModel(t, p, values) ==
    /\ values \in IF levels[t] = <<>> THEN Outside ELSE ValuesOf[t]
    /\ SetBaseline(t, p, values)

\* Forgetting what is not there leaves a step that changes nothing, left out here.
ForgetModel(t, p) == store.entries[p] # NoEntry /\ SetBaseline(t, p, Forgotten)

\* invalidate_model: every baseline of the type becomes a forgotten one, in
\* the order the hash maps are walked.
InvalidateModel(t, model) ==
    LET known == {p \in Baselines : ModelOf[p[1]] = model /\ store.entries[p] # NoEntry}
        next == store.next_sequence
    IN  /\ Running(t) /\ known # {} /\ next + Cardinality(known) <= MaxSequence
        /\ \E number \in [known -> next .. next + Cardinality(known) - 1] :
              /\ \A p, q \in known : number[p] = number[q] => p = q
              /\ Change(t, [Relisted(store,
                    [p \in Baselines |-> IF p \in known
                        THEN [sequence |-> number[p], values |-> Forgotten] ELSE store.entries[p]],
                    {o \in store.order : o[1] \notin {store.entries[p].sequence : p \in known}} \cup
                        {<<number[p], p>> : p \in known})
                 EXCEPT !.next_sequence = @ + Cardinality(known)])
              /\ UndoOnRollback(t, [kind |-> "invalidate",
                     items |-> {[at |-> p, previous |-> store.entries[p],
                                 standing |-> number[p]] : p \in known}])
        /\ UNCHANGED mode

\* clear_all
ClearAll(t) ==
    /\ Running(t)
    /\ Change(t, [Relisted(store, [p \in Baselines |-> NoEntry], {}) EXCEPT !.evicted = Rows])
    /\ UNCHANGED <<levels, dropping, mode>>

ValuesAt(p) == IF store.entries[p] = NoEntry THEN NoEntry ELSE store.entries[p].values

\* A transaction begins, or a savepoint in the open one.
Begin(t) ==
    /\ Running(t) /\ Len(levels[t]) < MaxDepth[t]
    /\ levels' = [levels EXCEPT ![t] = Append(@, <<>>)]
    /\ base' = [base EXCEPT ![t] = Append(@, [p \in Baselines |-> ValuesAt(p)])]
    /\ UNCHANGED <<store, dropping, mode>>

\* replay: a savepoint hands its steps to the enclosing transaction, and a
\* transaction drops them.
Commit(t) ==
    /\ Running(t) /\ levels[t] # <<>>
    /\ LET n == Len(levels[t])
       IN  IF n > 1
           THEN /\ levels' = [levels EXCEPT ![t] =
                                 Append(SubSeq(@, 1, n - 2), @[n - 1] \o @[n])]
                /\ UNCHANGED <<dropping, mode>>
           ELSE /\ levels' = [levels EXCEPT ![t] = <<>>]
                /\ mode' = [mode EXCEPT ![t] = "committed"]
                /\ dropping' = [dropping EXCEPT ![t] = levels[t][1]]
    /\ base' = [base EXCEPT ![t] = Front(@)]
    /\ UNCHANGED store

\* The record of a transaction that did not commit is dropped ...
Rollback(t) ==
    /\ Running(t) /\ levels[t] # <<>>
    /\ mode' = [mode EXCEPT ![t] = "undo"]
    /\ UNCHANGED <<store, levels, dropping, base>>

\* Mutant: the oldest step runs first.
UndoOldest(t) ==
    LET n == Len(levels[t])
    IN  /\ mode[t] = "undo" /\ levels[t][n] # <<>>
        /\ Change(t, Undone(store, Head(levels[t][n])))
        /\ levels' = [levels EXCEPT ![t][n] = Tail(@)]
        /\ UNCHANGED <<dropping, mode>>

\* ... and runs its steps, each under the store's lock.
Undo(t) ==
    LET n == Len(levels[t])
    IN  /\ mode[t] = "undo" /\ levels[t][n] # <<>>
        /\ Change(t, Undone(store, Last(levels[t][n])))
        /\ levels' = [levels EXCEPT ![t][n] = Front(@)]
        /\ UNCHANGED <<dropping, mode>>

EndUndo(t) ==
    LET n == Len(levels[t])
    IN  /\ mode[t] = "undo" /\ levels[t][n] = <<>>
        /\ levels' = [levels EXCEPT ![t] = Front(@)]
        /\ base' = [base EXCEPT ![t] = Front(@)]
        /\ mode' = [mode EXCEPT ![t] = IF n = 1 THEN "undone" ELSE "run"]
        /\ UNCHANGED <<store, dropping>>

\* The drop of a step that is not needed any more.  InvalidatedBaselines::drop:
\* the forgotten baselines it left go, unless they were replaced.
Spared(st, step) == IF step.kind = "set" THEN st ELSE TakeAll(st, step.items)

DropStep(t) ==
    /\ dropping[t] # <<>>
    /\ Change(t, Spared(store, Head(dropping[t])))
    /\ dropping' = [dropping EXCEPT ![t] = Tail(@)]
    /\ UNCHANGED <<levels, mode>>

-------------------------------------------------------------------------------
Init ==
    /\ store = [entries |-> [p \in Baselines |-> NoEntry], order |-> {}, next_sequence |-> 0,
                evicted |-> {}]
    /\ levels = [t \in Tasks |-> <<>>]
    /\ dropping = [t \in Tasks |-> <<>>]
    /\ mode = [t \in Tasks |-> "run"]
    /\ base = [t \in Tasks |-> <<>>]

Next ==
    \E t \in Tasks :
          \/ \E p \in Baselines : \/ \E v \in Values : RememberModel(t, p, v)
                                  \/ ForgetModel(t, p)
          \/ \E model \in {ModelOf[row] : row \in Rows} : InvalidateModel(t, model)
          \/ Begin(t) \/ Commit(t) \/ Rollback(t) \/ Undo(t) \/ EndUndo(t) \/ DropStep(t) \/ ClearAll(t)

Spec == Init /\ [][Next]_vars

-------------------------------------------------------------------------------
(* Properties                                                              *)

\* `order` lists exactly the entries, each under its own sequence, also those
\* that undo steps put back with their old one or after everything was cleared,
\* and never outgrows the capacity (SnapshotStore).
InSync ==
    /\ store.order = {<<store.entries[p].sequence, p>> :
                          p \in {q \in Baselines : store.entries[q] # NoEntry}}
    /\ \A o, q \in store.order : o[1] = q[1] => o = q
    /\ \A o \in store.order : o[1] < store.next_sequence
    /\ Cardinality(store.order) <= Capacity

\* A transaction or savepoint that has rolled back leaves every baseline it
\* began with, except where another task changed it or it was evicted.
RollbackRestores ==
    \A t \in Tasks : mode[t] = "undo" /\ Last(levels[t]) = <<>> =>
        \A p \in Baselines : Last(base[t])[p] # Forgotten => ValuesAt(p) = Last(base[t])[p]

\* The call of a task that neither rolls back nor drops steps
Calls == \A t \in Tasks : mode[t] = "undo" \/ dropping[t] # <<>>
                              => levels'[t] = levels[t] /\ dropping'[t] = dropping[t]

\* What a call makes a row report is what the call itself remembered.
GuessesNothing ==
    Calls => \A row \in Rows :
        Get(store', row) \in {NoEntry, Get(store, row)} \/
        \E p \in Baselines : /\ p[1] = row /\ store'.entries[p] \notin {NoEntry, store.entries[p]}
                             /\ store'.entries[p].values = Get(store', row)

\* To forget or evict a pool's baseline never lets another pool's, which
\* differed, stand for the row.
NeverGuessed == [][GuessesNothing]_vars

\* Once a transaction has rolled back, no baseline is what only it read or wrote
\* ("only what the database holds once it commits", set_baseline).
RolledBackIsForgotten ==
    \A t \in Tasks, p \in Baselines : mode[t] = "undone" => ValuesAt(p) \notin ValuesOf[t]
===============================================================================
