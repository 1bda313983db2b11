---------------------------- MODULE EntityManager ----------------------------
(***************************************************************************)
(* One entity manager: the identity map of rows it has loaded, the managed *)
(* entries behind the handles it gave out, and the units of work (flush,   *)
(* save) that write them, each in a transaction, perhaps inside another.   *)
(* While a row is being written the holders of its handle go on: they      *)
(* edit, remove and detach it, and other tasks look the row up.  When a    *)
(* transaction does not commit, every change it made to the context is     *)
(* undone, one step after the other.                                       *)
(*                                                                         *)
(* A row is a key, a column `a` that users edit and a column `b` that      *)
(* every write stamps anew, as updated_at.  Keys are assigned by the       *)
(* client, or by the insert when the entity still has none, as for Uuids.  *)
(*                                                                         *)
(* Sources: entity_manager/mod.rs, managed.rs, save.rs, state.rs.          *)
(***************************************************************************)
EXTENDS Integers, Sequences, SequencesExt, FiniteSets, TLC

CONSTANTS
    Tasks,
    Keys,
    Stored,      \* the keys of the rows that are there at first
    Initial,     \* what they have in `a`
    Values,      \* what users write to it
    Drafts,      \* the values in entities users hand over
    MaxEntries,  \* bound on handles
    MaxPasses,   \* MAX_FLUSH_PASSES
    MaxActs,     \* bound on what holders do
    MaxWorks,    \* bound on units of work
    MaxFaults,   \* bound on failures and dropped futures
    New,         \* the key of an entity that has none yet
    None

VARIABLES
    db,            \* the committed rows
    identity_map,  \* key -> [row, by] : by is the task whose transaction read it
    generation,    \* how often the context was cleared
    managed_map,   \* managed_identity_map: key -> entry
    entries,       \* managed_entries, a sequence
    entry,         \* the managed entries, detached ones included
    frames,        \* per task its transaction and savepoint: [rows, undo, flush]
    work,          \* per task, what it is doing
    unit,          \* unit_of_work: the task whose flush or save is running
    budget,
    raced          \* history: keys looked up, filed or written while a transaction of
                   \* another task had touched the row, or whose lookup a commit overtook

vars == <<db, identity_map, generation, managed_map, entries, entry, frames, work, unit,
          budget, raced>>
context == <<identity_map, generation, managed_map, entries, entry>>

Entry == 1..Len(entry)
Fields == {"key", "a", "b"}
Stamps == 0..2
TaskSymmetry == Permutations(Tasks)
Idle == [pc |-> "idle"]

Loaded(k) == [key |-> k, a |-> Initial, b |-> 0]

\* Nothing is in the context yet, or every row is in it, managed.
Init ==
    /\ db = [k \in Keys |-> IF k \in Stored THEN Loaded(k) ELSE None]
    /\ \/ /\ identity_map = [k \in Keys |-> None]
          /\ managed_map = [k \in Keys |-> None]
          /\ entry = <<>>
       \/ /\ identity_map = [k \in Keys |->
                 IF k \in Stored THEN [row |-> db[k], by |-> None] ELSE None]
          /\ \E order \in SetToSeqs(Stored) :
                /\ managed_map = [k \in Keys |->
                       IF k \in Stored THEN CHOOSE e \in DOMAIN order : order[e] = k ELSE None]
                /\ entry = [e \in DOMAIN order |->
                       [current |-> db[order[e]], snapshot |-> db[order[e]], state |-> "Managed",
                        persisted |-> order[e], identity |-> order[e]]]
    /\ entries = [e \in Entry |-> e]
    /\ generation = 0
    /\ frames = [t \in Tasks |-> <<>>]
    /\ work = [t \in Tasks |-> Idle]
    /\ unit = None
    /\ budget = [acts |-> MaxActs, works |-> MaxWorks, faults |-> MaxFaults]
    /\ raced = {}

-------------------------------------------------------------------------------
(* Rows and transactions                                                   *)

Overlay(below, frame) == frame.rows @@ below
View(t) == FoldLeft(Overlay, db, frames[t])

\* A row another transaction has written makes a writer wait.
Locked(t, k) ==
    \E u \in Tasks \ {t} : \E i \in DOMAIN frames[u] : k \in DOMAIN frames[u][i].rows

Frame == [rows |-> <<>>, undo |-> <<>>]

\* A step to take if the transaction of t does not commit
UndoOnRollback(fs, step) ==
    IF fs = <<>> THEN fs ELSE [fs EXCEPT ![Len(fs)].undo = Append(@, step)]

\* A transaction of u that is not over has written the row, or changed what the
\* context holds of it.
Mentions(u, k) ==
    \E i \in DOMAIN frames[u] :
        \/ k \in DOMAIN frames[u][i].rows
        \/ \E step \in Range(frames[u][i].undo) :
              \/ step.kind = "identity" /\ \E r \in step.log : r.key = k
              \/ step.kind = "flush" /\ step.identity[1] = k
Touched(us, ks) == raced' = raced \cup {k \in ks \cap Keys : \E u \in us : Mentions(u, k)}
Others(t) == Tasks \ {t}

-------------------------------------------------------------------------------
(* The identity map                                                        *)

\* record_identity_map_rollback: once per key and generation, in the log of
\* the unit of work, which is the first step of its frame
RecordRollback(fs, k) ==
    LET top == Len(fs)
        known == {r \in fs[top].undo[1].log : r.key = k /\ r.generation = generation}
    IN  IF known # {} THEN fs
        ELSE [fs EXCEPT ![top].undo[1].log =
                 @ \cup {[key |-> k, generation |-> generation, original |-> identity_map[k]]}]

Mapped(row, by) == [row |-> row, by |-> by]

\* Mutant: what units of work put in the map stays.
RestoreNothing(map, log) == map

\* rollback_identity_map
RestoreIdentities(map, log) ==
    [k \in Keys |->
        LET mine == {r \in log : r.key = k /\ r.generation = generation}
        IN  IF mine = {} THEN map[k] ELSE (CHOOSE r \in mine : TRUE).original]

-------------------------------------------------------------------------------
(* Managed entries                                                         *)

\* Mutant: a field that the holder edited takes the stored value, too.
MergeFieldsStored(holder, base, saved) == saved

\* merge_fields
MergeFields(holder, base, saved) ==
    [f \in Fields |-> IF holder[f] = base[f] THEN saved[f] ELSE holder[f]]

\* The fields it gave another value
MergedFields(holder, base, saved) ==
    {f \in Fields : holder[f] = base[f] /\ holder[f] # saved[f]}

\* FieldChanges::undo
UndoFields(current, step) ==
    [f \in Fields |-> IF f \in step.fields /\ current[f] = step.after[f]
                      THEN step.before[f] ELSE current[f]]

\* The bound on handles counts those that lookups under way may make.
Room == Len(entry) + Cardinality({t \in Tasks : work[t].pc = "finding" /\ work[t].managed})
            < MaxEntries

\* ManagedEntry::new and file_managed
FileManaged(entity, snapshot, state, persisted, identity) ==
    /\ entry' = Append(entry, [current |-> entity, snapshot |-> snapshot, state |-> state,
                               persisted |-> persisted, identity |-> identity])
    /\ entries' = Append(entries, Len(entry) + 1)
    /\ managed_map' = IF identity = None THEN managed_map
                      ELSE [managed_map EXCEPT ![identity] = Len(entry) + 1]

\* overwrite_merged
Overwritten(e, entity) ==
    [entry[e] EXCEPT !.current = entity,
                     !.state = IF entry[e].persisted # None THEN "Managed" ELSE "New"]

\* evict: whatever is filed under the entry's key goes
Evicted(map, e) ==
    IF entry[e].identity = None THEN map ELSE [map EXCEPT ![entry[e].identity] = None]

Detached(e) == [entry[e] EXCEPT !.identity = None, !.state = "Detached"]

-------------------------------------------------------------------------------
(* What holders do, whenever they like                                     *)

Act == budget.acts > 0 /\ budget' = [budget EXCEPT !.acts = @ - 1]
\* What holders and failures did so far
Seen == <<budget.acts, budget.faults>>
Beside == UNCHANGED <<db, frames, work, unit>>

\* Managed::edit
Edit(e, v) ==
    /\ entry[e].current.a # v /\ Act
    /\ entry' = [entry EXCEPT ![e].current.a = v]
    /\ Beside /\ UNCHANGED <<raced, identity_map, generation, managed_map, entries>>

\* Managed::replace of an entity whose row is stored, with another key, which
\* may be another entity's
ReplaceKey(e, k) ==
    /\ entry[e].persisted # None /\ entry[e].current.key # k /\ Act
    /\ entry' = [entry EXCEPT ![e].current.key = k]
    /\ raced' = raced \cup {k}
    /\ Beside /\ UNCHANGED <<identity_map, generation, managed_map, entries>>

\* persist: an entity with a key that is managed already replaces its value.
Persist(k, v) ==
    LET entity == [key |-> k, a |-> v, b |-> 0]
    IN  /\ Act
        /\ IF k # New /\ managed_map[k] # None
           THEN /\ entry' = [entry EXCEPT ![managed_map[k]] = Overwritten(managed_map[k], entity)]
                /\ UNCHANGED <<entries, managed_map>>
           ELSE Room /\ FileManaged(entity, None, "New", None, IF k = New THEN None ELSE k)
        /\ Touched(Tasks, {k})
        /\ Beside /\ UNCHANGED <<identity_map, generation>>

\* merge of an entity with a key
Merge(k, v) ==
    LET entity == [key |-> k, a |-> v, b |-> 0]
        loaded == IF identity_map[k] = None THEN None ELSE identity_map[k].row
    IN  /\ Act
        /\ IF managed_map[k] # None
           THEN /\ entry' = [entry EXCEPT ![managed_map[k]] = Overwritten(managed_map[k], entity)]
                /\ UNCHANGED <<entries, managed_map>>
           ELSE Room /\ FileManaged(entity, loaded, "Managed", k, k)
        /\ Touched(Tasks, {k})
        /\ Beside /\ UNCHANGED <<identity_map, generation>>

\* remove, mark_removed
MarkRemoved(e) ==
    /\ entry[e].state # "Removed" /\ Act
    /\ entry' = [entry EXCEPT ![e].state = "Removed"]
    /\ Beside /\ UNCHANGED <<raced, identity_map, generation, managed_map, entries>>

\* detach
Detach(e) ==
    /\ Act
    /\ managed_map' = Evicted(managed_map, e)
    /\ entry' = [entry EXCEPT ![e] = Detached(e)]
    /\ entries' = SelectSeq(entries, LAMBDA x : x # e)
    /\ Beside /\ UNCHANGED <<raced, identity_map, generation>>

\* clear
Clear ==
    /\ Act
    /\ entry' = [e \in Entry |-> IF e \in Range(entries) THEN Detached(e) ELSE entry[e]]
    /\ entries' = <<>>
    /\ managed_map' = [k \in Keys |-> None]
    /\ identity_map' = [k \in Keys |-> None]
    /\ generation' = generation + 1
    /\ Beside /\ UNCHANGED raced

-------------------------------------------------------------------------------
(* Lookups                                                                 *)

\* Mutant: a unit of work that is over keeps the next ones waiting.
ReleasedNever(t) == unit

\* The guard of unit_of_work is dropped.
Released(t) == IF unit = t THEN None ELSE unit

Working(t, w) == work' = [work EXCEPT ![t] = w]
Ready(t) == work[t].pc = "idle"

\* find, find_managed: what the maps hold is handed back, the rest is read.
Find(t, k, managed) ==
    /\ Ready(t) /\ Act
    /\ identity_map[k] = None /\ (managed => managed_map[k] = None /\ Room)
    /\ Working(t, [pc |-> "finding", key |-> k, managed |-> managed, row |-> View(t)[k],
                   inside |-> frames[t] # <<>>])
    /\ Touched(Others(t), {k})
    /\ UNCHANGED <<db, context, frames, unit>>

\* find_managed of a row the identity map holds
FindManaged(t, k) ==
    /\ Ready(t) /\ Act
    /\ managed_map[k] = None /\ identity_map[k] # None
    /\ Room /\ FileManaged(identity_map[k].row, identity_map[k].row, "Managed", k, k)
    /\ frames' = [frames EXCEPT ![t] = UndoOnRollback(@, [kind |-> "attach", entry |-> Len(entry) + 1])]
    /\ Touched(Others(t), {k})
    /\ UNCHANGED <<db, identity_map, generation, work, unit>>

\* register: the tracked instance wins.
Registered(t, w) ==
    IF identity_map[w.key] # None THEN identity_map[w.key]
    ELSE Mapped(w.row, IF w.inside THEN t ELSE None)

\* Mutant: each lookup makes a handle.
AttachAlways(t, w, row) ==
    IF ~w.managed THEN UNCHANGED <<entry, entries, managed_map>>
    ELSE FileManaged(row, row, "Managed", w.key, w.key)

\* attach_persisted_managed: the handle of a lookup that finished first wins.
Attach(t, w, row) ==
    IF ~w.managed \/ managed_map[w.key] # None
    THEN UNCHANGED <<entry, entries, managed_map>>
    ELSE FileManaged(row, row, "Managed", w.key, w.key)

\* The row is there; register, attach_persisted_managed
Found(t) ==
    /\ work[t].pc = "finding"
    /\ Working(t, Idle)
    /\ LET w == work[t]
           mapped == Registered(t, w)
           read == IF identity_map[w.key] = None /\ w.inside
                   THEN <<[kind |-> "register", key |-> w.key, by |-> t]>> ELSE <<>>
           made == IF w.managed /\ managed_map[w.key] = None /\ w.inside
                   THEN <<[kind |-> "attach", entry |-> Len(entry) + 1]>> ELSE <<>>
       IN  IF w.row = None THEN UNCHANGED <<context, frames>>
           ELSE /\ identity_map' = [identity_map EXCEPT ![w.key] = mapped]
                /\ Attach(t, w, mapped.row)
                /\ frames' = [frames EXCEPT ![t] = FoldLeft(UndoOnRollback, @, read \o made)]
                /\ UNCHANGED generation
    /\ Touched(Others(t), {work[t].key})
    /\ UNCHANGED <<db, unit, budget>>

-------------------------------------------------------------------------------
(* Undo steps, each from a context [identity, managed, entries, entry] to  *)
(* the next                                                                *)

\* The undo of register: what it filed goes, unless it was replaced.
UndoRegister(step, c) ==
    [c EXCEPT !.identity[step.key] = IF @ # None /\ @.by = step.by THEN None ELSE @]

\* The undo of attach_persisted_managed
UndoAttach(step, c) ==
    LET e == step.entry  k == c.entry[e].identity
    IN  IF k = None \/ c.managed[k] # e THEN c
        ELSE [c EXCEPT !.managed[k] = None,
                       !.entry[e].identity = None, !.entry[e].state = "Detached",
                       !.entries = SelectSeq(@, LAMBDA x : x # e)]

\* The undo of rebase
UndoRebase(step, c) ==
    [c EXCEPT !.entry[step.entry].current = UndoFields(@, step),
              !.entry[step.entry].snapshot = step.loaded]

\* A part that is no longer as the flush left it stays.
PutBack(now, part) == IF now = part[2] THEN part[1] ELSE now

\* undo_flush
UndoFlush(step, c) ==
    LET e == step.entry  now == c.entry[e]
        before == step.identity[1]  after == step.identity[2]
        refiled == IF now.identity # after \/ before = after THEN c.managed
                   ELSE [k \in Keys |-> IF k = before THEN e
                                        ELSE IF k = after THEN None ELSE c.managed[k]]
        again == step.state[2] = "Detached" /\ now.state = "Detached"
                     /\ step.state[1] # "Detached" /\ e \notin Range(c.entries)
    IN  [c EXCEPT !.managed = refiled,
                  !.entries = IF again THEN Append(@, e) ELSE @,
                  !.entry[e] = [current |-> UndoFields(now.current, step),
                                snapshot |-> PutBack(now.snapshot, step.snapshot),
                                state |-> PutBack(now.state, step.state),
                                persisted |-> PutBack(now.persisted, step.persisted),
                                identity |-> PutBack(now.identity, step.identity)]]

Undone(step, c) ==
    CASE step.kind = "identity" -> [c EXCEPT !.identity = RestoreIdentities(@, step.log)]
      [] step.kind = "register" -> UndoRegister(step, c)
      [] step.kind = "attach" -> UndoAttach(step, c)
      [] step.kind = "rebase" -> UndoRebase(step, c)
      [] step.kind = "flush" -> UndoFlush(step, c)

-------------------------------------------------------------------------------
(* Transactions and units of work                                          *)

\* The application opens a transaction around what it does next.
Begin(t) ==
    /\ Ready(t) /\ frames[t] = <<>> /\ budget.works > 0
    /\ frames' = [frames EXCEPT ![t] = <<Frame>>]
    /\ UNCHANGED <<db, context, work, unit, budget, raced>>

\* in_unit_of_work: after any that is running, a transaction, which first
\* registers what puts the identity map back
Entered(t, w) ==
    /\ unit = None /\ unit' = t
    /\ frames' = [frames EXCEPT ![t] =
           Append(@, [Frame EXCEPT !.undo = <<[kind |-> "identity", log |-> {}]>>])]
    /\ Working(t, w)
    /\ UNCHANGED <<db, context, raced>>

Ask(t, w) ==
    /\ Ready(t)
    /\ budget.works > 0 /\ budget' = [budget EXCEPT !.works = @ - 1]
    /\ \/ Entered(t, w)
       \/ /\ unit # None
          /\ Working(t, [pc |-> "lock", next |-> w])
          /\ UNCHANGED <<db, context, frames, unit, raced>>

Enter(t) == work[t].pc = "lock" /\ Entered(t, work[t].next) /\ UNCHANGED budget

Flush(t) == Ask(t, [pc |-> "pass", processed |-> 0, passes |-> 0, seen |-> Seen,
                        todo |-> <<>>])

\* save of a copy of a row the context handed out, edited
SaveCopy(t, k, v) ==
    /\ identity_map[k] # None
    /\ Ask(t, [pc |-> "saving", entity |-> [identity_map[k].row EXCEPT !.a = v], entry |-> None])

\* The rows and undo steps of the newest transaction go to the one around it,
\* or are final.
Commit(t) ==
    /\ work[t].pc = "commit" \/ (Ready(t) /\ frames[t] # <<>>)
    /\ LET top == Last(frames[t])  below == Front(frames[t])
       IN  IF below = <<>>
           THEN /\ db' = top.rows @@ db
                /\ frames' = [frames EXCEPT ![t] = <<>>]
                /\ raced' = raced \cup {work[u].key : u \in {u \in Tasks :
                       work[u].pc = "finding" /\ work[u].key \in DOMAIN top.rows}}
           ELSE /\ frames' = [frames EXCEPT ![t] =
                       [below EXCEPT ![Len(below)].rows = top.rows @@ @,
                                     ![Len(below)].undo = @ \o top.undo]]
                /\ UNCHANGED <<db, raced>>
    /\ Working(t, Idle)
    /\ unit' = Released(t)
    /\ UNCHANGED <<context, budget>>

\* Roll back the newest transaction; the drop of its record takes its undo
\* steps, newest first, and then the unit of work is over.
RollBack(t) ==
    LET now == [identity |-> identity_map, managed |-> managed_map, entries |-> entries,
                entry |-> entry]
        then == FoldRight(Undone, Last(frames[t]).undo, now)
    IN  /\ identity_map' = then.identity
        /\ managed_map' = then.managed
        /\ entries' = then.entries
        /\ entry' = then.entry
        /\ frames' = [frames EXCEPT ![t] = Front(@)]
        /\ Working(t, Idle)
        /\ unit' = Released(t)
        /\ UNCHANGED <<db, generation, raced>>

\* A statement fails, a relation was edited while its row was written, or a
\* future is dropped: the unit of work is rolled back.  So is a transaction
\* around units of work that succeeded.
Fail(t) ==
    /\ budget.faults > 0 /\ budget' = [budget EXCEPT !.faults = @ - 1]
    /\ frames[t] # <<>>
    /\ work[t].pc \in {"idle", "lock", "pass", "entry", "saving", "saved", "deleting", "deleted", "commit"}
    /\ RollBack(t)

-------------------------------------------------------------------------------
(* flush_in_scope                                                          *)

\* flush_order_rank; entries of one rank keep their order.
Ranked(es) ==
    LET of(state) == SelectSeq(es, LAMBDA e : entry[e].state = state)
    IN  of("New") \o of("Managed") \o of("Removed") \o of("Detached")

\* One pass over the entries registered since the last one
Pass(t) ==
    LET w == work[t]
    IN  /\ w.pc = "pass"
        /\ \/ /\ w.processed >= Len(entries)
              /\ entries' = SelectSeq(entries, LAMBDA e : entry[e].state # "Detached")
              /\ Working(t, [w EXCEPT !.pc = "commit"])
              /\ UNCHANGED <<db, identity_map, generation, managed_map, entry, frames, unit, raced>>
           \/ /\ w.processed < Len(entries) /\ w.passes >= MaxPasses
              /\ RollBack(t)
           \/ /\ w.processed < Len(entries) /\ w.passes < MaxPasses
              /\ Working(t, [pc |-> "entry", processed |-> Len(entries), passes |-> w.passes + 1,
                             seen |-> w.seen,
                             todo |-> Ranked(SubSeq(entries, w.processed + 1, Len(entries)))])
              /\ UNCHANGED <<db, context, frames, unit, raced>>
        /\ UNCHANGED budget

Flushing(t, e) == work[t].pc = "entry" /\ Head(work[t].todo) = e

\* What is left of the pass
Rest(w) ==
    [pc |-> IF Len(w.todo) = 1 THEN "pass" ELSE "entry", processed |-> w.processed,
     passes |-> w.passes, seen |-> w.seen, todo |-> Tail(w.todo)]

SkipDetached(t, e) ==
    /\ Flushing(t, e) /\ entry[e].state = "Detached"
    /\ Working(t, Rest(work[t]))
    /\ UNCHANGED <<db, context, frames, unit, budget, raced>>

-------------------------------------------------------------------------------
(* flush_removal                                                           *)

\* The entry is detached.
Drop(t, e, fs, map) ==
    /\ identity_map' = map
    /\ managed_map' = Evicted(managed_map, e)
    /\ entry' = [entry EXCEPT ![e] = [Detached(e) EXCEPT !.snapshot = None, !.persisted = None]]
    /\ frames' = [frames EXCEPT ![t] = UndoOnRollback(fs,
           [kind |-> "flush", entry |-> e, fields |-> {}, before |-> None, after |-> None,
            snapshot |-> <<entry[e].snapshot, None>>,
            persisted |-> <<entry[e].persisted, None>>,
            identity |-> <<entry[e].identity, None>>,
            state |-> <<entry[e].state, "Detached">>])]
    /\ Working(t, Rest(work[t]))
    /\ Touched(Others(t), {entry[e].identity, entry[e].persisted})
    /\ UNCHANGED <<db, generation, entries, unit, budget>>

\* Only a row that exists gets a DELETE, and only under the key it was stored as.
FlushRemoval(t, e) ==
    /\ Flushing(t, e) /\ entry[e].state = "Removed"
    /\ LET entity == IF entry[e].snapshot # None THEN entry[e].snapshot ELSE entry[e].current
       IN  \/ entry[e].persisted = None /\ Drop(t, e, frames[t], identity_map)
           \/ /\ entry[e].persisted \notin {None, entity.key}
              /\ RollBack(t) /\ UNCHANGED budget
           \/ /\ entry[e].persisted = entity.key
              /\ Working(t, [work[t] EXCEPT !.pc = "deleting"] @@ [key |-> entity.key])
              /\ UNCHANGED <<db, context, frames, unit, budget, raced>>

WriteRow(t, k, row) ==
    frames' = [frames EXCEPT ![t][Len(frames[t])].rows = (k :> row) @@ @]

\* The DELETE
Delete(t) ==
    /\ work[t].pc = "deleting" /\ ~Locked(t, work[t].key)
    /\ WriteRow(t, work[t].key, None)
    /\ Working(t, [work[t] EXCEPT !.pc = "deleted"])
    /\ UNCHANGED <<db, context, unit, budget, raced>>

\* It is done.
Deleted(t) ==
    /\ work[t].pc = "deleted"
    /\ LET k == work[t].key
       IN  Drop(t, Head(work[t].todo), RecordRollback(frames[t], k),
                [identity_map EXCEPT ![k] = None])

-------------------------------------------------------------------------------
(* flush_write, save_in_scope                                              *)

Unused(t) ==
    {k \in Keys : /\ View(t)[k] = None /\ (\A u \in Tasks : ~Mentions(u, k)) /\ managed_map[k] = None
                  /\ \A e \in Entry : k \notin {entry[e].current.key, entry[e].persisted}}

\* Model::save: an entity without a key is inserted under a new one (and fails
\* when the bound leaves none), another updates its row or, where there is
\* none, is inserted.
Save(t) ==
    LET keys == IF work[t].entity.key = New THEN Unused(t) ELSE {work[t].entity.key}
    IN  /\ work[t].pc = "saving"
        /\ \/ \E k \in keys :
                LET row == [work[t].entity EXCEPT !.key = k, !.b = (@ + 1) % Cardinality(Stamps)]
                IN  /\ ~Locked(t, k)
                    /\ WriteRow(t, k, row)
                    /\ Working(t, [work[t] EXCEPT !.pc = "saved"] @@ [row |-> row])
                    /\ UNCHANGED <<db, context, unit, raced>>
           \/ keys = {} /\ RollBack(t)
        /\ UNCHANGED budget

\* rebase of the handle to a row that was stored by another path
Rebased(es, e, saved) ==
    IF e = None \/ es[e].snapshot = None THEN es
    ELSE [es EXCEPT ![e].current = MergeFields(@, es[e].snapshot, saved),
                    ![e].snapshot = saved]

UndoOfRebase(e, saved) ==
    IF e = None \/ entry[e].snapshot = None THEN <<>>
    ELSE <<[kind |-> "rebase", entry |-> e, loaded |-> entry[e].snapshot,
            fields |-> MergedFields(entry[e].current, entry[e].snapshot, saved),
            before |-> entry[e].current, after |-> saved]>>

\* The state a write leaves: a removal or a detach that arrived meanwhile stays.
StateWritten(state) == IF state \in {"Detached", "Removed"} THEN state ELSE "Managed"

\* Mutant: the snapshot is what was written, not the row as stored.
MovedOntoWritten(now, base, saved) ==
    [current |-> MergeFields(now.current, base, saved),
     snapshot |-> [base EXCEPT !.key = saved.key],
     persisted |-> saved.key,
     identity |-> IF now.state = "Detached" THEN now.identity ELSE saved.key,
     state |-> StateWritten(now.state)]

\* The entry moves onto the row as stored.
MovedOnto(now, base, saved) ==
    [current |-> MergeFields(now.current, base, saved),
     snapshot |-> saved,
     persisted |-> saved.key,
     identity |-> IF now.state = "Detached" THEN now.identity ELSE saved.key,
     state |-> StateWritten(now.state)]

UndoOfFlush(e, now, base, saved) ==
    LET moved == MovedOnto(now, base, saved)
    IN  [kind |-> "flush", entry |-> e,
         fields |-> MergedFields(now.current, base, saved), before |-> base, after |-> saved,
         snapshot |-> <<now.snapshot, moved.snapshot>>,
         persisted |-> <<now.persisted, moved.persisted>>,
         identity |-> <<now.identity, moved.identity>>,
         state |-> <<now.state, moved.state>>]

\* What a flush does once the row of e is stored: `other` is the entry that
\* was rebased on it, `previous` the key e was filed under when its value was read.
Moved(t, e, base, saved, other, previous, rest) ==
    LET fs == FoldLeft(UndoOnRollback, RecordRollback(frames[t], saved.key),
                       UndoOfRebase(other, saved))
        es == Rebased(entry, other, saved)
        unfiled == IF previous \notin {None, saved.key}
                   THEN [managed_map EXCEPT ![previous] = None] ELSE managed_map
    IN  /\ identity_map' = [identity_map EXCEPT ![saved.key] = Mapped(saved, None)]
        /\ entry' = [es EXCEPT ![e] = MovedOnto(es[e], base, saved)]
        /\ managed_map' = IF es[e].state = "Detached" THEN managed_map
                          ELSE [unfiled EXCEPT ![saved.key] = e]
        /\ frames' = [frames EXCEPT ![t] =
               UndoOnRollback(fs, UndoOfFlush(e, es[e], base, saved))]
        /\ Working(t, rest)
        /\ Touched(Others(t), {saved.key})
        /\ UNCHANGED <<db, generation, entries, unit, budget>>

\* A managed entity keeps the key it was stored under.  One that is as loaded
\* only has its relations synced and is filed again.
FlushWrite(t, e) ==
    LET w == work[t]  now == entry[e]
    IN  /\ Flushing(t, e) /\ now.state \in {"New", "Managed"}
        /\ \/ /\ now.persisted \notin {None, now.current.key}
              /\ RollBack(t) /\ UNCHANGED budget
           \/ /\ now.persisted \in {None, now.current.key} /\ now.snapshot = now.current
              /\ Moved(t, e, now.current, now.current, None, now.identity, Rest(w))
           \/ /\ now.persisted \in {None, now.current.key} /\ now.snapshot # now.current
              /\ Working(t, [w EXCEPT !.pc = "saving"] @@
                            [entity |-> now.current, entry |-> e, previous |-> now.identity])
              /\ UNCHANGED <<db, context, frames, unit, budget, raced>>

\* The row of a flushed entry is stored.
Saved(t) ==
    LET w == work[t]
    IN  /\ w.pc = "saved" /\ w.entry # None
        /\ Moved(t, w.entry, w.entity, w.row, managed_map[w.row.key], w.previous, Rest(w))

\* The row of a copy is stored.
CopySaved(t) ==
    LET w == work[t]  other == managed_map[w.row.key]
    IN  /\ w.pc = "saved" /\ w.entry = None
        /\ identity_map' = [identity_map EXCEPT ![w.row.key] = Mapped(w.row, None)]
        /\ entry' = Rebased(entry, other, w.row)
        /\ frames' = [frames EXCEPT ![t] =
               FoldLeft(UndoOnRollback, RecordRollback(@, w.row.key), UndoOfRebase(other, w.row))]
        /\ Working(t, [pc |-> "commit"])
        /\ Touched(Others(t), {w.row.key})
        /\ UNCHANGED <<db, generation, managed_map, entries, unit, budget>>

-------------------------------------------------------------------------------

Holders ==
    \/ \E e \in Entry : \/ \E v \in Values : Edit(e, v)
                        \/ \E k \in Keys : ReplaceKey(e, k)
                        \/ MarkRemoved(e) \/ Detach(e)
    \/ \E v \in Drafts : \/ \E k \in Keys \cup {New} : Persist(k, v)
                         \/ \E k \in Keys : Merge(k, v)
    \/ Clear

Lookups(t) ==
    \E k \in Keys : FindManaged(t, k) \/ \E managed \in BOOLEAN : Find(t, k, managed)

\* What a task does once it has begun
Goes(t) ==
    \/ Found(t) \/ Enter(t) \/ Commit(t)
    \/ Pass(t)
    \/ \E e \in Entry : SkipDetached(t, e) \/ FlushRemoval(t, e) \/ FlushWrite(t, e)
    \/ Delete(t) \/ Deleted(t) \/ Save(t) \/ Saved(t) \/ CopySaved(t)

Begins(t) ==
    \/ Lookups(t) \/ Begin(t) \/ Flush(t)
    \/ \E k \in Keys, v \in Drafts : SaveCopy(t, k, v)

Next == Holders \/ \E t \in Tasks : Begins(t) \/ Goes(t) \/ Fail(t)

Spec == Init /\ [][Next]_vars

-------------------------------------------------------------------------------
(* Properties                                                              *)

Quiet == \A t \in Tasks : Ready(t) /\ frames[t] = <<>>

\* Once no transaction is running, what the context believes of a row is the
\* committed row: the identity map's instance, and the snapshot a flush compares
\* with (flush_write, rebase, undo_flush, rollback_identity_map).  Rows that
\* two tasks' transactions touched at once are left out: a lookup takes the
\* identity map's uncommitted instance, and the rollback of the earlier
\* transaction puts back what it knew.
ContextTellsRows ==
    Quiet => \A k \in Keys \ raced :
        /\ identity_map[k] # None => identity_map[k].row = db[k]
        /\ \A e \in Entry : (/\ entry[e].state = "Managed" /\ entry[e].identity = k
                             /\ entry[e].snapshot # None) => entry[e].snapshot = db[k]

\* Of the handles that are flushed at most one is for a row, and it is the one
\* lookups hand out (attach_persisted_managed, flush_write, undo_flush).
OneHandle ==
    \A k \in Keys \ raced : \A e \in Range(entries) :
        (entry[e].state # "Detached" /\ entry[e].identity = k) => managed_map[k] = e

\* With no transaction running the context knows the committed rows, and each by
\* one handle that is flushed (ContextTellsRows, OneHandle).
ContextTellsTheTruth == ContextTellsRows /\ OneHandle

\* A transaction that is not over gave the column its value.
StoredHere(e) ==
    \E t \in Tasks : \E i \in DOMAIN frames[t] : \E step \in Range(frames[t][i].undo) :
        /\ step.kind \in {"rebase", "flush"} /\ step.entry = e
        /\ "a" \in step.fields /\ step.after.a = entry[e].current.a

\* What a holder asked for stays asked for, whatever a flush, a save or a
\* rollback does meanwhile. A column the holder has edited keeps the edit
\* (merge_fields, FieldChanges::undo, rebase), except that a rollback takes an
\* edit to the very value it undoes for that value; a removal is never made a
\* write again before the entry is detached (flush_write, undo_flush).
WishesStay ==
    [][budget'.acts = budget.acts => \A e \in Entry :
          /\ (/\ entry[e].snapshot # None /\ entry[e].current.a # entry[e].snapshot.a
              /\ ~StoredHere(e)) => entry'[e].current.a = entry[e].current.a
          /\ entry[e].state = "Removed" => entry'[e].state \in {"Removed", "Detached"}]_vars

\* When a flush is done and, since it was asked for, no holder touched the
\* context and nothing failed,
\* every entry left is clean and its row in the flush's transaction is the
\* entry's value (flush_in_scope, plan of passes included).
FlushLeavesNothing ==
    [][\A t \in Tasks :
          (/\ work[t].pc = "pass" /\ work'[t].pc = "commit" /\ work[t].seen = Seen)
              => \A e \in Range(entries') :
                    /\ entry[e].state = "Managed" /\ entry[e].snapshot = entry[e].current
                    /\ ~Locked(t, entry[e].current.key) /\ entry[e].current.key \notin raced
                          => View(t)[entry[e].current.key] = entry[e].current]_vars

\* A task in a transaction that has written a row waits for the unit of work of
\* another, which waits for that row.
CrossWait ==
    \E t \in Tasks, u \in Tasks \ {unit} :
        /\ unit = t /\ work[u].pc = "lock"
        /\ \/ work[t].pc = "saving" /\ Locked(t, work[t].entity.key)
           \/ work[t].pc = "deleting" /\ Locked(t, work[t].key)

\* While a unit of work runs, or is waited for, some task can go on, unless two
\* tasks wait for each other as CrossWait says.  A pass is only repeated for
\* entries registered meanwhile, so every unit of work ends (in_unit_of_work,
\* flush_in_scope).
WorkGoesOn ==
    ~Quiet => CrossWait \/ \E t \in {t \in Tasks : ~Ready(t) \/ frames[t] # <<>>} : ENABLED Goes(t)

\* The comment in flush_write: "Edits made while the row was being written
\* stay, over the row as stored, and leave the entry dirty for the next flush."
EditsMeanwhileStay ==
    [][\A t \in Tasks : Saved(t) =>
          LET e == work[t].entry
          IN  entry[e].current.a # work[t].entity.a
                  => entry'[e].current.a = entry[e].current.a]_vars
===============================================================================
