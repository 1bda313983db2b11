------------------------------- MODULE Migrator -------------------------------
(***************************************************************************)
(* The migrator: processes that boot together, or whose operators migrate  *)
(* by hand, take turns with a lock, read the ledger, and run up() or       *)
(* down() of one migration after the other, each with its ledger row.      *)
(* PostgreSQL and SQLite do both in one transaction; MySQL commits every   *)
(* statement by itself.  Statements fail, processes die and futures are    *)
(* dropped at every await, and a COMMIT that is on its way when that       *)
(* happens still arrives, after the lock is gone.                          *)
(*                                                                         *)
(* Sources: migration/migrator.rs, migration/ledger.rs,                    *)
(* migration/sqlite_foreign_keys.rs.                                       *)
(***************************************************************************)
EXTENDS Integers, FiniteSets, Sequences, Functions

CONSTANTS
    Processes,
    Versions,        \* versions sort as numbers
    Registered,      \* the migrations each process was built with
    ForeignKeysOff,  \* migrations that ask for foreign_keys_off
    Backends,
    Operations,      \* what processes may call: [name, ...]
    Ledgers,         \* what earlier deployments may have left
    MaxCalls,        \* per process, bound on its calls
    MaxFaults,       \* bound on failures, drops and marks together
    NoWork

ASSUME MigratorAssumption ==
    /\ Versions \subseteq Nat /\ MaxCalls \in [Processes -> Nat] /\ MaxFaults \in Nat
    /\ Backends \subseteq {"Postgres", "MySQL", "SQLite"}
    /\ Registered \in [Processes -> SUBSET Versions]
    /\ \A p \in Processes : IsFiniteSet(Registered[p])
    /\ \A l \in Ledgers : l \in Seq(Versions) /\ IsInjective(l)
    /\ NoWork \notin [version : Versions, apply : BOOLEAN]
    /\ \A op \in Operations :
           /\ op.name \in {"run", "rollback", "reset", "refresh", "sql"}
           /\ op.name = "rollback" => op.steps \in Nat
           /\ op.name = "sql" => op.version \in Versions /\ op.apply \in BOOLEAN

VARIABLES
    backend,
    holders,   \* who holds the migration lock
    ledger,    \* the rows of the ledger, in the order of their ids
    effect,    \* how many times the change of each migration is in the schema
    dangling,  \* whether a foreign key points nowhere
    late,      \* transactions whose COMMIT was sent by a process that is gone
    task,      \* per process, its call
    budget,    \* calls left per process, and faults left
    meddled    \* history: versions somebody marked, versions a late COMMIT changed

vars == <<backend, holders, ledger, effect, dangling, late, task, budget, meddled>>

L == INSTANCE Lock

Idle == [pc |-> "idle", op |-> NoWork, steps |-> 0, todo |-> <<>>, doing |-> NoWork,
         dangles |-> FALSE, reverted |-> 0, faulted |-> FALSE, outcome |-> "ok"]

Init ==
    /\ backend \in Backends
    /\ holders = {}
    /\ ledger \in Ledgers
    /\ effect = [v \in Versions |-> IF v \in Range(ledger) THEN 1 ELSE 0]
    /\ dangling \in IF backend = "SQLite" THEN BOOLEAN ELSE {FALSE}
    /\ late = {}
    /\ task = [p \in Processes |-> Idle]
    /\ budget = [calls |-> MaxCalls, faults |-> MaxFaults]
    /\ meddled = [marked |-> {}, late |-> {}]

Last(s) == s[Len(s)]
Front(s) == SubSeq(s, 1, Len(s) - 1)

\* The sequence with e before what was its i-th element, and without the i-th
InsertAt(s, i, e) == SubSeq(s, 1, i - 1) \o <<e>> \o SubSeq(s, i, Len(s))
RemoveAt(s, i) == SubSeq(s, 1, i - 1) \o SubSeq(s, i + 1, Len(s))

\* supports_transactional_ddl
TransactionalDdl == backend \in {"Postgres", "SQLite"}

Recorded == Range(ledger)

Goto(p, pc) == task' = [task EXCEPT ![p].pc = pc]

Database == <<ledger, effect, dangling, late>>

-------------------------------------------------------------------------------
(* Calls and the lock                                                      *)

\* run, rollback and rollback_steps, reset, refresh, and the CLI's
\* __run_sql_migration; rollback_steps(0) returns without the lock.
Call(p, op) ==
    /\ task[p].pc = "idle" /\ budget.calls[p] > 0
    /\ task' = [task EXCEPT ![p] = [Idle EXCEPT !.op = op, !.pc = "waiting"]]
    /\ budget' = [budget EXCEPT !.calls[p] = @ - 1]
    /\ UNCHANGED <<backend, holders, Database, meddled>>

\* Mutant: a rollback does not wait for the lock.
AcquireAnyway(p) ==
    /\ task[p].pc = "waiting"
    /\ IF task[p].op.name = "rollback" THEN holders' = holders \cup {p} ELSE L!Acquire(p)
    /\ Goto(p, "start")
    /\ UNCHANGED <<backend, Database, budget, meddled>>

\* LedgerLock::acquire: an advisory lock, a named lock, a file lock
Acquire(p) ==
    /\ task[p].pc = "waiting"
    /\ L!Acquire(p)
    /\ Goto(p, "start")
    /\ UNCHANGED <<backend, Database, budget, meddled>>

\* GET_LOCK answers 0 after MIGRATION_LOCK_TIMEOUT_SECONDS: nothing ran and
\* nothing is held.
TimeOut(p) ==
    /\ task[p].pc = "waiting" /\ backend = "MySQL" /\ ~L!Free
    /\ budget.faults > 0
    /\ budget' = [budget EXCEPT !.faults = @ - 1]
    /\ task' = [task EXCEPT ![p] = Idle]
    /\ UNCHANGED <<backend, holders, Database, meddled>>

\* Mutant: a failed operation keeps the lock.
ReleaseOnSuccess(p) ==
    /\ task[p].pc = "releasing"
    /\ IF task[p].outcome = "ok" THEN L!Release(p) ELSE UNCHANGED holders
    /\ task' = [task EXCEPT ![p] = Idle]
    /\ UNCHANGED <<backend, Database, budget, meddled>>

\* with_ledger_lock: released whatever the outcome; a release that fails has
\* lost its session and the lock with it.
Release(p) ==
    /\ task[p].pc = "releasing"
    /\ L!Release(p)
    /\ task' = [task EXCEPT ![p] = Idle]
    /\ UNCHANGED <<backend, Database, budget, meddled>>

-------------------------------------------------------------------------------
(* What a call does under the lock                                         *)

Finish(t, outcome) == [t EXCEPT !.pc = "releasing", !.doing = NoWork, !.outcome = outcome]
Work(t, version, apply) ==
    [t EXCEPT !.pc = "scope", !.doing = [version |-> version, apply |-> apply]]

\* sort_by_key, by version; Registered gives each version to one migration
InVersionOrder(versions) ==
    CHOOSE s \in [1..Cardinality(versions) -> versions] :
        Range(s) = versions /\ \A i, j \in DOMAIN s : i < j => s[i] < s[j]

\* run_locked: what is recorded is skipped, the rest runs in version order.
RunLocked(p, t) ==
    [t EXCEPT !.pc = "next", !.todo = InVersionOrder(Registered[p] \ Recorded)]

\* Mutant: rows this migrator does not know are found when their turn comes.
ResetLockedBlindly(p, t) == [t EXCEPT !.pc = "back", !.steps = Len(ledger)]

\* reset_locked
ResetLocked(p, t) ==
    IF Recorded \subseteq Registered[p]
    THEN [t EXCEPT !.pc = "back", !.steps = Len(ledger)] ELSE Finish(t, "error")

\* The first reading of the ledger, created if it is missing
Start(p) ==
    /\ task[p].pc = "start"
    /\ LET t == task[p]
       IN  task' = [task EXCEPT ![p] =
             CASE t.op.name = "run" -> RunLocked(p, t)
               [] t.op.name = "rollback" -> [t EXCEPT !.pc = "back", !.steps = t.op.steps]
               [] t.op.name \in {"reset", "refresh"} -> ResetLocked(p, t)
               [] t.op.name = "sql" -> IF (t.op.version \in Recorded) = t.op.apply
                                       THEN Finish(t, "ok")
                                       ELSE Work(t, t.op.version, t.op.apply)]
    /\ UNCHANGED <<backend, holders, Database, budget, meddled>>

\* Mutant: the highest version goes, not the row written last.
NewestHighest == CHOOSE v \in Recorded : \A w \in Recorded : w <= v

\* applied.last(): by id, whatever its version
Newest == Last(ledger)

\* rollback_locked, once per step; refresh goes on to run_locked.
Back(p) ==
    /\ task[p].pc = "back"
    /\ LET t == task[p]
       IN  task' = [task EXCEPT ![p] =
             IF t.steps = 0 \/ ledger = <<>>
             THEN IF t.op.name = "refresh" THEN RunLocked(p, t) ELSE Finish(t, "ok")
             ELSE IF Newest \in Registered[p] THEN Work(t, Newest, FALSE)
                  ELSE Finish(t, "error")]
    /\ UNCHANGED <<backend, holders, Database, budget, meddled>>

\* The loop of run_locked
NextMigration(p) ==
    /\ task[p].pc = "next"
    /\ LET t == task[p]
       IN  task' = [task EXCEPT ![p] = IF t.todo = <<>> THEN Finish(t, "ok")
                                       ELSE Work([t EXCEPT !.todo = Tail(@)], Head(t.todo), TRUE)]
    /\ UNCHANGED <<backend, holders, Database, budget, meddled>>

-------------------------------------------------------------------------------
(* One migration and its ledger row: run_migration, in_ddl_scope           *)

\* up() run twice changes the schema twice; down() of nothing reverts nothing.
Changed(work) ==
    [effect EXCEPT ![work.version] =
        IF work.apply THEN @ + 1 ELSE IF @ > 0 THEN @ - 1 ELSE 0]

\* The ledger's key is UNIQUE: a version has one row at most.
Written(work) ==
    IF work.apply THEN Append(ledger, work.version)
    ELSE IF work.version \in Recorded
         THEN RemoveAt(ledger, CHOOSE i \in DOMAIN ledger : ledger[i] = work.version)
         ELSE ledger

\* run_with_foreign_keys_off looks for rows that point nowhere.
Checked(t) ==
    backend = "SQLite" /\ t.doing.version \in ForeignKeysOff /\ t.op.name # "sql"

\* The check before the migration: it could not tell these rows from its own.
RefuseDangling(p) ==
    /\ task[p].pc = "scope" /\ Checked(task[p]) /\ dangling
    /\ task' = [task EXCEPT ![p] = Finish(@, "error")]
    /\ UNCHANGED <<backend, holders, Database, budget, meddled>>

\* up() or down(): seen by others at once without transactional DDL
Change(p) ==
    /\ task[p].pc = "scope" /\ ~(Checked(task[p]) /\ dangling)
    /\ \E d \in IF Checked(task[p]) THEN BOOLEAN ELSE {FALSE} :
           task' = [task EXCEPT ![p].pc = "changed", ![p].dangles = d]
    /\ effect' = IF TransactionalDdl THEN effect ELSE Changed(task[p].doing)
    /\ UNCHANGED <<backend, holders, ledger, dangling, late, budget, meddled>>

\* Mutant: the ledger's key is not unique.
RefusesNothing(p) == FALSE

\* Ledger::record inserts a key that is UNIQUE.
Refuses(p) == task[p].doing.apply /\ task[p].doing.version \in Recorded

\* Ledger::record, Ledger::remove.  The server makes them wait for a
\* transaction that has written the same row.
Record(p) ==
    /\ task[p].pc = "changed"
    /\ \A work \in late : work.version # task[p].doing.version
    /\ task' = [task EXCEPT ![p] = IF Refuses(p) THEN Finish(@, "error")
                                   ELSE [@ EXCEPT !.pc = "recorded"]]
    /\ ledger' = IF TransactionalDdl \/ Refuses(p) THEN ledger ELSE Written(task[p].doing)
    /\ UNCHANGED <<backend, holders, effect, dangling, late, budget, meddled>>

\* What is left to do once a migration is done
After(t) ==
    IF t.op.name = "sql" THEN Finish(t, "ok")
    ELSE IF t.doing.apply THEN [t EXCEPT !.pc = "next", !.doing = NoWork]
    ELSE [t EXCEPT !.pc = "back", !.doing = NoWork, !.steps = @ - 1, !.reverted = @ + 1]

\* Mutant: a migration run with foreign keys off commits what it left.
LeavesDanglingUnchecked(t) == FALSE

\* The check after the migration
LeavesDangling(t) == t.dangles

\* The commit of the transaction; nothing without transactional DDL
Commit(p) ==
    /\ task[p].pc = "recorded"
    /\ IF LeavesDangling(task[p])
       THEN /\ task' = [task EXCEPT ![p] = [Finish(@, "error") EXCEPT !.faulted = TRUE]]
            /\ UNCHANGED <<ledger, effect, dangling>>
       ELSE /\ task' = [task EXCEPT ![p] = [After(@) EXCEPT !.dangles = FALSE]]
            /\ dangling' = (dangling \/ task[p].dangles)
            /\ IF TransactionalDdl
               THEN ledger' = Written(task[p].doing) /\ effect' = Changed(task[p].doing)
               ELSE UNCHANGED <<ledger, effect>>
    /\ UNCHANGED <<backend, holders, late, budget, meddled>>

-------------------------------------------------------------------------------
(* Faults                                                                  *)

\* What the end of a call in the middle of a migration leaves: without
\* transactional DDL perhaps a change without its row; a COMMIT already sent
\* may still arrive; every other transaction is rolled back.
LeavesBehind(t) ==
    \/ UNCHANGED <<effect, late>>
    \/ /\ t.pc = "scope" /\ ~TransactionalDdl
       /\ effect' = Changed(t.doing) /\ UNCHANGED late
    \/ /\ t.pc = "recorded" /\ TransactionalDdl /\ ~t.dangles
       /\ late' = late \cup {t.doing} /\ UNCHANGED effect

Fault == budget.faults > 0 /\ budget' = [budget EXCEPT !.faults = @ - 1]

\* A statement fails, or the answer to the COMMIT is lost.
Fail(p) ==
    /\ task[p].pc \in {"start", "back", "scope", "changed"}
           \cup IF TransactionalDdl THEN {"recorded"} ELSE {}
    /\ Fault
    /\ LeavesBehind(task[p])
    /\ task' = [task EXCEPT ![p] = [Finish(@, "error") EXCEPT !.faulted = TRUE]]
    /\ UNCHANGED <<backend, holders, ledger, dangling, meddled>>

\* The process dies, or the future is dropped: the lock goes with its session
\* or its file.
Drop(p) ==
    /\ task[p].pc # "idle"
    /\ Fault
    /\ LeavesBehind(task[p])
    /\ holders' = holders \ {p}
    /\ task' = [task EXCEPT ![p] = Idle]
    /\ UNCHANGED <<backend, ledger, dangling, meddled>>

\* The COMMIT of a process that is gone arrives, or its session ends first.
\* Its row has an id from before.
LateEnds(work) ==
    /\ work \in late
    /\ late' = late \ {work}
    /\ \/ UNCHANGED <<ledger, effect, meddled>>
       \/ /\ effect' = Changed(work)
          /\ meddled' = [meddled EXCEPT !.late = @ \cup {work.version}]
          /\ \/ ~work.apply /\ ledger' = Written(work)
             \/ work.apply /\ \E i \in 1..Len(ledger) + 1 : ledger' = InsertAt(ledger, i, work.version)
    /\ UNCHANGED <<backend, holders, dangling, task, budget>>

\* __mark_migration: no lock; a row that is there already is refused.
Mark(v, applied) ==
    /\ Fault
    /\ \A work \in late : work.version # v
    /\ \A p \in Processes : task[p].pc = "recorded" => task[p].doing.version # v
    /\ ~(applied /\ v \in Recorded)
    /\ ledger' = Written([version |-> v, apply |-> applied])
    /\ meddled' = [meddled EXCEPT !.marked = @ \cup {v}]
    /\ UNCHANGED <<backend, holders, effect, dangling, late, task>>

-------------------------------------------------------------------------------
Step(p) ==
    \/ Acquire(p) \/ Start(p) \/ Back(p) \/ NextMigration(p)
    \/ RefuseDangling(p) \/ Change(p) \/ Record(p) \/ Commit(p) \/ Release(p)

Works == [version : Versions, apply : BOOLEAN]

Next ==
    \/ \E p \in Processes : Step(p) \/ TimeOut(p) \/ Fail(p) \/ Drop(p)
    \/ \E p \in Processes, op \in Operations : Call(p, op)
    \/ \E work \in Works : LateEnds(work)
    \/ \E v \in Versions, applied \in BOOLEAN : Mark(v, applied)

\* Futures are polled, statements are answered, and a session whose client is
\* gone ends.  Nobody has to call, and nothing has to fail.
Fairness ==
    /\ \A p \in Processes : WF_vars(Step(p))
    /\ \A work \in Works : WF_vars(LateEnds(work))

Spec == Init /\ [][Next]_vars /\ Fairness

-------------------------------------------------------------------------------
(* Properties                                                              *)

Steps == {"idle", "waiting", "start", "back", "next", "scope", "changed", "recorded", "releasing"}

TypeOK ==
    /\ holders \subseteq Processes
    /\ Recorded \subseteq Versions
    /\ effect \in [Versions -> Nat]
    /\ late \subseteq Works
    /\ meddled \in [marked : SUBSET Versions, late : SUBSET Versions]
    /\ dangling \in BOOLEAN
    /\ \A p \in Processes :
           /\ task[p].pc \in Steps
           /\ task[p].doing \in Works \cup {NoWork}
           /\ (task[p].doing # NoWork) = (task[p].pc \in {"scope", "changed", "recorded"})

\* With transactional DDL the ledger says exactly which changes are in the
\* schema, once each, whoever fails, dies or is dropped, and whenever a COMMIT
\* left behind arrives: no migration is applied twice, and none is applied
\* without its row.
LedgerTellsSchema ==
    TransactionalDdl =>
        \A v \in Versions \ meddled.marked : effect[v] = IF v \in Recorded THEN 1 ELSE 0

\* A run that succeeds leaves none of its migrations pending, although other
\* processes roll back meanwhile (they wait for the lock).
NothingPending ==
    \A p \in Processes :
        (task[p].pc = "releasing" /\ task[p].outcome = "ok" /\ task[p].op.name \in {"run", "refresh"})
            => Registered[p] \ (meddled.marked \cup meddled.late) \subseteq Recorded

\* A rollback takes the row away that was written last, whatever its version.
TakesTheNewest ==
    \A p \in Processes :
        (/\ task[p].pc = "recorded" /\ task[p].op.name # "sql" /\ ~task[p].doing.apply
         /\ Len(ledger') < Len(ledger) /\ meddled'.marked \cup meddled'.late = {})
            => ledger' = Front(ledger)
NewestFirst == [][TakesTheNewest]_vars

\* A reset that refuses has reverted nothing: only a fault stops one half way.
ResetAllOrNothing ==
    \A p \in Processes :
        (/\ task[p].pc = "releasing" /\ task[p].op.name = "reset"
         /\ task[p].outcome = "error" /\ ~task[p].faulted /\ ~dangling /\ meddled.marked \cup meddled.late = {})
            => task[p].reverted = 0

\* A run leaves nothing pending, and a reset rolls back everything or, refused at
\* its start, nothing.
CallsDoWhatTheySay == NothingPending /\ ResetAllOrNothing

\* No migration leaves a foreign key that points nowhere.
NoNewDangling == [][dangling' => dangling]_vars

Quiet == \A p \in Processes : task[p].pc = "idle"

\* Whoever calls gets an answer: nobody waits for a lock that is never given
\* back.  (Calls are bounded, so every call has returned again and again.)
CallsReturn == []<>Quiet
===============================================================================
