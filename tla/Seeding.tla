-------------------------------- MODULE Seeding --------------------------------
(***************************************************************************)
(* The seeder: processes run, re-run and roll back seeds, each seed with   *)
(* its ledger row in one transaction, under a lock of their own.  Inside a *)
(* caller's transaction the seed's transaction is a savepoint, and the     *)
(* lock stays with the caller's transaction until that ends, or another    *)
(* seeder would run what is recorded but not visible yet.                  *)
(*                                                                         *)
(* Sources: seeding.rs; migration/migrator.rs (with_seed_lock);            *)
(* migration/ledger.rs.                                                    *)
(***************************************************************************)
EXTENDS Integers, FiniteSets, Sequences

CONSTANTS
    Processes,
    Seeders,      \* per process its seeds as registered: [name, priority, depends]
    Names,
    Operations,   \* [name, ...]
    MaxCalls,     \* per process, bound on its calls
    MaxFaults,
    NoSeed

SeedBackends == {"Postgres", "MySQL", "SQLite"}

VARIABLES
    backend,
    holders,   \* who holds the seed lock
    ledger,    \* the committed rows of _seeds: [id, name]
    rows,      \* how many times each seed's data is there, committed
    commits,   \* how many transactions have committed
    tx,        \* per process, the transaction it opened around its calls
    task,
    budget,
    forced     \* history: seeds run_seed was asked for

vars == <<backend, holders, ledger, rows, commits, tx, task, budget, forced>>

L == INSTANCE Lock
T == INSTANCE Topology

Idle == [pc |-> "idle", op |-> NoSeed, steps |-> 0, todo |-> <<>>,
         known |-> {}, executed |-> {}, doing |-> NoSeed, outcome |-> "ok"]

\* A call is made, and goes on: at a place, to run what it sorted, to roll back so
\* many steps, with one seed.
Called(op) == [Idle EXCEPT !.pc = "waiting", !.op = op]
At(t, place) == [t EXCEPT !.pc = place]
Running(t, known, executed, todo) ==
    [t EXCEPT !.pc = "next", !.known = known, !.executed = executed, !.todo = todo]
RollingBack(t, steps) == [t EXCEPT !.pc = "back", !.steps = steps]
Work(t, s, needs, apply, record) ==
    [t EXCEPT !.pc = "scope",
              !.doing = [seed |-> s, needs |-> needs, apply |-> apply, record |-> record]]

NoTransaction == [open |-> FALSE, snapshot |-> {}, at |-> 0, added |-> {}, removed |-> {},
                  rows |-> [s \in Names |-> 0]]

Init ==
    /\ backend \in SeedBackends
    /\ holders = {}
    /\ ledger = {}
    /\ rows = [s \in Names |-> 0]
    /\ commits = 0
    /\ tx = [p \in Processes |-> NoTransaction]
    /\ task = [p \in Processes |-> Idle]
    /\ budget = [calls |-> MaxCalls, faults |-> MaxFaults]
    /\ forced = {}

NamesOf(recorded) == {r.name : r \in recorded}

\* Ledger::remove
Kept(recorded, removed) == {r \in recorded : r.name \notin removed}

Largest(numbers) == CHOOSE n \in numbers : \A m \in numbers : m <= n

\* Ledger::keys on the ambient connection: a transaction of PostgreSQL reads
\* what is committed by now, the others what was committed when they began.
View(p) ==
    IF ~tx[p].open THEN ledger
    ELSE Kept(IF backend = "Postgres" THEN ledger ELSE tx[p].snapshot, tx[p].removed) \cup tx[p].added

\* The last of its keys
Newest(recorded) == (CHOOSE r \in recorded : \A q \in recorded : q.id <= r.id).name

SeedNames(p) == {Seeders[p][i].name : i \in DOMAIN Seeders[p]}

-------------------------------------------------------------------------------
(* The caller's transaction                                                *)

\* It has read something already, so a snapshot is as old as it.
Begun == [NoTransaction EXCEPT !.open = TRUE, !.snapshot = ledger, !.at = commits]

Begin(p) ==
    /\ task[p].pc = "idle" /\ ~tx[p].open /\ budget.calls[p] > 0
    /\ tx' = [tx EXCEPT ![p] = Begun]
    /\ UNCHANGED <<backend, holders, ledger, rows, commits, task, budget, forced>>

\* Mutant: the lock is given back before the rows are visible.
CommitUnlocked(p) ==
    /\ task[p].pc = "idle" /\ tx[p].open
    /\ \/ /\ holders = {p} /\ holders' = {} /\ UNCHANGED <<ledger, rows, commits, tx>>
       \/ /\ tx' = [tx EXCEPT ![p] = NoTransaction]
          /\ ledger' = Kept(ledger, tx[p].removed) \cup tx[p].added
          /\ rows' = IF tx[p].added = {} /\ tx[p].removed = {} THEN rows ELSE tx[p].rows
          /\ commits' = commits + 1
          /\ holders' = holders \ {p}
    /\ UNCHANGED <<backend, task, budget, forced>>

\* The record of the transaction goes once it has ended, and the lock with it.
Commit(p) ==
    /\ task[p].pc = "idle" /\ tx[p].open
    /\ tx' = [tx EXCEPT ![p] = NoTransaction]
    /\ holders' = holders \ {p}
    /\ IF p \in holders
       THEN /\ ledger' = Kept(ledger, tx[p].removed) \cup tx[p].added
            /\ rows' = tx[p].rows
            /\ commits' = commits + 1
       ELSE UNCHANGED <<ledger, rows, commits>>
    /\ UNCHANGED <<backend, task, budget, forced>>

\* The caller rolls back, or its future is dropped, during a call or between.
Rollback(p) ==
    /\ tx[p].open \/ task[p].pc # "idle"
    /\ budget.faults > 0
    /\ budget' = [budget EXCEPT !.faults = @ - 1]
    /\ tx' = [tx EXCEPT ![p] = NoTransaction]
    /\ task' = [task EXCEPT ![p] = Idle]
    /\ holders' = holders \ {p}
    /\ UNCHANGED <<backend, ledger, rows, commits, forced>>

-------------------------------------------------------------------------------
(* Calls and the lock                                                      *)

Call(p, op) ==
    /\ task[p].pc = "idle" /\ budget.calls[p] > 0
    /\ "seed" \in DOMAIN op => op.seed \in SeedNames(p)     \* find, before the lock
    /\ task' = [task EXCEPT ![p] = Called(op)]
    /\ budget' = [budget EXCEPT !.calls[p] = @ - 1]
    /\ forced' = IF op.name = "run_seed" THEN forced \cup {op.seed} ELSE forced
    /\ UNCHANGED <<backend, holders, ledger, rows, commits, tx>>

\* with_seed_lock: a transaction that holds the lock keeps it.
Acquire(p) ==
    /\ task[p].pc = "waiting"
    /\ L!Acquire(p) \/ (p \in holders /\ UNCHANGED holders)
    /\ tx' = IF p \in holders THEN tx ELSE [tx EXCEPT ![p] = [tx[p] EXCEPT !.rows = rows]]
    /\ task' = [task EXCEPT ![p] = At(task[p], "locked")]
    /\ UNCHANGED <<backend, ledger, rows, commits, budget, forced>>

Go(p, t) == task' = [task EXCEPT ![p] = t] /\ UNCHANGED holders

\* The call returns; outside a transaction it gives the lock back.
Finish(p, outcome) ==
    /\ task' = [task EXCEPT ![p] = [Idle EXCEPT !.outcome = outcome]]
    /\ holders' = IF tx[p].open THEN holders ELSE holders \ {p}

\* SQLite refuses to write after a snapshot that is not the newest.
Stale(p) == backend = "SQLite" /\ tx[p].open /\ tx[p].at # commits

\* UPDATE _seeds SET name = name WHERE 0
Reserve(p) ==
    /\ task[p].pc = "locked"
    /\ IF Stale(p) THEN Finish(p, "error")
       ELSE Go(p, At(task[p], "start"))
    /\ UNCHANGED <<backend, ledger, rows, commits, tx, budget, forced>>

-------------------------------------------------------------------------------
(* What a call does under the lock                                         *)

\* index_by_name: of two seeds with one name the later one counts.
IndexByName(seeds, s) == Largest({i \in DOMAIN seeds : seeds[i].name = s})

\* sort_seeds_by_priority_and_deps: a dependency on a seed that is not there
\* orders nothing.
SortSeeds(seeds) ==
    LET names == {seeds[i].name : i \in DOMAIN seeds}
        edges == {<<IndexByName(seeds, e[1]), e[2]>> :
                     e \in {x \in names \X DOMAIN seeds : x[1] \in seeds[x[2]].depends}}
    IN  T!TopologicalOrder(Len(seeds), edges, [i \in DOMAIN seeds |-> <<seeds[i].priority, i>>])

\* run_locked, up to its loop
RunLocked(p) ==
    \E sorted \in {SortSeeds(Seeders[p])} :
        IF sorted.left_over # <<>> THEN Finish(p, "error")
        ELSE Go(p, Running(task[p], NamesOf(View(p)), NamesOf(View(p)), sorted.ordered))

\* The first reading of the ledger
Start(p) ==
    /\ task[p].pc = "start"
    /\ LET t == task[p]
       IN  \/ t.op.name = "run" /\ RunLocked(p)
           \/ /\ t.op.name = "run_seed"
              /\ Go(p, Work(t, t.op.seed, {}, TRUE, t.op.seed \notin NamesOf(View(p))))
           \/ t.op.name = "rollback" /\ Go(p, RollingBack(t, t.op.steps))
           \/ t.op.name = "rollback_seed" /\ Go(p, Work(t, t.op.seed, {}, FALSE, FALSE))
           \/ /\ t.op.name \in {"reset", "refresh"}
              /\ Go(p, RollingBack(t, Cardinality(View(p))))
    /\ UNCHANGED <<backend, ledger, rows, commits, tx, budget, forced>>

\* What it depends on was recorded when the call began, or has run in it.
Runnable(p, seed) == seed.depends \subseteq task[p].executed

\* The loop of run_locked: a second seed of the same name is skipped only if the
\* ledger had it when the call began.
NextSeed(p) ==
    /\ task[p].pc = "next"
    /\ LET t == task[p]
           seed == Seeders[p][Head(t.todo)]
           rest == Running(t, t.known, t.executed, Tail(t.todo))
       IN  IF t.todo = <<>> THEN Finish(p, "ok")
           ELSE IF seed.name \in t.known THEN Go(p, rest)
           ELSE IF Runnable(p, seed) THEN Go(p, Work(rest, seed.name, seed.depends, TRUE, TRUE))
           ELSE Finish(p, "error")
    /\ UNCHANGED <<backend, ledger, rows, commits, tx, budget, forced>>

\* rollback_locked, once per step; refresh goes on to run_locked.
Back(p) ==
    /\ task[p].pc = "back"
    /\ LET t == task[p]
       IN  IF t.steps = 0 \/ View(p) = {}
           THEN IF t.op.name = "refresh" THEN RunLocked(p) ELSE Finish(p, "ok")
           ELSE IF Newest(View(p)) \in SeedNames(p) THEN Go(p, Work(t, Newest(View(p)), {}, FALSE, FALSE))
           ELSE Finish(p, "error")
    /\ UNCHANGED <<backend, ledger, rows, commits, tx, budget, forced>>

-------------------------------------------------------------------------------
(* One seed: apply, revert                                                 *)

\* The callback
RunSeed(p) ==
    /\ task[p].pc = "scope"
    /\ Go(p, At(task[p], "ran"))
    /\ UNCHANGED <<backend, ledger, rows, commits, tx, budget, forced>>

\* The callback, or a statement after it, fails: its transaction rolls back.
FailSeed(p) ==
    /\ task[p].pc \in {"scope", "ran"}
    /\ budget.faults > 0
    /\ budget' = [budget EXCEPT !.faults = @ - 1]
    /\ Finish(p, "error")
    /\ UNCHANGED <<backend, ledger, rows, commits, tx, forced>>

\* The key of _seeds is UNIQUE, among what is committed and what p wrote.
Refuses(p) ==
    LET work == task[p].doing
    IN  /\ work.apply /\ work.record
        /\ work.seed \in (NamesOf(ledger) \ tx[p].removed) \cup NamesOf(tx[p].added)

\* Ledger::record: its id is larger than those before.
Row(p, s) == [id |-> Largest({r.id : r \in ledger \cup tx[p].added} \cup {0}) + 1, name |-> s]

\* What is recorded after the work, and the data that is there
Recorded(p, work, recorded) ==
    IF work.record THEN recorded \cup {Row(p, work.seed)}
    ELSE IF work.apply THEN recorded
    ELSE Kept(recorded, {work.seed})
Seeded(work, data) == [data EXCEPT ![work.seed] = IF work.apply THEN @ + 1 ELSE 0]

\* The transaction of p with the work in it
Written(p, work) ==
    [tx[p] EXCEPT !.rows = Seeded(work, tx[p].rows),
                  !.added = Recorded(p, work, tx[p].added),
                  !.removed = IF work.apply THEN tx[p].removed ELSE tx[p].removed \cup {work.seed}]

After(t) ==
    IF t.doing.apply
    THEN [t EXCEPT !.pc = "next", !.doing = NoSeed, !.executed = @ \cup {t.doing.seed}]
    ELSE [t EXCEPT !.pc = "back", !.doing = NoSeed, !.steps = @ - 1]

\* The call goes on, or was about one seed only.
GoOn(p) ==
    IF task[p].op.name \in {"run_seed", "rollback_seed"} THEN Finish(p, "ok")
    ELSE Go(p, After(task[p]))

\* The ledger row, and the commit or the end of the savepoint
RecordSeed(p) ==
    /\ task[p].pc = "ran"
    /\ LET work == task[p].doing
       IN  IF Refuses(p) THEN Finish(p, "error") /\ UNCHANGED <<ledger, rows, commits, tx>>
           ELSE /\ GoOn(p)
                /\ IF tx[p].open
                   THEN /\ tx' = [tx EXCEPT ![p] = Written(p, work)]
                        /\ UNCHANGED <<ledger, rows, commits>>
                   ELSE /\ rows' = Seeded(work, rows)
                        /\ ledger' = Recorded(p, work, ledger)
                        /\ commits' = commits + 1
                        /\ UNCHANGED tx
    /\ UNCHANGED <<backend, budget, forced>>

-------------------------------------------------------------------------------
Step(p) ==
    \/ Acquire(p) \/ Reserve(p) \/ Start(p) \/ NextSeed(p) \/ Back(p)
    \/ RunSeed(p) \/ RecordSeed(p) \/ Commit(p)

Next ==
    \E p \in Processes :
        \/ Begin(p) \/ Step(p) \/ Rollback(p) \/ FailSeed(p)
        \/ \E op \in Operations : Call(p, op)

\* Callers end their transactions, and statements are answered.
Spec == Init /\ [][Next]_vars /\ \A p \in Processes : WF_vars(Step(p))

-------------------------------------------------------------------------------
(* Properties                                                              *)

TypeOK ==
    /\ holders \subseteq Processes
    /\ NamesOf(ledger) \subseteq Names /\ rows \in [Names -> Nat]
    /\ \A p \in Processes :
           /\ task[p].pc \in {"idle", "waiting", "locked", "start", "next", "back", "scope", "ran"}
           /\ NamesOf(tx[p].added) \cup tx[p].removed \subseteq Names

\* A seed is recorded exactly when its data is there: a seed and its ledger row
\* are one transaction, inside a caller's and outside.  (A MySQL snapshot may
\* show run_seed a row that a reset has taken away since.)
LedgerTellsRows ==
    backend # "MySQL" => \A s \in Names : (s \in NamesOf(ledger)) = (rows[s] > 0)

\* Seeders that race, some of them in transactions of their own that have not
\* committed yet, put a seed's data in once, unless somebody forces it.
SeededOnce == \A s \in Names \ forced : rows[s] <= 1

\* A seed that run picks finds the data of the seeds it depends on.
DependenciesFirst ==
    backend # "MySQL" =>
        \A p \in Processes :
            (task[p].pc \in {"scope", "ran"} /\ task[p].op.name \in {"run", "refresh"}
                /\ task[p].doing.apply)
                => task[p].doing.needs \subseteq NamesOf(View(p))

\* No callback runs in an SQLite transaction that could not write any more.
StaleRunsNothing == \A p \in Processes : task[p].pc \in {"scope", "ran"} => ~Stale(p)

Quiet == \A p \in Processes : task[p].pc = "idle"

\* Nobody waits for a lock that is never given back.
CallsReturn == []<>Quiet
===============================================================================
