---------------------------- MODULE SeedingProofs ----------------------------
(***************************************************************************)
(* What the seeder promises, for every number of processes, seeds, calls,  *)
(* faults and transactions around calls.                                   *)
(*                                                                         *)
(* The argument: only the holder of the lock writes, and it holds it until *)
(* what it wrote is committed.  So what it finds missing is missing, unless *)
(* its snapshot is from before the lock: SQLite then refuses its first     *)
(* write, before any callback, and on MySQL the unique key refuses the     *)
(* row, unless a call was told to run a seed whatever the ledger says.     *)
(* And the lock, which migrations take as well, is one where the database  *)
(* is in memory and its lock a mutex that tasks find in a registry.        *)
(***************************************************************************)
EXTENDS Seeding, MemoryLock, TLAPS

-------------------------------------------------------------------------------
(* The invariant                                                           *)

IsTask(t) ==
    \E S : t \in [pc : S, op : S, steps : S, todo : S, known : S, executed : S, doing : S, outcome : S]

IsTransaction(x) ==
    \E S : x \in [open : BOOLEAN, snapshot : S, at : Nat, added : S, removed : S, rows : [Names -> Nat]]

Waiting == {"idle", "waiting"}
Working == {"scope", "ran"}

\* The seeds recorded for p: the committed ones, and what its transaction changed
Mine(p) == (NamesOf(ledger) \ tx[p].removed) \cup NamesOf(tx[p].added)

\* The data r is that of the seeds in `names`, once unless a call forced it.
Tells(r, names) ==
    \A s \in Names :
        /\ backend # "MySQL" => (s \in names <=> r[s] > 0)
        /\ s \notin forced => r[s] = IF s \in names THEN 1 ELSE 0

\* Only the holder is past the lock, and keeps it with its transaction.
Locks(p, t) ==
    /\ t.pc \notin Waiting => p \in holders
    /\ p \in holders /\ t.pc \in Waiting => tx[p].open

\* Nobody else writes, and no transaction that has read too little.
Writes(p, t) ==
    /\ ~(p \in holders /\ tx[p].open) => tx[p].added = {} /\ tx[p].removed = {}
    /\ tx[p].at <= commits
    /\ tx[p].open /\ tx[p].at = commits => tx[p].snapshot = ledger
    /\ t.pc \notin Waiting /\ t.pc # "locked" => ~Stale(p)
    /\ p \in holders /\ tx[p].open => Tells(tx[p].rows, Mine(p))

\* What a call is about to do, and why
Does(p, t) ==
    /\ t.pc # "idle" /\ t.op.name = "run_seed" => t.op.seed \in forced
    /\ t.pc = "next" /\ backend # "MySQL" => t.executed \subseteq Mine(p)
    /\ t.pc \in Working =>
          /\ t.doing.record => t.doing.apply
          /\ t.doing.apply /\ ~t.doing.record =>
                /\ t.op.name = "run_seed" /\ t.doing.seed \in forced
                /\ backend # "MySQL" => t.doing.seed \in Mine(p)
          /\ t.doing.apply /\ t.op.name # "run_seed" /\ backend # "MySQL" =>
                t.executed \subseteq Mine(p) /\ t.doing.needs \subseteq t.executed

Sound(p, t) == Locks(p, t) /\ Writes(p, t) /\ Does(p, t)

Typed ==
    /\ backend \in SeedBackends /\ rows \in [Names -> Nat] /\ commits \in Nat
    /\ holders \subseteq Processes
    /\ DOMAIN task = Processes /\ task = [p \in Processes |-> task[p]]
    /\ DOMAIN tx = Processes /\ tx = [p \in Processes |-> tx[p]]
    /\ \A p \in Processes : IsTask(task[p]) /\ IsTransaction(tx[p])

IndInv ==
    /\ Typed
    /\ \A p, q \in holders : p = q
    /\ Tells(rows, NamesOf(ledger))
    /\ \A p \in Processes : Sound(p, task[p])

-------------------------------------------------------------------------------
(* Records                                                                 *)

\* The fields of a task are those it was given.
LEMMA AtIs ==
    ASSUME NEW t, IsTask(t), NEW place
    PROVE  /\ IsTask(At(t, place)) /\ At(t, place).pc = place
           /\ At(t, place).op = t.op /\ At(t, place).executed = t.executed /\ At(t, place).doing = t.doing
<1>1. PICK S : t \in [pc : S, op : S, steps : S, todo : S, known : S, executed : S, doing : S, outcome : S]   BY DEF IsTask
<1>2. PICK R : R = S \cup {place}   OBVIOUS
<1>3. At(t, place) \in [pc : R, op : R, steps : R, todo : R, known : R, executed : R, doing : R, outcome : R]
  BY Zenon, <1>1, <1>2 DEF At
<1>4. /\ At(t, place).pc = place /\ At(t, place).op = t.op
      /\ At(t, place).executed = t.executed /\ At(t, place).doing = t.doing
  BY Zenon, <1>1 DEF At
<1>5. QED  BY Zenon, <1>3, <1>4 DEF IsTask

LEMMA WorkIs ==
    ASSUME NEW t, IsTask(t), NEW s, NEW needs, NEW apply, NEW record
    PROVE  /\ IsTask(Work(t, s, needs, apply, record)) /\ Work(t, s, needs, apply, record).pc = "scope"
           /\ Work(t, s, needs, apply, record).op = t.op /\ Work(t, s, needs, apply, record).executed = t.executed
           /\ Work(t, s, needs, apply, record).doing.seed = s
           /\ Work(t, s, needs, apply, record).doing.needs = needs
           /\ Work(t, s, needs, apply, record).doing.apply = apply
           /\ Work(t, s, needs, apply, record).doing.record = record
<1>0. PICK u : u = Work(t, s, needs, apply, record)   OBVIOUS
<1>1. PICK S : t \in [pc : S, op : S, steps : S, todo : S, known : S, executed : S, doing : S, outcome : S]   BY DEF IsTask
<1>2. PICK w : w = [seed |-> s, needs |-> needs, apply |-> apply, record |-> record]   OBVIOUS
<1>3. PICK R : R = S \cup {"scope", w}   OBVIOUS
<1>4. u = [t EXCEPT !.pc = "scope", !.doing = w]   BY Zenon, <1>0, <1>2 DEF Work
<1>5. u \in [pc : R, op : R, steps : R, todo : R, known : R, executed : R, doing : R, outcome : R]   BY Zenon, <1>1, <1>3, <1>4
<1>6. u.pc = "scope" /\ u.op = t.op /\ u.executed = t.executed /\ u.doing = w   BY Zenon, <1>1, <1>4
<1>7. u.doing.seed = s /\ u.doing.needs = needs /\ u.doing.apply = apply /\ u.doing.record = record   BY <1>2, <1>6
<1>8. QED  BY Zenon, <1>0, <1>5, <1>6, <1>7 DEF IsTask

LEMMA RunningIs ==
    ASSUME NEW t, IsTask(t), NEW k, NEW e, NEW d
    PROVE  /\ IsTask(Running(t, k, e, d)) /\ Running(t, k, e, d).pc = "next"
           /\ Running(t, k, e, d).op = t.op /\ Running(t, k, e, d).executed = e
<1>1. PICK S : t \in [pc : S, op : S, steps : S, todo : S, known : S, executed : S, doing : S, outcome : S]   BY DEF IsTask
<1>2. PICK R : R = S \cup {"next", k, e, d}   OBVIOUS
<1>3. Running(t, k, e, d) \in [pc : R, op : R, steps : R, todo : R, known : R, executed : R, doing : R, outcome : R]
  BY Zenon, <1>1, <1>2 DEF Running
<1>4. Running(t, k, e, d).pc = "next" /\ Running(t, k, e, d).op = t.op /\ Running(t, k, e, d).executed = e
  BY Zenon, <1>1 DEF Running
<1>5. QED  BY Zenon, <1>3, <1>4 DEF IsTask

LEMMA RollingBackIs ==
    ASSUME NEW t, IsTask(t), NEW n
    PROVE  IsTask(RollingBack(t, n)) /\ RollingBack(t, n).pc = "back" /\ RollingBack(t, n).op = t.op
<1>1. PICK S : t \in [pc : S, op : S, steps : S, todo : S, known : S, executed : S, doing : S, outcome : S]   BY DEF IsTask
<1>2. PICK R : R = S \cup {"back", n}   OBVIOUS
<1>3. RollingBack(t, n) \in [pc : R, op : R, steps : R, todo : R, known : R, executed : R, doing : R, outcome : R]
  BY Zenon, <1>1, <1>2 DEF RollingBack
<1>4. RollingBack(t, n).pc = "back" /\ RollingBack(t, n).op = t.op   BY Zenon, <1>1 DEF RollingBack
<1>5. QED  BY Zenon, <1>3, <1>4 DEF IsTask

LEMMA AfterIs ==
    ASSUME NEW t, IsTask(t)
    PROVE  /\ IsTask(After(t)) /\ After(t).op = t.op
           /\ t.doing.apply => After(t).pc = "next" /\ After(t).executed = t.executed \cup {t.doing.seed}
           /\ ~t.doing.apply => After(t).pc = "back"
<1>0. PICK u : u = After(t)   OBVIOUS
<1>1. PICK S : t \in [pc : S, op : S, steps : S, todo : S, known : S, executed : S, doing : S, outcome : S]   BY DEF IsTask
<1>2. CASE t.doing.apply
  <2>1. PICK e : e = t.executed \cup {t.doing.seed}   OBVIOUS
  <2>2. u = [t EXCEPT !.pc = "next", !.doing = NoSeed, !.executed = e]   BY Zenon, <1>0, <1>2, <2>1 DEF After
  <2>3. PICK R : R = S \cup {"next", NoSeed, e}   OBVIOUS
  <2>4. u \in [pc : R, op : R, steps : R, todo : R, known : R, executed : R, doing : R, outcome : R]   BY Zenon, <1>0, <1>1, <2>2, <2>3
  <2>5. u.pc = "next" /\ u.op = t.op /\ u.executed = e   BY Zenon, <1>0, <1>1, <2>2
  <2>6. QED  BY Zenon, <1>0, <1>2, <2>1, <2>4, <2>5 DEF IsTask
<1>3. CASE ~t.doing.apply
  <2>1. PICK n : n = t.steps - 1   OBVIOUS
  <2>2. u = [t EXCEPT !.pc = "back", !.doing = NoSeed, !.steps = n]   BY Zenon, <1>0, <1>3, <2>1 DEF After
  <2>3. PICK R : R = S \cup {"back", NoSeed, n}   OBVIOUS
  <2>4. u \in [pc : R, op : R, steps : R, todo : R, known : R, executed : R, doing : R, outcome : R]   BY Zenon, <1>0, <1>1, <2>2, <2>3
  <2>5. u.pc = "back" /\ u.op = t.op   BY Zenon, <1>0, <1>1, <2>2
  <2>6. QED  BY Zenon, <1>0, <1>3, <2>4, <2>5 DEF IsTask
<1>4. QED  BY <1>2, <1>3

LEMMA IdleIs ==
    /\ IsTask(Idle) /\ Idle.pc = "idle"
    /\ \A o : IsTask([Idle EXCEPT !.outcome = o]) /\ [Idle EXCEPT !.outcome = o].pc = "idle"
<1>1. PICK zero, none, empty, i, k : zero = 0 /\ none = <<>> /\ empty = {} /\ i = "idle" /\ k = "ok"   OBVIOUS
<1>2. Idle = [pc |-> i, op |-> NoSeed, steps |-> zero, todo |-> none, known |-> empty, executed |-> empty, doing |-> NoSeed, outcome |-> k]
  BY Zenon, <1>1 DEF Idle
<1>3. PICK S : S = {i, NoSeed, zero, none, empty, k}   OBVIOUS
<1>4. Idle \in [pc : S, op : S, steps : S, todo : S, known : S, executed : S, doing : S, outcome : S]   BY Zenon, <1>2, <1>3
<1>5. ASSUME NEW o PROVE IsTask([Idle EXCEPT !.outcome = o]) /\ [Idle EXCEPT !.outcome = o].pc = Idle.pc
  <2>1. PICK R : R = S \cup {o}   OBVIOUS
  <2>2. PICK u : u = [Idle EXCEPT !.outcome = o]   OBVIOUS
  <2>3. u \in [pc : R, op : R, steps : R, todo : R, known : R, executed : R, doing : R, outcome : R]   BY Zenon, <1>4, <2>1, <2>2
  <2>4. u.pc = Idle.pc   BY Zenon, <1>4, <2>2
  <2>5. QED  BY Zenon, <2>2, <2>3, <2>4 DEF IsTask
<1>6. IsTask(Idle) /\ Idle.pc = "idle"   BY Zenon, <1>1, <1>2, <1>4 DEF IsTask
<1>7. QED  BY Zenon, <1>5, <1>6

LEMMA CalledIs ==
    ASSUME NEW op PROVE IsTask(Called(op)) /\ Called(op).pc = "waiting" /\ Called(op).op = op
<1>1. PICK S : Idle \in [pc : S, op : S, steps : S, todo : S, known : S, executed : S, doing : S, outcome : S]
  BY IdleIs DEF IsTask
<1>2. PICK R : R = S \cup {"waiting", op}   OBVIOUS
<1>3. Called(op) \in [pc : R, op : R, steps : R, todo : R, known : R, executed : R, doing : R, outcome : R]
  BY Zenon, <1>1, <1>2 DEF Called
<1>4. Called(op).pc = "waiting" /\ Called(op).op = op   BY Zenon, <1>1 DEF Called
<1>5. QED  BY Zenon, <1>3, <1>4 DEF IsTask

\* What nobody did concerns nobody else: only the call of p goes on.
LEMMA OnlyTheTask ==
    ASSUME IndInv, NEW p \in Processes, NEW t, IsTask(t), task' = [task EXCEPT ![p] = t],
           UNCHANGED <<backend, ledger, rows, commits, tx, forced>>,
           holders' = holders \/ (holders' = holders \ {p} /\ ~tx[p].open),
           t.pc \notin Waiting => p \in holders', p \in holders' /\ t.pc \in Waiting => tx[p].open,
           t.pc \notin Waiting /\ t.pc # "locked" => ~Stale(p), Does(p, t)
    PROVE  IndInv'
<1>1. /\ task'[p] = t /\ \A q \in Processes \ {p} : task'[q] = task[q]
      /\ DOMAIN task' = Processes /\ task' = [q \in Processes |-> task'[q]]
  BY DEF IndInv, Typed
<1>2. Typed'   BY Zenon, <1>1 DEF IndInv, Typed
<1>3. \A q, r \in holders' : q = r   BY Zenon DEF IndInv
<1>4. Tells(rows, NamesOf(ledger))'   BY Zenon DEF IndInv, Tells, NamesOf
<1>5. ASSUME NEW q \in Processes PROVE Sound(q, task[q])'
  <2>1. Mine(q)' = Mine(q) /\ Stale(q)' = Stale(q)   BY Zenon DEF Mine, NamesOf, Stale
  <2>2. Sound(q, task[q])   BY DEF IndInv
  <2>3. Tells(tx[q].rows, Mine(q))' <=> Tells(tx[q].rows, Mine(q))   BY Zenon, <2>1 DEF Tells
  <2>4. CASE q # p
    <3>1. task'[q] = task[q] /\ (q \in holders' <=> q \in holders)   BY Zenon, <1>1, <2>4
    <3>2. QED  BY <2>1, <2>2, <2>3, <3>1 DEF Sound, Locks, Writes, Does
  <2>5. CASE q = p
    <3>1. task'[q] = t /\ (q \in holders' => q \in holders)   BY Zenon, <1>1, <2>5
    <3>2. Locks(q, task[q])'   BY Zenon, <2>5, <3>1 DEF Locks
    <3>5. Does(q, task[q])'
      <4>1. Does(q, t)' <=> Does(q, t)   BY Zenon, <2>1 DEF Does
      <4>2. QED  BY <4>1, <2>5, <3>1
    <3>3. Writes(q, task[q])'   BY Zenon, <2>1, <2>2, <2>3, <2>5, <3>1 DEF Sound, Writes
    <3>4. QED  BY <3>2, <3>3, <3>5 DEF Sound
  <2>6. QED  BY <2>4, <2>5
<1>6. QED  BY Zenon, <1>2, <1>3, <1>4, <1>5 DEF IndInv

\* A call that returns gives the lock back, unless a transaction around it is open.
LEMMA Finishes ==
    ASSUME IndInv, NEW p \in Processes, NEW o, Finish(p, o), UNCHANGED <<backend, ledger, rows, commits, tx, forced>>
    PROVE  IndInv'
<1>1. PICK t : t = [Idle EXCEPT !.outcome = o]   OBVIOUS
<1>2. IsTask(t) /\ t.pc = "idle"   BY Zenon, <1>1, IdleIs
<1>3. task' = [task EXCEPT ![p] = t] /\ holders' = IF tx[p].open THEN holders ELSE holders \ {p}   BY Zenon, <1>1 DEF Finish
<1>4. holders' = holders \/ (holders' = holders \ {p} /\ ~tx[p].open)   BY Zenon, <1>3
<1>5. p \in holders' => tx[p].open   BY <1>3
<1>6. Does(p, t)   BY <1>2 DEF Does, Working
<1>7. t.pc \in Waiting   BY <1>2 DEF Waiting
<1>8. QED  BY Zenon, <1>2, <1>3, <1>4, <1>5, <1>6, <1>7, OnlyTheTask

\* A call that goes on under its lock keeps the invariant if it may do what it does next.
LEMMA Goes ==
    ASSUME IndInv, NEW p \in Processes, NEW t, IsTask(t), Go(p, t), UNCHANGED <<backend, ledger, rows, commits, tx, forced>>,
           task[p].pc \notin Waiting, t.pc \notin Waiting, ~Stale(p), Does(p, t)
    PROVE  IndInv'
<1>1. p \in holders   BY Zenon DEF IndInv, Sound, Locks
<1>2. task' = [task EXCEPT ![p] = t] /\ holders' = holders   BY Zenon DEF Go
<1>3. QED  BY Zenon, <1>1, <1>2, OnlyTheTask

\* Under the lock a call reads what is recorded for it, but for an old MySQL snapshot.
LEMMA ViewIs ==
    ASSUME IndInv, NEW p \in Processes, p \in holders, ~Stale(p), backend # "MySQL"
    PROVE  NamesOf(View(p)) = Mine(p)
<1>1. Writes(p, task[p])   BY DEF IndInv, Sound
<1>2. CASE ~tx[p].open
  <2>1. tx[p].added = {} /\ tx[p].removed = {}   BY <1>1, <1>2 DEF Writes
  <2>2. View(p) = ledger   BY <1>2 DEF View
  <2>3. QED  BY Zenon, <2>1, <2>2 DEF Mine, NamesOf
<1>3. CASE tx[p].open
  <2>1. backend # "Postgres" => tx[p].snapshot = ledger
    BY <1>1, <1>3 DEF IndInv, Typed, SeedBackends, Stale, Writes
  <2>2. View(p) = Kept(ledger, tx[p].removed) \cup tx[p].added   BY Zenon, <1>3, <2>1 DEF View
  <2>3. QED  BY Zenon, <2>2 DEF Mine, NamesOf, Kept
<1>4. QED  BY <1>2, <1>3

-------------------------------------------------------------------------------
(* The steps of a call that write nothing                                  *)

\* A call under the lock may write, once it has reserved its first write.
LEMMA UnderLock ==
    ASSUME IndInv, NEW p \in Processes, task[p].pc \notin {"idle", "waiting", "locked"}
    PROVE  /\ p \in holders /\ ~Stale(p) /\ IsTask(task[p]) /\ task[p].pc \notin Waiting
           /\ Does(p, task[p]) /\ Writes(p, task[p])
<1>1. Sound(p, task[p]) /\ IsTask(task[p])   BY DEF IndInv, Typed
<1>2. task[p].pc \notin Waiting /\ task[p].pc # "locked"   BY DEF Waiting
<1>3. QED  BY Zenon, <1>1, <1>2 DEF Sound, Locks, Writes

LEMMA ReserveKeeps == ASSUME IndInv, NEW p \in Processes, Reserve(p) PROVE IndInv'
<1>1. UNCHANGED <<backend, ledger, rows, commits, tx, forced>>   BY DEF Reserve
<1>2. CASE Stale(p)   BY <1>1, <1>2, Finishes DEF Reserve
<1>3. CASE ~Stale(p)
  <2>1. PICK t : t = At(task[p], "start")   OBVIOUS
  <2>2. Go(p, t) /\ task[p].pc = "locked"   BY Zenon, <1>3, <2>1 DEF Reserve
  <2>3. IsTask(task[p]) /\ Does(p, task[p])   BY DEF IndInv, Typed, Sound
  <2>4. IsTask(t) /\ t.pc = "start" /\ t.op = task[p].op   BY <2>1, <2>3, AtIs
  <2>5. Does(p, t)   BY <2>2, <2>3, <2>4 DEF Does, Working
  <2>6. task[p].pc \notin Waiting /\ t.pc \notin Waiting   BY <2>2, <2>4 DEF Waiting
  <2>7. QED  BY Zenon, <1>1, <1>3, <2>2, <2>4, <2>5, <2>6, Goes
<1>4. QED  BY <1>2, <1>3

\* run_locked knows of no seed that is not recorded.
LEMMA RunKeeps ==
    ASSUME IndInv, NEW p \in Processes, RunLocked(p), UNCHANGED <<backend, ledger, rows, commits, tx, forced>>,
           task[p].pc \notin {"idle", "waiting", "locked"}
    PROVE  IndInv'
<1>1. PICK sorted \in {SortSeeds(Seeders[p])} :
        IF sorted.left_over # <<>> THEN Finish(p, "error")
        ELSE Go(p, Running(task[p], NamesOf(View(p)), NamesOf(View(p)), sorted.ordered))
  BY Zenon DEF RunLocked
<1>2. CASE sorted.left_over # <<>>   BY Zenon, <1>1, <1>2, Finishes
<1>3. CASE sorted.left_over = <<>>
  <2>1. PICK e, d : e = NamesOf(View(p)) /\ d = sorted.ordered   OBVIOUS
  <2>4. /\ p \in holders /\ ~Stale(p) /\ IsTask(task[p]) /\ task[p].pc \notin Waiting
        /\ Does(p, task[p])
    BY Zenon, UnderLock
  <2>2. PICK t : t = Running(task[p], e, e, d)   OBVIOUS
  <2>3. Go(p, t)   BY Zenon, <1>1, <1>3, <2>1, <2>2
  <2>5. IsTask(t) /\ t.pc = "next" /\ t.op = task[p].op /\ t.executed = e   BY <2>2, <2>4, RunningIs
  <2>6. backend # "MySQL" => e = Mine(p)   BY Zenon, <2>1, <2>4, ViewIs
  <2>7. t.pc \notin Waiting   BY <2>5 DEF Waiting
  <2>8. Does(p, t)   BY <2>4, <2>5, <2>6 DEF Does, Working
  <2>9. QED  BY Zenon, <2>3, <2>4, <2>5, <2>7, <2>8, Goes
<1>4. QED  BY <1>2, <1>3

\* What a call picks to revert concerns no other seed.
LEMMA RevertKeeps ==
    ASSUME IndInv, NEW p \in Processes, UNCHANGED <<backend, ledger, rows, commits, tx, forced>>,
           task[p].pc \notin {"idle", "waiting", "locked"}, NEW s, Go(p, Work(task[p], s, {}, FALSE, FALSE))
    PROVE  IndInv'
<1>2. /\ p \in holders /\ ~Stale(p) /\ IsTask(task[p]) /\ task[p].pc \notin Waiting
      /\ Does(p, task[p])
  BY Zenon, UnderLock
<1>1. PICK no : no = FALSE   OBVIOUS
<1>3. PICK t : t = Work(task[p], s, {}, no, no)   OBVIOUS
<1>8. Go(p, t)   BY Zenon, <1>1, <1>3
<1>7. IsTask(t) /\ t.pc = "scope" /\ t.op = task[p].op /\ t.doing.apply = no /\ t.doing.record = no
  BY <1>2, <1>3, WorkIs
<1>4. t.pc \notin Waiting   BY <1>7 DEF Waiting
<1>5. Does(p, t)   BY <1>1, <1>2, <1>7 DEF Does
<1>6. QED  BY Zenon, <1>2, <1>4, <1>5, <1>7, <1>8, Goes

LEMMA RollBackKeeps ==
    ASSUME IndInv, NEW p \in Processes, UNCHANGED <<backend, ledger, rows, commits, tx, forced>>,
           task[p].pc \notin {"idle", "waiting", "locked"}, NEW n, Go(p, RollingBack(task[p], n))
    PROVE  IndInv'
<1>2. /\ p \in holders /\ ~Stale(p) /\ IsTask(task[p]) /\ task[p].pc \notin Waiting
      /\ Does(p, task[p])
  BY Zenon, UnderLock
<1>3. PICK t : t = RollingBack(task[p], n)   OBVIOUS
<1>7. IsTask(t) /\ t.pc = "back" /\ t.op = task[p].op   BY <1>2, <1>3, RollingBackIs
<1>4. t.pc \notin Waiting   BY <1>7 DEF Waiting
<1>5. Does(p, t)   BY <1>2, <1>7 DEF Does, Working
<1>6. QED  BY Zenon, <1>2, <1>3, <1>4, <1>5, <1>7, Goes

\* A seed that run_seed was asked for is forced, and its row missing or there.
LEMMA ForceKeeps ==
    ASSUME IndInv, NEW p \in Processes, UNCHANGED <<backend, ledger, rows, commits, tx, forced>>,
           task[p].pc = "start", task[p].op.name = "run_seed",
           Go(p, Work(task[p], task[p].op.seed, {}, TRUE, task[p].op.seed \notin NamesOf(View(p))))
    PROVE  IndInv'
<1>1. PICK yes, r, s : yes = TRUE /\ s = task[p].op.seed /\ r = (s \notin NamesOf(View(p)))   OBVIOUS
<1>2. PICK t : t = Work(task[p], s, {}, yes, r)   OBVIOUS
<1>3. Go(p, t)   BY Zenon, <1>1, <1>2
<1>4. /\ p \in holders /\ ~Stale(p) /\ IsTask(task[p]) /\ task[p].pc \notin Waiting
      /\ Does(p, task[p])
  BY Zenon, UnderLock
<1>5. /\ IsTask(t) /\ t.pc = "scope" /\ t.op = task[p].op /\ t.doing.seed = s
      /\ t.doing.apply = yes /\ t.doing.record = r
  BY <1>2, <1>4, WorkIs
<1>6. t.pc \notin Waiting   BY <1>5 DEF Waiting
<1>7. s \in forced   BY <1>1, <1>4 DEF Does
<1>8. backend # "MySQL" /\ ~r => s \in Mine(p)   BY Zenon, <1>1, <1>4, ViewIs
<1>9. Does(p, t)   BY <1>1, <1>4, <1>5, <1>7, <1>8 DEF Does
<1>10. QED  BY Zenon, <1>3, <1>4, <1>5, <1>6, <1>9, Goes

LEMMA StartKeeps == ASSUME IndInv, NEW p \in Processes, Start(p) PROVE IndInv'
<1>1. UNCHANGED <<backend, ledger, rows, commits, tx, forced>> /\ task[p].pc = "start"   BY DEF Start
<1>2. task[p].pc \notin {"idle", "waiting", "locked"}   BY <1>1
<1>3. CASE RunLocked(p)   BY Zenon, <1>1, <1>2, <1>3, RunKeeps
<1>4. CASE /\ task[p].op.name = "run_seed"
           /\ Go(p, Work(task[p], task[p].op.seed, {}, TRUE, task[p].op.seed \notin NamesOf(View(p))))
  BY Zenon, <1>1, <1>4, ForceKeeps
<1>5. CASE \E n : Go(p, RollingBack(task[p], n))   BY Zenon, <1>1, <1>2, <1>5, RollBackKeeps
<1>6. CASE Go(p, Work(task[p], task[p].op.seed, {}, FALSE, FALSE))   BY Zenon, <1>1, <1>2, <1>6, RevertKeeps
<1>7. QED  BY Zenon, <1>3, <1>4, <1>5, <1>6 DEF Start

LEMMA NextSeedKeeps == ASSUME IndInv, NEW p \in Processes, NextSeed(p) PROVE IndInv'
<1>1. UNCHANGED <<backend, ledger, rows, commits, tx, forced>> /\ task[p].pc = "next"   BY DEF NextSeed
<1>2. task[p].pc \notin {"idle", "waiting", "locked"}   BY <1>1
<1>3. /\ p \in holders /\ ~Stale(p) /\ IsTask(task[p]) /\ task[p].pc \notin Waiting
      /\ Does(p, task[p])
  BY Zenon, <1>2, UnderLock
<1>4. PICK u, seed, yes : /\ u = Running(task[p], task[p].known, task[p].executed, Tail(task[p].todo))
                          /\ seed = Seeders[p][Head(task[p].todo)] /\ yes = TRUE
  OBVIOUS
<1>5. IsTask(u) /\ u.pc = "next" /\ u.op = task[p].op /\ u.executed = task[p].executed   BY <1>3, <1>4, RunningIs
<1>6. CASE \E o : Finish(p, o)   BY Zenon, <1>1, <1>6, Finishes
<1>7. CASE Go(p, u)
  <2>1. u.pc \notin Waiting   BY <1>5 DEF Waiting
  <2>2. Does(p, u)   BY <1>1, <1>3, <1>5 DEF Does, Working
  <2>3. QED  BY Zenon, <1>1, <1>3, <1>5, <1>7, <2>1, <2>2, Goes
<1>8. CASE Runnable(p, seed) /\ Go(p, Work(u, seed.name, seed.depends, yes, yes))
  <2>1. PICK t : t = Work(u, seed.name, seed.depends, yes, yes)   OBVIOUS
  <2>2. /\ IsTask(t) /\ t.pc = "scope" /\ t.op = task[p].op /\ t.executed = task[p].executed
        /\ t.doing.needs = seed.depends /\ t.doing.apply = yes /\ t.doing.record = yes
    BY <1>5, <2>1, WorkIs
  <2>3. t.pc \notin Waiting   BY <2>2 DEF Waiting
  <2>4. t.doing.needs \subseteq t.executed   BY Zenon, <1>8, <2>2 DEF Runnable
  <2>5. Does(p, t)   BY <1>1, <1>3, <1>4, <2>2, <2>4 DEF Does, Working
  <2>6. QED  BY Zenon, <1>1, <1>3, <1>8, <2>1, <2>2, <2>3, <2>5, Goes
<1>9. QED  BY Zenon, <1>4, <1>6, <1>7, <1>8 DEF NextSeed

LEMMA BackKeeps == ASSUME IndInv, NEW p \in Processes, Back(p) PROVE IndInv'
<1>1. UNCHANGED <<backend, ledger, rows, commits, tx, forced>> /\ task[p].pc = "back"   BY DEF Back
<1>2. task[p].pc \notin {"idle", "waiting", "locked"}   BY <1>1
<1>3. CASE RunLocked(p)   BY Zenon, <1>1, <1>2, <1>3, RunKeeps
<1>4. CASE \E o : Finish(p, o)   BY Zenon, <1>1, <1>4, Finishes
<1>5. CASE \E s : Go(p, Work(task[p], s, {}, FALSE, FALSE))   BY Zenon, <1>1, <1>2, <1>5, RevertKeeps
<1>6. QED  BY Zenon, <1>3, <1>4, <1>5 DEF Back

LEMMA RunSeedKeeps == ASSUME IndInv, NEW p \in Processes, RunSeed(p) PROVE IndInv'
<1>1. UNCHANGED <<backend, ledger, rows, commits, tx, forced>> /\ task[p].pc = "scope"   BY DEF RunSeed
<1>2. task[p].pc \notin {"idle", "waiting", "locked"}   BY <1>1
<1>3. /\ p \in holders /\ ~Stale(p) /\ IsTask(task[p]) /\ task[p].pc \notin Waiting
      /\ Does(p, task[p])
  BY Zenon, <1>2, UnderLock
<1>4. PICK t : t = At(task[p], "ran")   OBVIOUS
<1>5. Go(p, t)   BY Zenon, <1>4 DEF RunSeed
<1>6. /\ IsTask(t) /\ t.pc = "ran" /\ t.op = task[p].op /\ t.executed = task[p].executed
      /\ t.doing = task[p].doing
  BY <1>3, <1>4, AtIs
<1>7. t.pc \notin Waiting   BY <1>6 DEF Waiting
<1>8. Does(p, t)   BY <1>1, <1>3, <1>6 DEF Does, Working
<1>9. QED  BY Zenon, <1>1, <1>3, <1>5, <1>6, <1>7, <1>8, Goes

LEMMA FailSeedKeeps == ASSUME IndInv, NEW p \in Processes, FailSeed(p) PROVE IndInv'
<1>1. UNCHANGED <<backend, ledger, rows, commits, tx, forced>> /\ Finish(p, "error")   BY DEF FailSeed
<1>2. QED  BY Zenon, <1>1, Finishes

-------------------------------------------------------------------------------
(* The steps that begin, end or write                                      *)

\* The fields of a transaction are those it was given.
LEMMA TransactionIs ==
    ASSUME NEW x, IsTransaction(x) PROVE x.open \in BOOLEAN /\ x.at \in Nat /\ x.rows \in [Names -> Nat]
<1>1. PICK S : x \in [open : BOOLEAN, snapshot : S, at : Nat, added : S, removed : S, rows : [Names -> Nat]]
  BY Zenon DEF IsTransaction
<1>2. QED  BY <1>1

\* Who does not hold the lock is not concerned by what the holder commits.
LEMMA OthersStay ==
    ASSUME IndInv, NEW p \in Processes, NEW q \in Processes, q # p,
           task'[q] = task[q], tx'[q] = tx[q], q \in holders' <=> q \in holders,
           backend' = backend, forced \subseteq forced',
           UNCHANGED <<ledger, rows, commits>> \/ (p \in holders /\ commits' = commits + 1)
    PROVE  Sound(q, task[q])'
<1>1. Sound(q, task[q]) /\ commits \in Nat /\ IsTransaction(tx[q])   BY DEF IndInv, Typed
<1>2. CASE UNCHANGED <<ledger, rows, commits>>
  <2>1. Mine(q)' = Mine(q) /\ Stale(q)' = Stale(q)   BY Zenon, <1>2 DEF Mine, NamesOf, Stale
  <2>2. Tells(tx[q].rows, Mine(q)) => Tells(tx[q].rows, Mine(q))'   BY Zenon, <2>1 DEF Tells
  <2>3. Locks(q, task[q])'   BY Zenon, <1>1 DEF Sound, Locks
  <2>4. Writes(q, task[q])'   BY Zenon, <1>1, <1>2, <2>1, <2>2 DEF Sound, Writes
  <2>5. Does(q, task[q])'   BY <1>1, <2>1 DEF Sound, Does
  <2>6. QED  BY <2>3, <2>4, <2>5 DEF Sound
<1>3. CASE p \in holders /\ commits' = commits + 1
  <2>1. q \notin holders /\ q \notin holders'   BY <1>3 DEF IndInv
  <2>2. task[q].pc \in Waiting   BY <1>1, <2>1 DEF Sound, Locks
  <2>3. tx[q].at \in Nat   BY <1>1, TransactionIs
  <2>4. tx[q].at <= commits /\ tx[q].added = {} /\ tx[q].removed = {}   BY <1>1, <2>1 DEF Sound, Writes
  <2>5. tx'[q].at <= commits' /\ tx'[q].at # commits'   BY <1>1, <1>3, <2>3, <2>4
  <2>6. Locks(q, task[q])'   BY Zenon, <2>1, <2>2 DEF Locks
  <2>7. Writes(q, task[q])'   BY Zenon, <2>1, <2>2, <2>4, <2>5 DEF Writes
  <2>8. Does(q, task[q])'   BY <1>1, <2>2 DEF Sound, Does, Waiting, Working
  <2>9. QED  BY <2>6, <2>7, <2>8 DEF Sound
<1>4. QED  BY <1>2, <1>3

\* One process takes a step, with its task, its transaction and the lock.
LEMMA Together ==
    ASSUME IndInv, NEW p \in Processes, NEW t, IsTask(t), NEW x, IsTransaction(x),
           task' = [task EXCEPT ![p] = t], tx' = [tx EXCEPT ![p] = x],
           holders' = holders \/ holders' = holders \ {p} \/ (holders = {} /\ holders' = {p}),
           backend' = backend, forced \subseteq forced', rows' \in [Names -> Nat],
           UNCHANGED <<ledger, rows, commits>> \/ (p \in holders /\ commits' = commits + 1),
           Tells(rows, NamesOf(ledger))',
           task'[p] = t /\ tx'[p] = x => (Locks(p, t) /\ Writes(p, t) /\ Does(p, t))'
    PROVE  IndInv'
<1>1. /\ task'[p] = t /\ \A q \in Processes \ {p} : task'[q] = task[q]
      /\ DOMAIN task' = Processes /\ task' = [q \in Processes |-> task'[q]]
  BY DEF IndInv, Typed
<1>2. /\ tx'[p] = x /\ \A q \in Processes \ {p} : tx'[q] = tx[q]
      /\ DOMAIN tx' = Processes /\ tx' = [q \in Processes |-> tx'[q]]
  BY DEF IndInv, Typed
<1>3. commits' \in Nat   BY DEF IndInv, Typed
<1>4. holders' \subseteq Processes /\ \A q, r \in holders' : q = r   BY Zenon DEF IndInv, Typed
<1>5. \A q \in Processes : IsTask(task'[q]) /\ IsTransaction(tx'[q])   BY Zenon, <1>1, <1>2 DEF IndInv, Typed
<1>6. Typed'
  <2>1. backend' \in SeedBackends   BY Zenon DEF IndInv, Typed
  <2>2. QED  BY Zenon, <1>1, <1>2, <1>3, <1>4, <1>5, <2>1 DEF Typed, SeedBackends, IsTask, IsTransaction
<1>7. Sound(p, task[p])'   BY Zenon, <1>1, <1>2 DEF Sound
<1>8. ASSUME NEW q \in Processes, q # p PROVE Sound(q, task[q])'
  <2>1. q \in holders' <=> q \in holders   BY Zenon, <1>8
  <2>2. task'[q] = task[q] /\ tx'[q] = tx[q]   BY Zenon, <1>1, <1>2, <1>8
  <2>3. QED  BY Zenon, <1>8, <2>1, <2>2, OthersStay
<1>9. \A q \in Processes : Sound(q, task[q])'   BY Zenon, <1>7, <1>8
<1>10. QED  BY Zenon, <1>4, <1>6, <1>9 DEF IndInv

LEMMA NoTransactionIs ==
    /\ IsTransaction(NoTransaction) /\ ~NoTransaction.open /\ NoTransaction.at = 0
    /\ NoTransaction.added = {} /\ NoTransaction.removed = {}
<1>1. PICK z, n, e, r : z = 0 /\ n = FALSE /\ e = {} /\ r = [s \in Names |-> 0]   OBVIOUS
<1>2. r \in [Names -> Nat] /\ z \in Nat /\ n \in BOOLEAN   BY <1>1
<1>3. NoTransaction = [open |-> n, snapshot |-> e, at |-> z, added |-> e, removed |-> e, rows |-> r]
  BY Zenon, <1>1 DEF NoTransaction
<1>4. PICK S : S = {e}   OBVIOUS
<1>5. NoTransaction \in [open : BOOLEAN, snapshot : S, at : Nat, added : S, removed : S, rows : [Names -> Nat]]
  BY Zenon, <1>2, <1>3, <1>4
<1>6. /\ NoTransaction.open = n /\ NoTransaction.at = z /\ NoTransaction.added = e /\ NoTransaction.removed = e
  BY Zenon, <1>3
<1>7. QED  BY Zenon, <1>1, <1>5, <1>6 DEF IsTransaction

\* A transaction that begins
LEMMA BegunIs ==
    ASSUME commits \in Nat
    PROVE  /\ IsTransaction(Begun) /\ Begun.open /\ Begun.snapshot = ledger /\ Begun.at = commits
           /\ Begun.added = {} /\ Begun.removed = {}
<1>1. PICK S : NoTransaction \in [open : BOOLEAN, snapshot : S, at : Nat, added : S, removed : S, rows : [Names -> Nat]]
  BY Zenon, NoTransactionIs DEF IsTransaction
<1>2. PICK R, yes, x : R = S \cup {ledger} /\ yes = TRUE /\ x = Begun   OBVIOUS
<1>3. x = [NoTransaction EXCEPT !.open = yes, !.snapshot = ledger, !.at = commits]   BY Zenon, <1>2 DEF Begun
<1>4. yes \in BOOLEAN   BY <1>2
<1>5. x \in [open : BOOLEAN, snapshot : R, at : Nat, added : R, removed : R, rows : [Names -> Nat]]
  BY Zenon, <1>1, <1>2, <1>3, <1>4
<1>6. /\ x.open = yes /\ x.snapshot = ledger /\ x.at = commits
      /\ x.added = NoTransaction.added /\ x.removed = NoTransaction.removed
  BY Zenon, <1>1, <1>3
<1>7. IsTransaction(x)   BY Zenon, <1>5 DEF IsTransaction
<1>8. QED  BY Zenon, <1>2, <1>6, <1>7, NoTransactionIs

\* Nothing is different for who does nothing.
LEMMA SameTransaction == ASSUME IndInv, NEW p \in Processes, tx' = tx PROVE tx' = [tx EXCEPT ![p] = tx[p]]
  BY DEF IndInv, Typed
LEMMA SameTask == ASSUME IndInv, NEW p \in Processes, task' = task PROVE task' = [task EXCEPT ![p] = task[p]]
  BY DEF IndInv, Typed

LEMMA BeginKeeps == ASSUME IndInv, NEW p \in Processes, Begin(p) PROVE IndInv'
<1>1. /\ task[p].pc = "idle" /\ ~tx[p].open
      /\ UNCHANGED <<backend, holders, ledger, rows, commits, task, forced>>
  BY DEF Begin
<1>2. PICK x : x = Begun   OBVIOUS
<1>3. tx' = [tx EXCEPT ![p] = x]   BY Zenon, <1>2 DEF Begin
<1>4. commits \in Nat /\ rows \in [Names -> Nat] /\ IsTask(task[p]) /\ Sound(p, task[p])   BY DEF IndInv, Typed
<1>5. IsTransaction(x) /\ x.open /\ x.snapshot = ledger /\ x.at = commits /\ x.added = {} /\ x.removed = {}
  BY Zenon, <1>2, <1>4, BegunIs
<1>6. p \notin holders /\ task[p].pc \in Waiting   BY <1>1, <1>4 DEF Sound, Locks, Waiting
<1>7. Tells(rows, NamesOf(ledger))'   BY Zenon, <1>1 DEF IndInv, Tells, NamesOf
<1>8. ASSUME tx'[p] = x PROVE (Locks(p, task[p]) /\ Writes(p, task[p]) /\ Does(p, task[p]))'
  <2>1. Locks(p, task[p])'   BY Zenon, <1>1, <1>6 DEF Locks
  <2>2. commits <= commits   BY <1>4
  <2>3. Writes(p, task[p])'   BY Zenon, <1>1, <1>5, <1>6, <1>8, <2>2 DEF Writes
  <2>4. Does(p, task[p])'   BY <1>1 DEF Does, Working
  <2>5. QED  BY <2>1, <2>3, <2>4
<1>9. PICK t : t = task[p]   OBVIOUS
<1>10. task' = [task EXCEPT ![p] = t]   BY Zenon, <1>1, <1>9, SameTask
<1>11. tx'[p] = x => (Locks(p, t) /\ Writes(p, t) /\ Does(p, t))'
  <2>1. t = task'[p]   BY Zenon, <1>1, <1>9
  <2>2. QED  BY Zenon, <1>8, <2>1
<1>12. QED  BY Zenon, <1>1, <1>3, <1>4, <1>5, <1>7, <1>9, <1>10, <1>11, Together

LEMMA CallKeeps == ASSUME IndInv, NEW p \in Processes, NEW op, Call(p, op) PROVE IndInv'
<1>1. /\ task[p].pc = "idle" /\ UNCHANGED <<backend, holders, ledger, rows, commits, tx>>
      /\ forced' = IF op.name = "run_seed" THEN forced \cup {op.seed} ELSE forced
  BY DEF Call
<1>2. PICK t : t = Called(op)   OBVIOUS
<1>3. task' = [task EXCEPT ![p] = t]   BY Zenon, <1>2 DEF Call
<1>4. IsTask(t) /\ t.pc = "waiting" /\ t.op = op   BY Zenon, <1>2, CalledIs
<1>5. rows \in [Names -> Nat] /\ IsTransaction(tx[p]) /\ Sound(p, task[p])   BY DEF IndInv, Typed
<1>6. forced \subseteq forced' /\ (op.name = "run_seed" => op.seed \in forced')   BY Zenon, <1>1
<1>7. Tells(rows, NamesOf(ledger))'   BY Zenon, <1>1, <1>6 DEF IndInv, Tells, NamesOf
<1>8. task[p].pc \in Waiting /\ t.pc \in Waiting   BY <1>1, <1>4 DEF Waiting
<1>9. (Locks(p, t) /\ Writes(p, t) /\ Does(p, t))'
  <2>1. Locks(p, t)'   BY Zenon, <1>1, <1>5, <1>8 DEF Sound, Locks
  <2>2. Mine(p)' = Mine(p)   BY Zenon, <1>1 DEF Mine, NamesOf
  <2>3. Tells(tx[p].rows, Mine(p)) => Tells(tx[p].rows, Mine(p))'   BY Zenon, <1>1, <1>6, <2>2 DEF Tells
  <2>4. Writes(p, t)'   BY Zenon, <1>1, <1>5, <1>8, <2>3 DEF Sound, Writes
  <2>5. Does(p, t)'   BY <1>4, <1>6 DEF Does, Working
  <2>6. QED  BY <2>1, <2>4, <2>5
<1>10. PICK x : x = tx[p]   OBVIOUS
<1>11. tx' = [tx EXCEPT ![p] = x]   BY Zenon, <1>1, <1>10, SameTransaction
<1>12. QED  BY Zenon, <1>1, <1>3, <1>4, <1>5, <1>6, <1>7, <1>9, <1>10, <1>11, Together

\* Who takes the lock begins with what is committed.
LEMMA AcquireKeeps == ASSUME IndInv, NEW p \in Processes, Acquire(p) PROVE IndInv'
<1>1. task[p].pc = "waiting" /\ UNCHANGED <<backend, ledger, rows, commits, forced>>   BY DEF Acquire
<1>2. PICK t : t = At(task[p], "locked")   OBVIOUS
<1>3. task' = [task EXCEPT ![p] = t]   BY Zenon, <1>2 DEF Acquire
<1>4. /\ rows \in [Names -> Nat] /\ IsTask(task[p]) /\ IsTransaction(tx[p]) /\ Sound(p, task[p])
      /\ Tells(rows, NamesOf(ledger))
  BY DEF IndInv, Typed
<1>5. IsTask(t) /\ t.pc = "locked" /\ t.op = task[p].op   BY <1>2, <1>4, AtIs
<1>6. t.pc \notin Waiting /\ task[p].pc \in Waiting   BY <1>1, <1>5 DEF Waiting
<1>7. Tells(rows, NamesOf(ledger))'   BY Zenon, <1>1, <1>4 DEF Tells, NamesOf
<1>8. Does(p, t)'   BY <1>1, <1>4, <1>5 DEF Sound, Does, Working
<1>9. CASE p \in holders
  <2>1. tx' = tx /\ holders' = holders   BY <1>9 DEF Acquire, L!Acquire, L!Free
  <2>2. Mine(p)' = Mine(p)   BY Zenon, <1>1, <2>1 DEF Mine, NamesOf
  <2>3. Tells(tx[p].rows, Mine(p)) => Tells(tx[p].rows, Mine(p))'   BY Zenon, <1>1, <2>1, <2>2 DEF Tells
  <2>4. Locks(p, t)'   BY Zenon, <1>6, <1>9, <2>1 DEF Locks
  <2>5. Writes(p, t)'   BY Zenon, <1>1, <1>4, <1>5, <2>1, <2>3 DEF Sound, Writes
  <2>6. PICK x : x = tx[p]   OBVIOUS
  <2>7. tx' = [tx EXCEPT ![p] = x]   BY Zenon, <2>1, <2>6, SameTransaction
  <2>8. QED  BY Zenon, <1>1, <1>3, <1>4, <1>5, <1>7, <1>8, <2>1, <2>4, <2>5, <2>6, <2>7, Together
<1>10. CASE p \notin holders
  <2>1. PICK x : x = [tx[p] EXCEPT !.rows = rows]   OBVIOUS
  <2>2. tx' = [tx EXCEPT ![p] = x] /\ holders = {} /\ holders' = {p}
    BY Zenon, <1>10, <2>1 DEF Acquire, L!Acquire, L!Free
  <2>3. /\ IsTransaction(x) /\ x.open = tx[p].open /\ x.snapshot = tx[p].snapshot /\ x.at = tx[p].at
        /\ x.added = tx[p].added /\ x.removed = tx[p].removed /\ x.rows = rows
    <3>1. PICK S : tx[p] \in [open : BOOLEAN, snapshot : S, at : Nat, added : S, removed : S, rows : [Names -> Nat]]
      BY Zenon, <1>4 DEF IsTransaction
    <3>2. x \in [open : BOOLEAN, snapshot : S, at : Nat, added : S, removed : S, rows : [Names -> Nat]]
      BY Zenon, <1>4, <2>1, <3>1
    <3>3. /\ x.open = tx[p].open /\ x.snapshot = tx[p].snapshot /\ x.at = tx[p].at
          /\ x.added = tx[p].added /\ x.removed = tx[p].removed /\ x.rows = rows
      BY Zenon, <2>1, <3>1
    <3>4. QED  BY Zenon, <3>2, <3>3 DEF IsTransaction
  <2>4. ASSUME tx'[p] = x PROVE (Locks(p, t) /\ Writes(p, t) /\ Does(p, t))'
    <3>1. tx[p].added = {} /\ tx[p].removed = {}   BY <1>4, <1>10 DEF Sound, Writes
    <3>2. Mine(p)' = NamesOf(ledger)'   BY Zenon, <2>3, <2>4, <3>1 DEF Mine, NamesOf
    <3>3. tx'[p].rows = rows'   BY Zenon, <1>1, <2>3, <2>4
    <3>4. Tells(tx[p].rows, Mine(p))'   BY Zenon, <1>7, <3>2, <3>3
    <3>5. Locks(p, t)'   BY Zenon, <1>6, <2>2 DEF Locks
    <3>6. Writes(p, t)'   BY Zenon, <1>1, <1>4, <1>5, <2>3, <2>4, <3>1, <3>4 DEF Sound, Writes
    <3>7. QED  BY <1>8, <3>5, <3>6
  <2>5. QED  BY Zenon, <1>1, <1>3, <1>4, <1>5, <1>7, <2>2, <2>3, <2>4, Together
<1>11. QED  BY <1>9, <1>10

LEMMA RollbackKeeps == ASSUME IndInv, NEW p \in Processes, Rollback(p) PROVE IndInv'
<1>1. /\ UNCHANGED <<backend, ledger, rows, commits, forced>> /\ holders' = holders \ {p}
      /\ tx' = [tx EXCEPT ![p] = NoTransaction] /\ task' = [task EXCEPT ![p] = Idle]
  BY DEF Rollback
<1>2. rows \in [Names -> Nat] /\ commits \in Nat   BY DEF IndInv, Typed
<1>3. Tells(rows, NamesOf(ledger))'   BY Zenon, <1>1 DEF IndInv, Tells, NamesOf
<1>4. PICK t, x : t = Idle /\ x = NoTransaction   OBVIOUS
<1>5. IsTask(t) /\ t.pc = "idle"   BY Zenon, <1>4, IdleIs
<1>6. IsTransaction(x) /\ ~x.open /\ x.at = 0 /\ x.added = {} /\ x.removed = {}   BY Zenon, <1>4, NoTransactionIs
<1>7. ASSUME tx'[p] = x PROVE (Locks(p, t) /\ Writes(p, t) /\ Does(p, t))'
  <2>1. t.pc \in Waiting /\ 0 <= commits   BY <1>2, <1>5 DEF Waiting
  <2>2. Locks(p, t)'   BY Zenon, <1>1, <2>1 DEF Locks
  <2>3. Writes(p, t)'   BY Zenon, <1>1, <1>6, <1>7, <2>1 DEF Writes
  <2>4. Does(p, t)'   BY <1>5 DEF Does, Working
  <2>5. QED  BY <2>2, <2>3, <2>4
<1>8. QED  BY Zenon, <1>1, <1>2, <1>3, <1>4, <1>5, <1>6, <1>7, Together

\* What a ledger names once rows were taken from it and others added
LEMMA NamesAre ==
    ASSUME NEW l, NEW m, NEW away
    PROVE  /\ NamesOf(Kept(l, away)) = NamesOf(l) \ away
           /\ NamesOf(l \cup m) = NamesOf(l) \cup NamesOf(m)
  BY Zenon DEF NamesOf, Kept

\* The transaction of the holder commits what it recorded with the data.
LEMMA CommitKeeps == ASSUME IndInv, NEW p \in Processes, Commit(p) PROVE IndInv'
<1>1. /\ task[p].pc = "idle" /\ tx[p].open /\ UNCHANGED <<backend, task, forced>> /\ holders' = holders \ {p}
      /\ tx' = [tx EXCEPT ![p] = NoTransaction]
  BY DEF Commit
<1>2. /\ rows \in [Names -> Nat] /\ commits \in Nat /\ IsTask(task[p]) /\ IsTransaction(tx[p]) /\ Sound(p, task[p])
      /\ Tells(rows, NamesOf(ledger))
  BY DEF IndInv, Typed
<1>3. PICK t, x : t = task[p] /\ x = NoTransaction   OBVIOUS
<1>4. IsTransaction(x) /\ ~x.open /\ x.at = 0 /\ x.added = {} /\ x.removed = {}   BY Zenon, <1>3, NoTransactionIs
<1>5. task' = [task EXCEPT ![p] = t]   BY Zenon, <1>1, <1>3, SameTask
<1>6. rows' \in [Names -> Nat] /\ commits' \in Nat /\ Tells(rows, NamesOf(ledger))'
      /\ (UNCHANGED <<ledger, rows, commits>> \/ (p \in holders /\ commits' = commits + 1))
  <2>1. CASE p \in holders
    <3>1. /\ ledger' = Kept(ledger, tx[p].removed) \cup tx[p].added /\ rows' = tx[p].rows /\ commits' = commits + 1
      BY <2>1 DEF Commit
    <3>2. NamesOf(ledger)' = Mine(p)
      <4>1. PICK l : l = Kept(ledger, tx[p].removed)   OBVIOUS
      <4>2. NamesOf(l) = NamesOf(ledger) \ tx[p].removed   BY Zenon, <4>1, NamesAre
      <4>3. NamesOf(l \cup tx[p].added) = NamesOf(l) \cup NamesOf(tx[p].added)   BY Zenon, NamesAre
      <4>4. ledger' = l \cup tx[p].added   BY Zenon, <3>1, <4>1
      <4>5. QED  BY Zenon, <4>2, <4>3, <4>4 DEF Mine
    <3>3. Tells(tx[p].rows, Mine(p))   BY <1>1, <1>2, <2>1 DEF Sound, Writes
    <3>4. Tells(rows, NamesOf(ledger))'   BY Zenon, <1>1, <3>1, <3>2, <3>3 DEF Tells
    <3>5. tx[p].rows \in [Names -> Nat]   BY <1>2, TransactionIs
    <3>6. QED  BY <1>2, <2>1, <3>1, <3>4, <3>5
  <2>2. CASE p \notin holders
    <3>1. UNCHANGED <<ledger, rows, commits>>   BY <2>2 DEF Commit
    <3>2. Tells(rows, NamesOf(ledger))'   BY Zenon, <1>1, <1>2, <3>1 DEF Tells, NamesOf
    <3>3. QED  BY <1>2, <3>1, <3>2
  <2>3. QED  BY <2>1, <2>2
<1>7. ASSUME tx'[p] = x PROVE (Locks(p, t) /\ Writes(p, t) /\ Does(p, t))'
  <2>1. t.pc \in Waiting /\ 0 <= commits'   BY <1>1, <1>3, <1>6 DEF Waiting
  <2>2. Locks(p, t)'   BY Zenon, <1>1, <2>1 DEF Locks
  <2>3. Writes(p, t)'   BY Zenon, <1>1, <1>4, <1>7, <2>1 DEF Writes
  <2>4. Does(p, t)'   BY <1>1, <1>3 DEF Does, Working
  <2>5. QED  BY <2>2, <2>3, <2>4
<1>8. QED  BY Zenon, <1>1, <1>2, <1>3, <1>4, <1>5, <1>6, <1>7, Together

\* What is recorded and the data, once a seed is applied with its row, without
\* one that is there, or reverted
LEMMA RecordedIs ==
    ASSUME NEW p \in Processes, NEW w, NEW l
    PROVE  /\ w.record => NamesOf(Recorded(p, w, l)) = NamesOf(l) \cup {w.seed}
           /\ ~w.record /\ w.apply => NamesOf(Recorded(p, w, l)) = NamesOf(l)
           /\ ~w.record /\ ~w.apply => NamesOf(Recorded(p, w, l)) = NamesOf(l) \ {w.seed}
<1>1. NamesOf({Row(p, w.seed)}) = {w.seed}
  <2>1. Row(p, w.seed).name = w.seed   BY DEF Row
  <2>2. QED  BY Zenon, <2>1 DEF NamesOf
<1>2. NamesOf(l \cup {Row(p, w.seed)}) = NamesOf(l) \cup {w.seed}   BY <1>1, NamesAre
<1>3. NamesOf(Kept(l, {w.seed})) = NamesOf(l) \ {w.seed}   BY Zenon, NamesAre
<1>4. QED  BY Zenon, <1>2, <1>3 DEF Recorded

LEMMA SeededIs ==
    ASSUME NEW w, NEW r \in [Names -> Nat]
    PROVE  /\ Seeded(w, r) \in [Names -> Nat]
           /\ \A s \in Names : s # w.seed => Seeded(w, r)[s] = r[s]
           /\ w.seed \in Names => Seeded(w, r)[w.seed] = IF w.apply THEN r[w.seed] + 1 ELSE 0
<1>1. PICK v : v = IF w.apply THEN r[w.seed] + 1 ELSE 0   OBVIOUS
<1>2. PICK k : k = w.seed   OBVIOUS
<1>3. Seeded(w, r) = [r EXCEPT ![k] = v]   BY Zenon, <1>1, <1>2 DEF Seeded
<1>4. k \in Names => v \in Nat   BY <1>1, <1>2
<1>5. [r EXCEPT ![k] = v] \in [Names -> Nat]
  <2>1. CASE k \in Names   BY <1>4, <2>1
  <2>2. CASE k \notin Names
    <3>1. [r EXCEPT ![k] = v] = r   BY <2>2
    <3>2. QED  BY <3>1
  <2>3. QED  BY <2>1, <2>2
<1>6. \A s \in Names : [r EXCEPT ![k] = v][s] = IF s = k THEN v ELSE r[s]   OBVIOUS
<1>7. QED  BY <1>1, <1>2, <1>3, <1>5, <1>6

\* The data goes with what is recorded.
LEMMA SeededTells ==
    ASSUME NEW w, NEW r \in [Names -> Nat], NEW names, NEW after, Tells(r, names), w.record => w.apply,
           w.record => w.seed \notin names /\ after = names \cup {w.seed},
           w.apply /\ ~w.record => /\ w.seed \in forced /\ after = names
                                   /\ backend # "MySQL" => w.seed \in names,
           ~w.apply => after = names \ {w.seed}
    PROVE  Tells(Seeded(w, r), after)
<1>1. SUFFICES ASSUME NEW s \in Names
               PROVE  /\ backend # "MySQL" => (s \in after <=> Seeded(w, r)[s] > 0)
                      /\ s \notin forced => Seeded(w, r)[s] = IF s \in after THEN 1 ELSE 0
  BY DEF Tells
<1>2. /\ backend # "MySQL" => (s \in names <=> r[s] > 0)
      /\ s \notin forced => r[s] = IF s \in names THEN 1 ELSE 0
      /\ r[s] \in Nat
  BY DEF Tells
<1>3. CASE s # w.seed
  <2>1. Seeded(w, r)[s] = r[s]   BY <1>3, SeededIs
  <2>2. s \in after <=> s \in names   BY Zenon, <1>3
  <2>3. QED  BY <1>2, <2>1, <2>2
<1>4. CASE s = w.seed
  <2>1. Seeded(w, r)[s] = IF w.apply THEN r[s] + 1 ELSE 0   BY <1>4, SeededIs
  <2>2. CASE w.record
    <3>1. s \in after /\ s \notin names /\ Seeded(w, r)[s] = r[s] + 1   BY Zenon, <1>4, <2>1, <2>2
    <3>2. QED  BY <1>2, <3>1
  <2>3. CASE w.apply /\ ~w.record
    <3>1. (s \in after <=> s \in names) /\ Seeded(w, r)[s] = r[s] + 1   BY Zenon, <2>1, <2>3
    <3>2. s \in forced /\ (backend # "MySQL" => s \in names)   BY Zenon, <1>4, <2>3
    <3>3. QED  BY <1>2, <3>1, <3>2
  <2>4. CASE ~w.apply
    <3>1. s \notin after /\ Seeded(w, r)[s] = 0   BY Zenon, <1>4, <2>1, <2>4
    <3>2. QED  BY <3>1
  <2>5. QED  BY Zenon, <2>2, <2>3, <2>4
<1>5. QED  BY <1>3, <1>4

\* After one seed a call returns or goes on.
LEMMA GoesOn ==
    ASSUME NEW p \in Processes, IsTask(task[p]), GoOn(p), task[p].pc = "ran"
    PROVE  \E t : /\ IsTask(t) /\ task' = [task EXCEPT ![p] = t]
                  /\ \/ t.pc = "idle" /\ holders' = IF tx[p].open THEN holders ELSE holders \ {p}
                     \/ /\ holders' = holders /\ t.op = task[p].op /\ t.op.name # "run_seed"
                        /\ task[p].doing.apply => t.pc = "next" /\ t.executed = task[p].executed \cup {task[p].doing.seed}
                        /\ ~task[p].doing.apply => t.pc = "back"
<1>1. CASE Finish(p, "ok")
  <2>1. PICK t : t = [Idle EXCEPT !.outcome = "ok"]   OBVIOUS
  <2>2. IsTask(t) /\ t.pc = "idle"   BY Zenon, <2>1, IdleIs
  <2>3. task' = [task EXCEPT ![p] = t] /\ holders' = IF tx[p].open THEN holders ELSE holders \ {p}
    BY Zenon, <1>1, <2>1 DEF Finish
  <2>4. QED  BY Zenon, <2>2, <2>3
<1>2. CASE task[p].op.name # "run_seed" /\ Go(p, After(task[p]))
  <2>1. PICK t : t = After(task[p])   OBVIOUS
  <2>2. /\ IsTask(t) /\ t.op = task[p].op
        /\ task[p].doing.apply => t.pc = "next" /\ t.executed = task[p].executed \cup {task[p].doing.seed}
        /\ ~task[p].doing.apply => t.pc = "back"
    BY Zenon, <2>1, AfterIs
  <2>3. task' = [task EXCEPT ![p] = t] /\ holders' = holders   BY Zenon, <1>2, <2>1 DEF Go
  <2>4. t.op.name # "run_seed"   BY Zenon, <1>2, <2>2
  <2>5. QED  BY Zenon, <2>2, <2>3, <2>4
<1>3. QED  BY <1>1, <1>2 DEF GoOn

\* The transaction of p with the work in it
LEMMA WrittenIs ==
    ASSUME NEW p \in Processes, IsTransaction(tx[p]), NEW w
    PROVE  /\ IsTransaction(Written(p, w)) /\ Written(p, w).open = tx[p].open
           /\ Written(p, w).snapshot = tx[p].snapshot /\ Written(p, w).at = tx[p].at
           /\ Written(p, w).rows = Seeded(w, tx[p].rows) /\ Written(p, w).added = Recorded(p, w, tx[p].added)
           /\ Written(p, w).removed = IF w.apply THEN tx[p].removed ELSE tx[p].removed \cup {w.seed}
<1>1. PICK S : tx[p] \in [open : BOOLEAN, snapshot : S, at : Nat, added : S, removed : S, rows : [Names -> Nat]]
  BY Zenon DEF IsTransaction
<1>2. PICK r, a, m : /\ r = Seeded(w, tx[p].rows) /\ a = Recorded(p, w, tx[p].added)
                     /\ m = IF w.apply THEN tx[p].removed ELSE tx[p].removed \cup {w.seed}
  OBVIOUS
<1>3. r \in [Names -> Nat]
  <2>1. tx[p].rows \in [Names -> Nat]   BY TransactionIs
  <2>2. QED  BY Zenon, <1>2, <2>1, SeededIs
<1>4. PICK R, x : R = S \cup {a, m} /\ x = Written(p, w)   OBVIOUS
<1>5. x = [tx[p] EXCEPT !.rows = r, !.added = a, !.removed = m]   BY Zenon, <1>2, <1>4 DEF Written
<1>6. x \in [open : BOOLEAN, snapshot : R, at : Nat, added : R, removed : R, rows : [Names -> Nat]]
  BY Zenon, <1>1, <1>3, <1>4, <1>5
<1>7. /\ x.open = tx[p].open /\ x.snapshot = tx[p].snapshot /\ x.at = tx[p].at
      /\ x.rows = r /\ x.added = a /\ x.removed = m
  BY Zenon, <1>1, <1>5
<1>8. IsTransaction(x)   BY Zenon, <1>6 DEF IsTransaction
<1>9. QED  BY Zenon, <1>2, <1>4, <1>7, <1>8

\* A seed and its row, in the caller's transaction or in one of its own
LEMMA RecordSeedKeeps == ASSUME IndInv, NEW p \in Processes, RecordSeed(p) PROVE IndInv'
<1>1. task[p].pc = "ran" /\ backend' = backend /\ forced' = forced   BY DEF RecordSeed
<1>2. /\ p \in holders /\ ~Stale(p) /\ IsTask(task[p]) /\ Does(p, task[p]) /\ Writes(p, task[p])
  BY <1>1, UnderLock
<1>3. /\ rows \in [Names -> Nat] /\ commits \in Nat /\ IsTransaction(tx[p]) /\ Tells(rows, NamesOf(ledger))
  BY DEF IndInv, Typed
<1>4. CASE Refuses(p)
  <2>1. Finish(p, "error") /\ UNCHANGED <<ledger, rows, commits, tx>>   BY <1>4 DEF RecordSeed
  <2>2. QED  BY Zenon, <1>1, <2>1, Finishes
<1>5. CASE ~Refuses(p)
  <2>1. PICK w : w = task[p].doing   OBVIOUS
  <2>2. /\ w.record => w.apply
        /\ w.apply /\ ~w.record => /\ task[p].op.name = "run_seed" /\ w.seed \in forced
                                   /\ backend # "MySQL" => w.seed \in Mine(p)
        /\ w.apply /\ task[p].op.name # "run_seed" /\ backend # "MySQL" => task[p].executed \subseteq Mine(p)
    BY <1>1, <1>2, <2>1 DEF Does, Working
  <2>3. w.record => w.seed \notin Mine(p)   BY Zenon, <1>5, <2>1, <2>2 DEF Refuses, Mine
  <2>4. PICK after : after = IF w.record THEN Mine(p) \cup {w.seed} ELSE IF w.apply THEN Mine(p) ELSE Mine(p) \ {w.seed}
    OBVIOUS
  <2>5. /\ w.record => after = Mine(p) \cup {w.seed}
        /\ w.apply /\ ~w.record => after = Mine(p)
        /\ ~w.apply => after = Mine(p) \ {w.seed}
    BY Zenon, <2>2, <2>4
  <2>6. \A r \in [Names -> Nat] : Tells(r, Mine(p)) => Tells(Seeded(w, r), after)
    BY Zenon, <2>2, <2>3, <2>5, SeededTells
  <2>7. GoOn(p)   BY Zenon, <1>5, <2>1 DEF RecordSeed
  <2>8. PICK t : /\ IsTask(t) /\ task' = [task EXCEPT ![p] = t]
                 /\ \/ t.pc = "idle" /\ holders' = IF tx[p].open THEN holders ELSE holders \ {p}
                    \/ /\ holders' = holders /\ t.op = task[p].op /\ t.op.name # "run_seed"
                       /\ w.apply => t.pc = "next" /\ t.executed = task[p].executed \cup {w.seed}
                       /\ ~w.apply => t.pc = "back"
    BY Zenon, <1>1, <1>2, <2>1, <2>7, GoesOn
  <2>9. ASSUME tx'[p].open = tx[p].open PROVE Locks(p, t)'
    <3>1. t.pc \in Waiting => t.pc = "idle"   BY <2>8 DEF Waiting
    <3>2. t.pc = "idle" => t.pc \in Waiting   BY DEF Waiting
    <3>3. QED  BY Zenon, <1>2, <2>8, <2>9, <3>1, <3>2 DEF Locks
  <2>10. ASSUME Mine(p)' = after PROVE Does(p, t)'
    <3>1. CASE t.pc = "idle"   BY <3>1 DEF Does, Working
    <3>2. CASE t.pc = "next" /\ w.apply /\ t.op = task[p].op /\ t.op.name # "run_seed"
               /\ t.executed = task[p].executed \cup {w.seed}
      <4>1. backend # "MySQL" => t.executed \subseteq after   BY Zenon, <2>2, <2>5, <3>2
      <4>2. QED  BY <1>1, <2>10, <3>2, <4>1 DEF Does, Working
    <3>3. CASE t.pc = "back" /\ t.op.name # "run_seed"   BY <3>3 DEF Does, Working
    <3>4. QED  BY Zenon, <2>8, <3>1, <3>2, <3>3
  <2>11. holders' = holders \/ (holders' = holders \ {p} /\ ~tx[p].open)   BY Zenon, <2>8
  <2>12. CASE tx[p].open
    <3>1. tx' = [tx EXCEPT ![p] = Written(p, w)] /\ UNCHANGED <<ledger, rows, commits>>
      BY Zenon, <1>5, <2>1, <2>12 DEF RecordSeed
    <3>2. PICK x : x = Written(p, w)   OBVIOUS
    <3>3. /\ IsTransaction(x) /\ x.open = tx[p].open /\ x.snapshot = tx[p].snapshot /\ x.at = tx[p].at
          /\ x.rows = Seeded(w, tx[p].rows) /\ x.added = Recorded(p, w, tx[p].added)
          /\ x.removed = IF w.apply THEN tx[p].removed ELSE tx[p].removed \cup {w.seed}
      BY Zenon, <1>3, <3>2, WrittenIs
    <3>4. Tells(x.rows, after)
      <4>1. Tells(tx[p].rows, Mine(p))   BY <1>2, <2>12 DEF Writes
      <4>2. tx[p].rows \in [Names -> Nat]   BY <1>3, TransactionIs
      <4>3. QED  BY Zenon, <2>6, <3>3, <4>1, <4>2
    <3>5. Tells(rows, NamesOf(ledger))'   BY Zenon, <1>1, <1>3, <3>1 DEF Tells, NamesOf
    <3>6. ASSUME tx'[p] = x PROVE (Locks(p, t) /\ Writes(p, t) /\ Does(p, t))'
      <4>1. Mine(p)' = (NamesOf(ledger) \ x.removed) \cup NamesOf(x.added)   BY Zenon, <3>1, <3>6 DEF Mine, NamesOf
      <4>2. /\ w.record => NamesOf(x.added) = NamesOf(tx[p].added) \cup {w.seed}
            /\ ~w.record /\ w.apply => NamesOf(x.added) = NamesOf(tx[p].added)
            /\ ~w.record /\ ~w.apply => NamesOf(x.added) = NamesOf(tx[p].added) \ {w.seed}
        BY <3>3, RecordedIs
      <4>3. Mine(p)' = after
        <5>1. CASE w.record   BY Zenon, <2>2, <2>5, <3>3, <4>1, <4>2, <5>1 DEF Mine
        <5>2. CASE w.apply /\ ~w.record   BY Zenon, <2>5, <3>3, <4>1, <4>2, <5>2 DEF Mine
        <5>3. CASE ~w.apply   BY Zenon, <2>2, <2>5, <3>3, <4>1, <4>2, <5>3 DEF Mine
        <5>4. QED  BY <5>1, <5>2, <5>3
      <4>4. Stale(p)' = Stale(p)   BY Zenon, <1>1, <3>1, <3>3, <3>6 DEF Stale
      <4>5. Tells(tx[p].rows, Mine(p))'   BY Zenon, <1>1, <3>4, <3>6, <4>3 DEF Tells
      <4>6. p \in holders' /\ x.open   BY Zenon, <1>2, <2>11, <2>12, <3>3
      <4>7. Writes(p, t)'   BY Zenon, <1>2, <3>1, <3>3, <3>6, <4>4, <4>5, <4>6 DEF Writes
      <4>8. Locks(p, t)' /\ Does(p, t)'   BY Zenon, <2>9, <2>10, <3>3, <3>6, <4>3
      <4>9. QED  BY <4>7, <4>8
    <3>7. QED  BY Zenon, <1>1, <1>3, <2>8, <2>11, <3>1, <3>2, <3>3, <3>5, <3>6, Together
  <2>13. CASE ~tx[p].open
    <3>1. /\ rows' = Seeded(w, rows) /\ ledger' = Recorded(p, w, ledger) /\ commits' = commits + 1 /\ tx' = tx
      BY Zenon, <1>5, <2>1, <2>13 DEF RecordSeed
    <3>2. tx[p].added = {} /\ tx[p].removed = {} /\ tx[p].at <= commits   BY <1>2, <2>13 DEF Writes
    <3>3. Mine(p) = NamesOf(ledger)   BY Zenon, <3>2 DEF Mine, NamesOf
    <3>4. NamesOf(ledger)' = after
      <4>1. PICK l : l = Recorded(p, w, ledger)   OBVIOUS
      <4>2. /\ w.record => NamesOf(l) = NamesOf(ledger) \cup {w.seed}
            /\ ~w.record /\ w.apply => NamesOf(l) = NamesOf(ledger)
            /\ ~w.record /\ ~w.apply => NamesOf(l) = NamesOf(ledger) \ {w.seed}
        BY <4>1, RecordedIs
      <4>3. NamesOf(l) = after   BY Zenon, <2>2, <2>4, <3>3, <4>2
      <4>4. QED  BY Zenon, <3>1, <4>1, <4>3
    <3>5. Mine(p)' = after   BY Zenon, <3>1, <3>2, <3>4 DEF Mine, NamesOf
    <3>6. Tells(Seeded(w, rows), after)   BY Zenon, <1>3, <2>6, <3>3
    <3>7. Tells(rows, NamesOf(ledger))'   BY Zenon, <1>1, <3>1, <3>4, <3>6 DEF Tells
    <3>8. rows' \in [Names -> Nat]   BY Zenon, <1>3, <3>1, SeededIs
    <3>9. Writes(p, t)'
      <4>1. tx[p].at \in Nat   BY <1>3, TransactionIs
      <4>2. tx[p].at <= commits'   BY <1>3, <3>1, <3>2, <4>1
      <4>3. ~Stale(p)'   BY Zenon, <2>13, <3>1 DEF Stale
      <4>4. QED  BY Zenon, <2>13, <3>1, <3>2, <4>2, <4>3 DEF Writes
    <3>10. Locks(p, t)' /\ Does(p, t)'   BY Zenon, <2>9, <2>10, <3>1, <3>5
    <3>11. PICK x : x = tx[p]   OBVIOUS
    <3>12. tx' = [tx EXCEPT ![p] = x]   BY Zenon, <3>1, <3>11, SameTransaction
    <3>13. QED  BY Zenon, <1>1, <1>2, <1>3, <2>8, <2>11, <3>1, <3>7, <3>8, <3>9, <3>10, <3>11, <3>12, Together
  <2>14. QED  BY <2>12, <2>13
<1>6. QED  BY <1>4, <1>5

-------------------------------------------------------------------------------
(* The theorems                                                            *)

LEMMA InitHolds == ASSUME Init PROVE IndInv
<1>1. /\ holders = {} /\ ledger = {} /\ commits = 0 /\ forced = {} /\ backend \in SeedBackends
      /\ rows = [s \in Names |-> 0]
      /\ tx = [p \in Processes |-> NoTransaction] /\ task = [p \in Processes |-> Idle]
  BY DEF Init
<1>2. \A p \in Processes : tx[p] = NoTransaction /\ task[p] = Idle   BY Zenon, <1>1
<1>3. Typed
  <2>1. rows \in [Names -> Nat] /\ commits \in Nat   BY <1>1
  <2>2. DOMAIN task = Processes /\ task = [p \in Processes |-> task[p]]   BY <1>1
  <2>3. DOMAIN tx = Processes /\ tx = [p \in Processes |-> tx[p]]   BY <1>1
  <2>4. \A p \in Processes : IsTask(task[p]) /\ IsTransaction(tx[p])   BY Zenon, <1>2, IdleIs, NoTransactionIs
  <2>5. QED  BY Zenon, <1>1, <2>1, <2>2, <2>3, <2>4 DEF Typed
<1>4. NamesOf(ledger) = {}   BY Zenon, <1>1 DEF NamesOf
<1>5. Tells(rows, NamesOf(ledger))   BY <1>1, <1>4 DEF Tells
<1>6. ASSUME NEW p \in Processes PROVE Sound(p, task[p])
  <2>1. task[p].pc = "idle"   BY Zenon, <1>2, IdleIs
  <2>2. ~tx[p].open /\ tx[p].at = 0 /\ tx[p].added = {} /\ tx[p].removed = {}   BY Zenon, <1>2, NoTransactionIs
  <2>3. Locks(p, task[p])   BY <1>1, <2>1 DEF Locks, Waiting
  <2>4. Writes(p, task[p])   BY <1>1, <2>1, <2>2 DEF Writes, Waiting
  <2>5. Does(p, task[p])   BY <2>1 DEF Does, Working
  <2>6. QED  BY <2>3, <2>4, <2>5 DEF Sound
<1>7. QED  BY Zenon, <1>1, <1>3, <1>5, <1>6 DEF IndInv

\* Nothing happens.
LEMMA StutterKeeps == ASSUME IndInv, UNCHANGED vars PROVE IndInv'
<1>1. /\ backend' = backend /\ holders' = holders /\ ledger' = ledger /\ rows' = rows /\ commits' = commits
      /\ tx' = tx /\ task' = task /\ forced' = forced
  BY DEF vars
<1>2. Typed'   BY Zenon, <1>1 DEF IndInv, Typed
<1>3. Tells(rows, NamesOf(ledger))'   BY Zenon, <1>1 DEF IndInv, Tells, NamesOf
<1>4. ASSUME NEW q \in Processes PROVE Sound(q, task[q])'
  <2>1. Mine(q)' = Mine(q) /\ Stale(q)' = Stale(q)   BY Zenon, <1>1 DEF Mine, NamesOf, Stale
  <2>2. Sound(q, task[q])   BY DEF IndInv
  <2>3. Tells(tx[q].rows, Mine(q)) => Tells(tx[q].rows, Mine(q))'   BY Zenon, <1>1, <2>1 DEF Tells
  <2>4. Locks(q, task[q])'   BY Zenon, <1>1, <2>2 DEF Sound, Locks
  <2>5. Writes(q, task[q])'   BY Zenon, <1>1, <2>1, <2>2, <2>3 DEF Sound, Writes
  <2>6. Does(q, task[q])'   BY <1>1, <2>1, <2>2 DEF Sound, Does
  <2>7. QED  BY <2>4, <2>5, <2>6 DEF Sound
<1>5. QED  BY Zenon, <1>1, <1>2, <1>3, <1>4 DEF IndInv

\* Every step of Next keeps the invariant.
LEMMA StepKeeps == ASSUME IndInv, [Next]_vars PROVE IndInv'
<1>1. CASE Next
  <2>1. PICK p \in Processes : \/ Begin(p) \/ Step(p) \/ Rollback(p) \/ FailSeed(p)
                               \/ \E op \in Operations : Call(p, op)
    BY Zenon, <1>1 DEF Next
  <2>2. CASE Begin(p)   BY <2>2, BeginKeeps
  <2>3. CASE Step(p)
    BY Zenon, <2>3, AcquireKeeps, ReserveKeeps, StartKeeps, NextSeedKeeps, BackKeeps, RunSeedKeeps, RecordSeedKeeps,
       CommitKeeps DEF Step
  <2>4. CASE Rollback(p)   BY <2>4, RollbackKeeps
  <2>5. CASE FailSeed(p)   BY <2>5, FailSeedKeeps
  <2>6. CASE \E op \in Operations : Call(p, op)   BY Zenon, <2>6, CallKeeps
  <2>7. QED  BY <2>1, <2>2, <2>3, <2>4, <2>5, <2>6
<1>2. QED  BY <1>1, StutterKeeps

LEMMA Invariantly == Spec => []IndInv
<1>1. Init => IndInv   BY InitHolds
<1>2. IndInv /\ [Next]_vars => IndInv'   BY StepKeeps
<1>3. QED  BY <1>1, <1>2, PTL DEF Spec

\* A seed is recorded exactly when its data is there, whatever the calls, the
\* transactions around them and the faults (apply, revert: one transaction).
THEOREM SeedsAreRecorded == Spec => []LedgerTellsRows
<1>1. IndInv => LedgerTellsRows   BY DEF IndInv, Tells, LedgerTellsRows
<1>2. QED  BY <1>1, Invariantly, PTL

\* Seeders that race put the data of a seed in once, in the transactions of
\* callers and outside, unless run_seed was asked for it (with_seed_lock).
THEOREM SeedsRunOnce == Spec => []SeededOnce
<1>1. IndInv => SeededOnce   BY DEF IndInv, Typed, Tells, SeededOnce
<1>2. QED  BY <1>1, Invariantly, PTL

\* A seed that run picks finds recorded what it depends on (run_locked).
THEOREM SeedsFindTheirs == Spec => []DependenciesFirst
<1>1. ASSUME IndInv, NEW p \in Processes, backend # "MySQL", task[p].pc \in Working,
             task[p].op.name \in {"run", "refresh"}, task[p].doing.apply
      PROVE  task[p].doing.needs \subseteq NamesOf(View(p))
  <2>1. task[p].pc \notin {"idle", "waiting", "locked"}   BY <1>1 DEF Working
  <2>2. p \in holders /\ ~Stale(p) /\ Does(p, task[p])   BY Zenon, <1>1, <2>1, UnderLock
  <2>3. NamesOf(View(p)) = Mine(p)   BY Zenon, <1>1, <2>2, ViewIs
  <2>4. task[p].op.name # "run_seed"   BY <1>1
  <2>5. task[p].executed \subseteq Mine(p) /\ task[p].doing.needs \subseteq task[p].executed
    BY Zenon, <1>1, <2>2, <2>4 DEF Does
  <2>6. QED  BY Zenon, <2>3, <2>5
<1>2. IndInv => DependenciesFirst   BY Zenon, <1>1 DEF DependenciesFirst, Working
<1>3. QED  BY <1>2, Invariantly, PTL

\* No callback of a seed runs in a transaction that can not record it any more
\* (the reservation on SQLite).
THEOREM StaleSeedsNothing == Spec => []StaleRunsNothing
<1>1. ASSUME IndInv, NEW p \in Processes, task[p].pc \in Working PROVE ~Stale(p)
  <2>1. task[p].pc \notin {"idle", "waiting", "locked"}   BY <1>1 DEF Working
  <2>2. QED  BY Zenon, <1>1, <2>1, UnderLock
<1>2. IndInv => StaleRunsNothing   BY Zenon, <1>1 DEF StaleRunsNothing, Working
<1>3. QED  BY <1>2, Invariantly, PTL

-------------------------------------------------------------------------------
(* The lock of an in-memory database                                       *)

\* Whoever has a reference has it to the mutex of the registry: a task finds it
\* there, or finds nothing that lives; and a mutex whose destructor is still to run
\* has no references any more.
OneMutex ==
    /\ LockTypeOK
    /\ \A p \in Migrators : pc[p] = "idle" <=> entry[p] = None
    /\ \A p \in Migrators : entry[p] # None => entry[p] = registry
    /\ \A m \in dying : Owners(m) = {}
    /\ \A p \in Migrators : pc[p] = "holding" => owner[entry[p]] = p

\* OneMutex is inductive: no step of a task or of a destructor breaks it.
LEMMA OneMutexInvariant ==
    LockSpec => []OneMutex
<1> USE MemoryLockAssumption
<1>1. LockInit => OneMutex
  BY DEF LockInit, OneMutex, LockTypeOK
<1>2. OneMutex /\ [LockNext]_lock_vars => OneMutex'
  <2> SUFFICES ASSUME OneMutex, [LockNext]_lock_vars PROVE OneMutex'
    OBVIOUS
  <2> USE DEF OneMutex, LockTypeOK, Owners
  <2>1. ASSUME NEW p \in Migrators, Look(p) PROVE OneMutex'
    <3>1. CASE registry # None /\ Owners(registry) # {} /\ entry' = [entry EXCEPT ![p] = registry] /\ UNCHANGED registry
      BY <2>1, <3>1 DEF Look
    <3>2. CASE registry = None \/ Owners(registry) = {}
      <4>1. PICK m \in Mutexes : Unused(m) /\ entry' = [entry EXCEPT ![p] = m] /\ registry' = m
        BY <2>1, <3>2 DEF Look
      <4>2. \A q \in Migrators : entry[q] = None
        BY <3>2
      <4>3. QED
        BY <2>1, <4>1, <4>2 DEF Look, Unused
    <3>3. QED
      BY <2>1, <3>1, <3>2 DEF Look
  <2>2. ASSUME NEW p \in Migrators, Take(p) PROVE OneMutex'
    BY <2>2 DEF Take
  <2>3. ASSUME NEW p \in Migrators, Unlock(p) PROVE OneMutex'
    BY <2>3 DEF Unlock
  <2>4. ASSUME NEW p \in Migrators, Leave(p) \/ Cancel(p) PROVE OneMutex'
    BY <2>4 DEF Leave, Cancel, DropEntry
  <2>5. ASSUME NEW m \in Mutexes, Destroy(m) PROVE OneMutex'
    BY <2>5 DEF Destroy
  <2>6. CASE UNCHANGED lock_vars
    BY <2>6 DEF lock_vars
  <2>7. QED
    BY <2>1, <2>2, <2>3, <2>4, <2>5, <2>6 DEF LockNext, LockStep
<1>3. QED
  BY <1>1, <1>2, PTL DEF LockSpec

\* However many tasks and addresses there are, the memory lock is one lock: nobody
\* gets it while somebody holds it, whatever destructors are still to run.
THEOREM MemoryLockRefinesLock ==
    LockSpec => IsALock
<1> USE MemoryLockAssumption
<1> DEFINE Holders == {p \in Migrators : pc[p] = "holding"}
<1>1. LockInit => Abstract!Free
  BY DEF LockInit, Abstract!Free
<1>2. OneMutex /\ OneMutex' /\ [LockNext]_lock_vars => [Abstract!Next]_Holders
  <2> SUFFICES ASSUME OneMutex, OneMutex', [LockNext]_lock_vars PROVE Abstract!Next \/ UNCHANGED Holders
    OBVIOUS
  <2> USE DEF OneMutex, LockTypeOK
  <2>1. ASSUME NEW p \in Migrators, Take(p) PROVE Abstract!Next
    <3>1. Holders = {}
      BY <2>1 DEF Take
    <3>2. Holders' = {p}
      BY <2>1, <3>1 DEF Take
    <3>3. QED
      BY <3>1, <3>2 DEF Abstract!Next, Abstract!Acquire, Abstract!Free
  <2>2. ASSUME NEW p \in Migrators, Unlock(p) PROVE Abstract!Next
    <3>1. p \in Holders /\ Holders' = Holders \ {p}
      BY <2>2 DEF Unlock
    <3>2. QED
      BY <3>1 DEF Abstract!Next, Abstract!Release
  <2>3. ASSUME NEW p \in Migrators, Look(p) \/ Leave(p) \/ Cancel(p) PROVE UNCHANGED Holders
    BY <2>3 DEF Look, Leave, Cancel, DropEntry
  <2>4. ASSUME NEW m \in Mutexes, Destroy(m) PROVE UNCHANGED Holders
    BY <2>4 DEF Destroy
  <2>5. CASE UNCHANGED lock_vars
    BY <2>5 DEF lock_vars
  <2>6. QED
    BY <2>1, <2>2, <2>3, <2>4, <2>5 DEF LockNext, LockStep
<1>3. QED
  BY <1>1, <1>2, OneMutexInvariant, PTL DEF LockSpec, IsALock, Abstract!Spec
===============================================================================
