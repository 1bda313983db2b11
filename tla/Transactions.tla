----------------------------- MODULE Transactions -----------------------------
(***************************************************************************)
(* Database::transaction: a transaction and the nested ones, which are     *)
(* savepoints on its connection.  Every scope is a future that may be      *)
(* dropped at any await; the gate serialises what runs on the connection,  *)
(* a transaction's slot keeps its savepoints from overlapping, and its     *)
(* record says why it can no longer run statements or commit, and what to  *)
(* undo if it does not.                                                    *)
(*                                                                         *)
(* Sources: database/transaction.rs, internal/executor.rs,                 *)
(* cache/query_cache/pending.rs.                                           *)
(***************************************************************************)
EXTENDS Integers, Sequences, FiniteSets

-------------------------------------------------------------------------------
(* The connection: the driver, which counts the transactions open on it,   *)
(* and the server behind it, which holds what they wrote.  Neither is part *)
(* of the repository; the definitions follow what transaction.rs and       *)
(* executor.rs rely on and work around.                                    *)

Backends == {"Postgres", "MySql", "Sqlite"}

VARIABLES
    backend,   \* the one of this connection
    depth,     \* how many transactions the driver counts
    stack,     \* the transaction and its savepoints on the server, outermost first
    durable    \* the writes that are committed

connection == <<backend, depth, stack, durable>>

\* A savepoint of `scope`, or its transaction.  `failed`: on PostgreSQL, a
\* statement failed here, and all but a rollback is refused.
Level(scope) == [scope |-> scope, writes |-> {}, failed |-> FALSE]

Top == stack[Len(stack)]
TopFailed == stack # <<>> /\ Top.failed
Smaller(a, b) == IF a < b THEN a ELSE b

\* BEGIN; the driver counts it once it has succeeded.
BeginServer(scope) ==
    /\ depth' = 1
    /\ stack' = <<Level(scope)>>
    /\ UNCHANGED <<backend, durable>>

\* SAVEPOINT.  Without a transaction MySQL ignores it, SQLite begins one and
\* PostgreSQL refuses it.
SavepointServer(scope) ==
    /\ ~TopFailed
    /\ stack = <<>> => backend # "Postgres"
    /\ depth' = depth + 1
    /\ stack' = IF stack = <<>> /\ backend = "MySql" THEN stack ELSE Append(stack, Level(scope))
    /\ UNCHANGED <<backend, durable>>

\* A statement writes w: outside a transaction it commits by itself.
WriteServer(w) ==
    /\ ~TopFailed
    /\ IF stack = <<>>
       THEN durable' = durable \cup {w} /\ UNCHANGED stack
       ELSE /\ stack' = [stack EXCEPT ![Len(stack)] = [Top EXCEPT !.writes = Top.writes \cup {w}]]
            /\ UNCHANGED durable
    /\ UNCHANGED <<backend, depth>>

\* A statement fails and the transaction goes on, on PostgreSQL only to be
\* rolled back.
FailServer ==
    /\ stack' = IF backend = "Postgres" /\ stack # <<>>
                THEN [stack EXCEPT ![Len(stack)] = [Top EXCEPT !.failed = TRUE]]
                ELSE stack
    /\ UNCHANGED <<backend, depth, durable>>

\* A deadlock on MySQL, or an error that makes SQLite roll back: the whole
\* transaction is gone and the driver does not know.
LoseServer ==
    /\ backend # "Postgres"
    /\ stack' = <<>>
    /\ UNCHANGED <<backend, depth, durable>>

\* The driver rolls back n times, each time what it takes for the innermost
\* savepoint.  SQLite's counts down only when the server has rolled back.
RollbackServer(n) ==
    /\ IF n = 0 \/ (backend = "Sqlite" /\ Len(stack) < depth)
       THEN UNCHANGED <<depth, stack>>
       ELSE LET left == IF depth > n THEN depth - n ELSE 0
            IN  /\ depth' = left
                /\ stack' = SubSeq(stack, 1, Smaller(Len(stack), left))
    /\ UNCHANGED <<backend, durable>>

\* COMMIT, which PostgreSQL answers with a rollback once a statement failed.
CommitServer ==
    /\ depth' = 0
    /\ stack' = <<>>
    /\ durable' = IF TopFailed THEN durable
                  ELSE durable \cup UNION {stack[i].writes : i \in 1..Len(stack)}
    /\ UNCHANGED backend

\* RELEASE SAVEPOINT: refused when the savepoint is gone or a statement failed.
CanRelease == ~TopFailed /\ Len(stack) = depth

ReleaseServer ==
    /\ CanRelease
    /\ depth' = depth - 1
    /\ stack' = [i \in 1..(Len(stack) - 1) |->
                    IF i < Len(stack) - 1 THEN stack[i]
                    ELSE [stack[i] EXCEPT !.writes = stack[i].writes \cup Top.writes]]
    /\ UNCHANGED <<backend, durable>>

\* ROLLBACK and BEGIN sent as statements, which the driver does not count.
ReopenServer(scope) ==
    /\ stack' = <<Level(scope)>>
    /\ UNCHANGED <<backend, depth, durable>>

InitConnection ==
    /\ backend \in Backends
    /\ depth = 0
    /\ stack = <<>>
    /\ durable = {}

-------------------------------------------------------------------------------
(* The scopes                                                              *)

CONSTANTS
    Scopes,          \* the calls of Database::transaction on one connection
    NoScope,
    Settings,        \* what the program that makes them is like: see below
    MaxStatements    \* bound on the statements of a scope

ASSUME ScopesAssumption ==
    /\ NoScope \notin Scopes
    /\ MaxStatements \in Nat
    /\ Settings \subseteq [backends : SUBSET Backends,
                           path : [Scopes -> Seq(Scopes)],
                           concurrency : {"none", "join", "spawn"},
                           cancel : BOOLEAN, leak : BOOLEAN]

\* The path of a scope leads to it from the outermost one, and so do the parts
\* of it to the scopes on the way.
ASSUME NestingAssumption ==
    \A x \in Settings : \A s \in Scopes :
        /\ x.path[s] # <<>> /\ x.path[s][Len(x.path[s])] = s
        /\ \A i \in 1..Len(x.path[s]) : x.path[x.path[s][i]] = SubSeq(x.path[s], 1, i)

VARIABLES
    setting,           \* the one of Settings at hand
    pc,                \* how far each scope got
    outcome,           \* what its caller got
    kind,              \* what TransactionScope::end does to the driver's transaction
    slot,              \* PendingInvalidations.savepoint_slot: the savepoint holding it
    aborted,           \* PendingInvalidations.aborted
    statement_failed,  \* PendingInvalidations.statement_failed
    undo,              \* PendingInvalidations.undo: the writes to undo in memory
    deferred,          \* PendingInvalidations.deferred: how many handles
    stmt,              \* the statement a scope runs, and its SQLite check
    stray,             \* whether a handle of the scope was kept elsewhere
    sent,              \* how many statements it sent
    memory             \* the writes the process believes are in the database

record == <<aborted, statement_failed, undo, deferred>>
vars == <<setting, connection, pc, outcome, kind, slot, record, stmt, stray, sent, memory>>

\* The scopes each is called in, from the outermost one to itself
Path == setting.path

\* What runs beside a nested transaction: nothing ("none"), futures of the
\* same task ("join"), other tasks ("spawn")
Concurrency == setting.concurrency

\* Whether the future of a scope or a statement may be dropped
MayCancel == setting.cancel

\* Whether a handle may outlive its closure
MayLeak == setting.leak

Nested(s) == Len(Path[s]) > 1
Parent(s) == IF Nested(s) THEN Path[s][Len(Path[s]) - 1] ELSE NoScope
Children(s) == {c \in Scopes : Parent(c) = s}
Within(c, s) == \E i \in 1..Len(Path[c]) : Path[c][i] = s

\* A handle kept elsewhere holds the record of its scope and so the records
\* around it.
Held(s) == \E c \in Scopes : Within(c, s) /\ stray[c] /\ pc[c] \in {"ending", "ended"}

\* Whether the future of s exists.
Alive(s) == pc[s] \notin {"unused", "over"} /\ ~(pc[s] = "ended" /\ Held(s))

\* Whether nothing holds PendingInvalidations.gate.
GateFree == \A s \in Scopes : stmt[s] = "none" /\ pc[s] \notin {"starting", "ending"}

\* Whether the closure of s is at a point where it can do something itself.
Running(s) == /\ pc[s] = "open"
              /\ Concurrency # "none" \/ \A c \in Children(s) : ~Alive(c)

\* PendingInvalidations::abort keeps the first reason.
Aborted(a, s, why) == IF s \in Scopes /\ a[s] = "none" THEN [a EXCEPT ![s] = why] ELSE a

\* Abort::ends_the_connection_transaction
EndsTheConnectionTransaction(why) == why \notin {"none", "Cancelled"}

\* Mutant: the slot is kept.
FreedNot(s) == slot

Freed(s) == IF Nested(s) THEN [slot EXCEPT ![Parent(s)] = NoScope] ELSE slot

-------------------------------------------------------------------------------
(* Executor::begin and TransactionScope::begin                             *)

\* A transaction of its own takes a connection from the pool.
Begin(s) ==
    /\ ~Nested(s) /\ pc[s] = "unused"
    /\ \A r \in Scopes : ~Alive(r) /\ ~stray[r]
    /\ pc' = [pc EXCEPT ![s] = "starting"]
    /\ UNCHANGED <<connection, outcome, kind, slot, record, stmt, stray, sent, memory>>

\* A nested one is called in the closure of another...
Call(s) ==
    /\ Nested(s) /\ pc[s] = "unused"
    /\ Running(Parent(s))
    /\ pc' = [pc EXCEPT ![s] = "waiting"]
    /\ UNCHANGED <<connection, outcome, kind, slot, record, stmt, stray, sent, memory>>

\* Mutant: the slot is not waited for.
TakeSlotTaken(s) ==
    /\ pc[s] = "waiting"
    /\ slot' = [slot EXCEPT ![Parent(s)] = s]
    /\ pc' = [pc EXCEPT ![s] = "queued"]
    /\ UNCHANGED <<connection, outcome, kind, record, stmt, stray, sent, memory>>

\* ... waits for the slot of the enclosing transaction...
TakeSlot(s) ==
    /\ pc[s] = "waiting" /\ slot[Parent(s)] = NoScope
    /\ slot' = [slot EXCEPT ![Parent(s)] = s]
    /\ pc' = [pc EXCEPT ![s] = "queued"]
    /\ UNCHANGED <<connection, outcome, kind, record, stmt, stray, sent, memory>>

\* ... and then for the connection, and is refused once it is aborted.
BeginSavepoint(s) ==
    /\ pc[s] = "queued" /\ GateFree
    /\ IF aborted[Parent(s)] = "none"
       THEN pc' = [pc EXCEPT ![s] = "starting"] /\ UNCHANGED <<outcome, slot>>
       ELSE /\ pc' = [pc EXCEPT ![s] = "over"]
            /\ outcome' = [outcome EXCEPT ![s] = "err"]
            /\ slot' = Freed(s)
    /\ UNCHANGED <<connection, kind, record, stmt, stray, sent, memory>>

\* Cancelled while it waits, it has not started.
LeaveQueue(s) ==
    /\ MayCancel /\ pc[s] \in {"waiting", "queued"}
    /\ pc' = [pc EXCEPT ![s] = "over"]
    /\ outcome' = [outcome EXCEPT ![s] = "cancelled"]
    /\ slot' = IF pc[s] = "queued" THEN Freed(s) ELSE slot
    /\ UNCHANGED <<connection, kind, record, stmt, stray, sent, memory>>

Begun(s) ==
    /\ pc[s] = "starting"
    /\ IF Nested(s) THEN SavepointServer(s) ELSE BeginServer(s)
    /\ pc' = [pc EXCEPT ![s] = "open"]
    /\ UNCHANGED <<outcome, kind, slot, record, stmt, stray, sent, memory>>

\* Mutant: the enclosing transaction is not aborted.
BeginFailsUnmarked(s, o) ==
    /\ pc[s] = "starting" /\ (o = "cancelled" => MayCancel)
    /\ pc' = [pc EXCEPT ![s] = "over"]
    /\ outcome' = [outcome EXCEPT ![s] = o]
    /\ slot' = Freed(s)
    /\ \/ Nested(s) /\ RollbackServer(1)
       \/ (~Nested(s) \/ o = "cancelled") /\ UNCHANGED connection
    /\ UNCHANGED <<kind, record, stmt, stray, sent, memory>>

\* It fails, or is dropped while it starts: the driver rolls back at the
\* enclosing depth, or, dropped after the driver had counted it, at its own.
BeginFails(s, o) ==
    /\ pc[s] = "starting" /\ (o = "cancelled" => MayCancel)
    /\ pc' = [pc EXCEPT ![s] = "over"]
    /\ outcome' = [outcome EXCEPT ![s] = o]
    /\ aborted' = Aborted(aborted, Parent(s), "Savepoint")
    /\ slot' = Freed(s)
    /\ \/ Nested(s) /\ RollbackServer(1)
       \/ (~Nested(s) \/ o = "cancelled") /\ UNCHANGED connection
    /\ UNCHANGED <<kind, statement_failed, undo, deferred, stmt, stray, sent, memory>>

-------------------------------------------------------------------------------
(* Executor: statements.  A write is known by its scope and number.        *)

LastWrite(s) == <<s, sent[s]>>

\* hold and ensure_transaction_active.  A stray handle goes on after the end
\* of its scope.
Statement(s) ==
    /\ Running(s) \/ (stray[s] /\ pc[s] = "ended")
    /\ stmt[s] = "none" /\ GateFree
    /\ aborted[s] = "none"
    /\ sent[s] < MaxStatements
    /\ stmt' = [stmt EXCEPT ![s] = "running"]
    /\ sent' = [sent EXCEPT ![s] = @ + 1]
    /\ UNCHANGED <<connection, pc, outcome, kind, slot, record, stray, memory>>

\* It succeeds; what the model layer keeps of it registers its undo.
Succeeds(s) ==
    /\ stmt[s] = "running"
    /\ WriteServer(LastWrite(s))
    /\ stmt' = [stmt EXCEPT ![s] = "none"]
    /\ memory' = memory \cup {LastWrite(s)}
    /\ undo' = [undo EXCEPT ![s] = @ \cup {LastWrite(s)}]
    /\ UNCHANGED <<pc, outcome, kind, slot, aborted, statement_failed, deferred, stray, sent>>

\* Mutant: the abort is left to the probe.
NotedLate(s, why) ==
    /\ statement_failed' = [statement_failed EXCEPT ![s] = TRUE]
    /\ stmt' = [stmt EXCEPT ![s] = IF backend = "Sqlite" THEN "checking" ELSE "none"]
    /\ UNCHANGED <<pc, outcome, kind, slot, aborted, undo, deferred, stray, sent, memory>>

\* note_failure, and on SQLite the start of check_sqlite_failure
Noted(s, why) ==
    /\ statement_failed' = [statement_failed EXCEPT ![s] = TRUE]
    /\ aborted' = Aborted(aborted, s, why)
    /\ stmt' = [stmt EXCEPT ![s] = IF backend = "Sqlite" THEN "checking" ELSE "none"]
    /\ UNCHANGED <<pc, outcome, kind, slot, undo, deferred, stray, sent, memory>>

Fails(s) ==
    /\ stmt[s] = "running"
    /\ FailServer
    /\ IF backend = "Sqlite" THEN Noted(s, "SqliteRollback")
       ELSE /\ statement_failed' = [statement_failed EXCEPT ![s] = TRUE]
            /\ stmt' = [stmt EXCEPT ![s] = "none"]
            /\ UNCHANGED <<pc, outcome, kind, slot, aborted, undo, deferred, stray, sent, memory>>

\* A deadlock, or an error after which SQLite has rolled everything back
LosesTransaction(s) ==
    /\ stmt[s] = "running"
    /\ IF backend = "Postgres" THEN FailServer ELSE LoseServer
    /\ Noted(s, IF backend = "Sqlite" THEN "SqliteRollback" ELSE "Deadlock")

\* It is dropped on the wire, and the server applies it or not.
DropStatement(s) ==
    /\ MayCancel /\ stmt[s] = "running"
    /\ UNCHANGED connection \/ WriteServer(LastWrite(s))
    /\ stmt' = [stmt EXCEPT ![s] = "none"]
    /\ UNCHANGED <<pc, outcome, kind, slot, record, stray, sent, memory>>

\* The BEGIN of check_sqlite_failure: refused inside a transaction, which
\* then goes on; otherwise empty savepoints are put back for the driver.
Rebuilt(s, n) == stack' = [i \in 1..n |-> Level(Path[s][i])]

SqliteCheck(s) ==
    /\ stmt[s] = "checking"
    /\ stmt' = [stmt EXCEPT ![s] = "none"]
    /\ IF stack # <<>>
       THEN /\ aborted' = [aborted EXCEPT ![s] = IF @ = "SqliteRollback" THEN "none" ELSE @]
            /\ UNCHANGED stack
       ELSE UNCHANGED aborted /\ Rebuilt(s, Len(Path[s]))
    /\ UNCHANGED <<backend, depth, durable, pc, outcome, kind, slot, statement_failed, undo,
                   deferred, stray, sent, memory>>

\* Dropped part way
DropCheck(s) ==
    /\ MayCancel /\ stmt[s] = "checking"
    /\ stmt' = [stmt EXCEPT ![s] = "none"]
    /\ \/ UNCHANGED stack
       \/ stack = <<>> /\ \E n \in 1..Len(Path[s]) : Rebuilt(s, n)
    /\ UNCHANGED <<backend, depth, durable, pc, outcome, kind, slot, record, stray, sent, memory>>

-------------------------------------------------------------------------------
(* TransactionScope::end                                                   *)

\* A handle of s is kept past its closure.
Leak(s) ==
    /\ MayLeak /\ Running(s) /\ ~stray[s]
    /\ stray' = [stray EXCEPT ![s] = TRUE]
    /\ UNCHANGED <<connection, pc, outcome, kind, slot, record, stmt, sent, memory>>

\* Mutant: an aborted transaction commits.
EndAborted(s, ok) ==
    /\ pc[s] = "open" /\ GateFree
    /\ \A c \in Children(s) : ~Alive(c)
    /\ RollbackServer(deferred[s])
    /\ deferred' = [deferred EXCEPT ![s] = 0]
    /\ pc' = [pc EXCEPT ![s] = "ending"]
    /\ kind' = [kind EXCEPT ![s] =
           IF stray[s] THEN "leak"
           ELSE IF ~ok THEN "rollback"
           ELSE IF statement_failed[s] /\ TopFailed' THEN "rollback"
           ELSE "commit"]
    /\ UNCHANGED <<outcome, slot, aborted, statement_failed, undo, stmt, stray, sent, memory>>

\* Mutant: the commit is not asked for first.
EndUnprobed(s, ok) ==
    /\ pc[s] = "open" /\ GateFree
    /\ \A c \in Children(s) : ~Alive(c)
    /\ RollbackServer(deferred[s])
    /\ deferred' = [deferred EXCEPT ![s] = 0]
    /\ pc' = [pc EXCEPT ![s] = "ending"]
    /\ kind' = [kind EXCEPT ![s] =
           IF stray[s] THEN "leak"
           ELSE IF ~ok \/ aborted[s] # "none" THEN "rollback"
           ELSE "commit"]
    /\ UNCHANGED <<outcome, slot, aborted, statement_failed, undo, stmt, stray, sent, memory>>

\* The closure has returned; the connection is taken, the savepoints left
\* behind are rolled back, and what to do with this one is decided.
End(s, ok) ==
    /\ pc[s] = "open" /\ GateFree
    /\ \A c \in Children(s) : ~Alive(c)
    /\ RollbackServer(deferred[s])
    /\ deferred' = [deferred EXCEPT ![s] = 0]
    /\ pc' = [pc EXCEPT ![s] = "ending"]
    /\ kind' = [kind EXCEPT ![s] =
           IF stray[s] THEN "leak"
           ELSE IF ~ok \/ aborted[s] # "none" THEN "rollback"
           ELSE IF statement_failed[s] /\ TopFailed' THEN "rollback"
           ELSE "commit"]
    /\ UNCHANGED <<outcome, slot, aborted, statement_failed, undo, stmt, stray, sent, memory>>

Finish(s, o) ==
    /\ pc' = [pc EXCEPT ![s] = "ended"]
    /\ outcome' = [outcome EXCEPT ![s] = o]
    /\ slot' = Freed(s)
    /\ UNCHANGED <<kind, statement_failed, deferred, stmt, stray, sent, memory>>

\* Mutant: the undo steps of a nested transaction are dropped.
CommittedDiscards(s) ==
    /\ pc[s] = "ending" /\ kind[s] = "commit"
    /\ IF depth > 1 THEN ReleaseServer ELSE CommitServer
    /\ undo' = [undo EXCEPT ![s] = {}]
    /\ UNCHANGED aborted
    /\ Finish(s, "ok")

\* commit: the record is replayed, which hands its undo to the enclosing one.
Committed(s) ==
    /\ pc[s] = "ending" /\ kind[s] = "commit"
    /\ IF depth > 1 THEN ReleaseServer ELSE CommitServer
    /\ undo' = [t \in Scopes |-> IF t = s THEN {}
                                 ELSE IF t = Parent(s) THEN undo[t] \cup undo[s]
                                 ELSE undo[t]]
    /\ UNCHANGED aborted
    /\ Finish(s, "ok")

\* commit fails: its handle drops, which rolls back, unless the server had
\* committed and only the answer was lost.
CommitFails(s) ==
    /\ pc[s] = "ending" /\ kind[s] = "commit"
    /\ RollbackServer(1) \/ (depth = 1 /\ CommitServer)
    /\ UNCHANGED <<undo, aborted>>
    /\ Finish(s, IF depth = 1 THEN "unknown" ELSE "err")

RolledBack(s) ==
    /\ pc[s] = "ending" /\ kind[s] = "rollback"
    /\ RollbackServer(1)
    /\ UNCHANGED <<undo, aborted>>
    /\ Finish(s, "err")

\* Mutant: no BEGIN follows the ROLLBACK.
LeakEndedClosed(s) ==
    /\ pc[s] = "ending" /\ kind[s] = "leak"
    /\ IF ~Nested(s) /\ backend # "Sqlite" THEN stack' = <<>> /\ UNCHANGED <<backend, depth, durable>>
       ELSE UNCHANGED connection
    /\ aborted' = Aborted(aborted, Parent(s), "Leaked")
    /\ UNCHANGED undo
    /\ Finish(s, "err")

\* end_leaked_transaction, and SavepointEnd::leaked
LeakEnded(s) ==
    /\ pc[s] = "ending" /\ kind[s] = "leak"
    /\ IF ~Nested(s) /\ backend # "Sqlite" THEN ReopenServer(s) ELSE UNCHANGED connection
    /\ aborted' = Aborted(aborted, Parent(s), "Leaked")
    /\ UNCHANGED undo
    /\ Finish(s, "err")

\* The drop of the record: what did not commit is undone, an abort and the
\* savepoints left behind go to the enclosing record.  A stray handle keeps
\* the record.
Returning(s) == pc[s] = "ended" /\ ~Held(s) /\ \A c \in Children(s) : pc[c] # "ended"

DropRecord(s) ==
    LET a == IF outcome[s] # "ok" /\ EndsTheConnectionTransaction(aborted[s])
             THEN Aborted(aborted, Parent(s), aborted[s]) ELSE aborted
        left == deferred[s] > 0 /\ ~GateFree /\ Nested(s)
    IN  /\ Returning(s)
        /\ pc' = [pc EXCEPT ![s] = "over"]
        /\ memory' = memory \ undo[s]
        /\ undo' = [undo EXCEPT ![s] = {}]
        /\ aborted' = IF left THEN Aborted(a, Parent(s), "Cancelled") ELSE a
        /\ deferred' = IF left THEN [deferred EXCEPT ![s] = 0, ![Parent(s)] = @ + deferred[s]]
                       ELSE [deferred EXCEPT ![s] = 0]
        /\ IF left THEN UNCHANGED connection ELSE RollbackServer(deferred[s])
        /\ UNCHANGED <<outcome, kind, slot, statement_failed, stmt, stray, sent>>

\* Mutant: the driver does not roll back.
DropStrayForgotten(s) ==
    /\ stray[s] /\ pc[s] = "ended" /\ stmt[s] = "none" /\ GateFree
    /\ stray' = [stray EXCEPT ![s] = FALSE]
    /\ UNCHANGED <<connection, pc, outcome, kind, slot, record, stmt, sent, memory>>

\* The last stray handle of a scope that has ended drops: the driver rolls
\* back.
DropStray(s) ==
    /\ stray[s] /\ pc[s] = "ended" /\ stmt[s] = "none" /\ GateFree
    /\ stray' = [stray EXCEPT ![s] = FALSE]
    /\ RollbackServer(1)
    /\ UNCHANGED <<pc, outcome, kind, slot, record, stmt, sent, memory>>

-------------------------------------------------------------------------------
(* Cancellation                                                            *)

\* The future of s is dropped while its closure runs; the futures inside it
\* drop first.  With the connection free its handle and those it kept roll
\* back; otherwise they go to the enclosing transaction, which is aborted.  A
\* stray handle keeps the savepoint and its record; it is idle then.
Cancel(s) ==
    LET left == ~GateFree
        held == stray[s] \/ Held(s)
        a == IF left THEN Aborted(aborted, Parent(s), "Cancelled") ELSE aborted
    IN  /\ MayCancel /\ pc[s] = "open" /\ stmt[s] = "none"
        /\ \A c \in Children(s) : ~Alive(c)
        /\ left => Nested(s) /\ ~held
        /\ pc' = [pc EXCEPT ![s] = IF held THEN "ended" ELSE "over"]
        /\ outcome' = [outcome EXCEPT ![s] = "cancelled"]
        /\ slot' = Freed(s)
        /\ IF held
           THEN /\ RollbackServer(IF stray[s] THEN 0 ELSE 1)
                /\ UNCHANGED <<aborted, undo, memory, deferred>>
           ELSE /\ memory' = memory \ undo[s]
                /\ undo' = [undo EXCEPT ![s] = {}]
                /\ aborted' = IF EndsTheConnectionTransaction(aborted[s])
                              THEN Aborted(a, Parent(s), aborted[s]) ELSE a
                /\ IF left
                   THEN /\ deferred' = [deferred EXCEPT ![s] = 0,
                                                        ![Parent(s)] = @ + 1 + deferred[s]]
                        /\ UNCHANGED connection
                   ELSE /\ deferred' = [deferred EXCEPT ![s] = 0]
                        /\ RollbackServer(1 + deferred[s])
        /\ UNCHANGED <<kind, statement_failed, stmt, stray, sent>>

\* ... while end_leaked_transaction ends it, which it does to a transaction of
\* its own only.
CancelLeakEnding(s) ==
    /\ MayCancel /\ pc[s] = "ending" /\ kind[s] = "leak"
    /\ ~Nested(s) /\ backend # "Sqlite"
    /\ pc' = [pc EXCEPT ![s] = "ended"]
    /\ outcome' = [outcome EXCEPT ![s] = "cancelled"]
    /\ \/ UNCHANGED stack
       \/ stack' = <<>>
       \/ stack' = <<Level(s)>>
    /\ UNCHANGED <<backend, depth, durable, kind, slot, record, stmt, stray, sent, memory>>

\* ... while it commits or rolls back: SavepointEnd aborts the enclosing one.
\* The server has done it or not; the driver rolls back once more.
CancelEnding(s) ==
    LET a == Aborted(aborted, Parent(s), "Savepoint")
    IN  /\ MayCancel /\ pc[s] = "ending" /\ kind[s] # "leak"
        /\ pc' = [pc EXCEPT ![s] = IF Held(s) THEN "ended" ELSE "over"]
        /\ outcome' = [outcome EXCEPT ![s] = IF kind[s] = "commit" /\ depth = 1
                                             THEN "unknown" ELSE "cancelled"]
        /\ \/ RollbackServer(1)
           \/ Nested(s) /\ RollbackServer(2)
           \/ kind[s] = "commit" /\ depth = 1 /\ CommitServer
        /\ IF Held(s) THEN aborted' = a /\ UNCHANGED <<undo, memory>>
           ELSE /\ memory' = memory \ undo[s]
                /\ undo' = [undo EXCEPT ![s] = {}]
                /\ aborted' = IF EndsTheConnectionTransaction(aborted[s])
                              THEN Aborted(a, Parent(s), aborted[s]) ELSE a
        /\ slot' = Freed(s)
        /\ UNCHANGED <<kind, statement_failed, deferred, stmt, stray, sent>>

-------------------------------------------------------------------------------
Init ==
    /\ setting \in Settings
    /\ InitConnection /\ backend \in setting.backends
    /\ pc = [s \in Scopes |-> "unused"]
    /\ outcome = [s \in Scopes |-> "none"]
    /\ kind = [s \in Scopes |-> "none"]
    /\ slot = [s \in Scopes |-> NoScope]
    /\ aborted = [s \in Scopes |-> "none"]
    /\ statement_failed = [s \in Scopes |-> FALSE]
    /\ undo = [s \in Scopes |-> {}]
    /\ deferred = [s \in Scopes |-> 0]
    /\ stmt = [s \in Scopes |-> "none"]
    /\ stray = [s \in Scopes |-> FALSE]
    /\ sent = [s \in Scopes |-> 0]
    /\ memory = {}

Runs(s) ==
    \/ Begin(s) \/ Call(s) \/ TakeSlot(s) \/ BeginSavepoint(s) \/ Begun(s)
    \/ BeginFails(s, "err")
    \/ Statement(s) \/ Succeeds(s) \/ Fails(s) \/ LosesTransaction(s) \/ SqliteCheck(s)
    \/ Leak(s) \/ DropStray(s)
    \/ \E ok \in BOOLEAN : End(s, ok)
    \/ Committed(s) \/ CommitFails(s) \/ RolledBack(s) \/ LeakEnded(s) \/ DropRecord(s)

Dropped(s) ==
    \/ LeaveQueue(s) \/ BeginFails(s, "cancelled") \/ DropStatement(s) \/ DropCheck(s)
    \/ Cancel(s) \/ CancelEnding(s) \/ CancelLeakEnding(s)

\* Only another thread runs between the release of the gate and the drop of
\* the record.
MayStep(s) == Concurrency = "spawn" \/ Returning(s) \/ \A t \in Scopes : ~Returning(t)

Progress == \E s \in Scopes : MayStep(s) /\ Runs(s)
Next == UNCHANGED setting /\ (Progress \/ \E s \in Scopes : MayStep(s) /\ Dropped(s))

Spec == Init /\ [][Next]_vars

\* The runtime goes on polling and the closures return; nobody has to drop a
\* future for that.
FairSpec == Spec /\ WF_vars(Progress /\ UNCHANGED setting)

-------------------------------------------------------------------------------
(* Properties                                                              *)

Reasons == {"none", "Deadlock", "SqliteRollback", "Savepoint", "Cancelled", "Leaked"}
Levels == [scope : Scopes, writes : SUBSET (Scopes \X Nat), failed : BOOLEAN]

\* The driver's depth, the server's stack and the records of the scopes
\* (PendingInvalidations) are well typed.
TypeOK ==
    /\ setting \in Settings /\ backend \in Backends
    /\ depth \in Nat
    /\ stack \in Seq(Levels)
    /\ durable \subseteq Scopes \X Nat
    /\ pc \in [Scopes -> {"unused", "waiting", "queued", "starting", "open", "ending", "ended",
                        "over"}]
    /\ outcome \in [Scopes -> {"none", "ok", "err", "cancelled", "unknown"}]
    /\ kind \in [Scopes -> {"none", "commit", "rollback", "leak"}]
    /\ slot \in [Scopes -> Scopes \cup {NoScope}]
    /\ aborted \in [Scopes -> Reasons]
    /\ statement_failed \in [Scopes -> BOOLEAN]
    /\ undo \in [Scopes -> SUBSET (Scopes \X Nat)]
    /\ deferred \in [Scopes -> Nat]
    /\ stmt \in [Scopes -> {"none", "running", "checking"}]
    /\ stray \in [Scopes -> BOOLEAN]
    /\ sent \in [Scopes -> 0..MaxStatements]
    /\ memory \subseteq Scopes \X Nat

\* Handles may outlive their closure, or futures be dropped, but not both: a
\* stray handle whose scope was cancelled commits what it sends by itself.
Orderly == ~(setting.leak /\ setting.cancel)

\* A statement reaches the server only inside its own transaction: never after
\* that was rolled back underneath TideORM, where it would commit by itself,
\* and never inside a savepoint left behind (Executor refuses it).  A stray
\* handle of a scope that has ended still finds a transaction.
StatementsStayInside ==
    Orderly => \A s \in Scopes : stmt[s] = "running" =>
        /\ stack # <<>>
        /\ \/ pc[s] = "ended"
           \/ Top.scope = s
           \/ Within(Top.scope, s) /\ pc[Top.scope] = "open"

\* A commit ends the savepoint or transaction it belongs to and no other one
\* (the slot of Executor::begin; the driver only knows how many are open).
CommitsItsOwn ==
    Orderly => \A s \in Scopes : pc[s] = "ending" /\ kind[s] = "commit" => stack # <<>> /\ Top.scope = s

\* Once a transaction has returned Ok, what the process believes it wrote is
\* in the database.
OkMeansCommitted ==
    Orderly => \A w \in memory : outcome[Path[w[1]][1]] = "ok" => w \in durable

\* What is in the database was written by scopes that committed, up to the
\* outermost one; only the outermost commit may have an unknown outcome.
OnlyCommittedIsDurable ==
    Orderly => \A w \in durable : \A t \in Scopes : Within(w[1], t) =>
        outcome[t] = "ok" \/ (outcome[t] = "unknown" /\ ~Nested(t))

\* A scope that did not commit leaves nothing behind: what it changed in memory
\* is undone once it is over (PendingInvalidations::drop and the undo steps), and
\* the connection goes back to the pool with no transaction open once no scope
\* and no stray handle is left (end_leaked_transaction, LeakedRollback).
LeavesNothing ==
    /\ \A w \in memory : \A t \in Scopes : Within(w[1], t) /\ pc[t] = "over" => outcome[t] = "ok"
    /\ (\A s \in Scopes : ~Alive(s) /\ ~stray[s]) => depth = 0 /\ stack = <<>>

\* Neither the slots nor the gate keep a scope from ending.
EveryScopeEnds == \A s \in Scopes : pc[s] # "unused" ~> pc[s] = "over"
===============================================================================
