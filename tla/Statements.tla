------------------------------ MODULE Statements ------------------------------
(***************************************************************************)
(* What the prepared statement cache remembers of the statements that ran  *)
(* (src/src/cache/prepared_statements.rs): one slot per hash, which two    *)
(* statements may share, and how often the statement in it ran.  A task    *)
(* reads the switch and the configuration before it takes the lock, and    *)
(* both may change in between.  Durations and the four counters are left   *)
(* out: nothing reads them.                                                *)
(***************************************************************************)
EXTENDS Integers, FiniteSets

CONSTANTS
    Sqls,
    Hash,           \* hash_sql: of each statement
    Limits,         \* max_statements a configuration may have
    Callers,
    NoSlot,
    MaxUses         \* bound on the clock, which ticks with every use

VARIABLES
    slots,          \* by hash: [sql, prepared_at, last_used, execution_count], or NoSlot
    max_statements,
    on,             \* the switch, Toggle's atomic
    calls,          \* of each caller: what it registers and the limit it read, or NoSlot
    uses,           \* the clock
    ran             \* the executions of each statement, by when

statement_vars == <<slots, max_statements, on, calls, uses, ran>>

MaxAge == 2
Hashes == {Hash[sql] : sql \in Sqls}
Held(s) == {h \in Hashes : s[h] # NoSlot}

StatementInit ==
    /\ slots = [h \in Hashes |-> NoSlot]
    /\ max_statements \in Limits
    /\ on = TRUE
    /\ calls = [c \in Callers |-> NoSlot]
    /\ uses = 0
    /\ ran = [sql \in Sqls |-> {}]

\* PreparedStatement::new, record_execution
Fresh(sql) == [sql |-> sql, prepared_at |-> uses, last_used |-> uses, execution_count |-> 0]
Executed(slot) == [slot EXCEPT !.last_used = uses, !.execution_count = @ + 1]

\* Mutant: one hash is one statement.
IsHit_by_hash(sql) == slots[Hash[sql]] # NoSlot /\ uses - slots[Hash[sql]].prepared_at < MaxAge

IsHit(sql) ==
    /\ slots[Hash[sql]] # NoSlot
    /\ slots[Hash[sql]].sql = sql
    /\ uses - slots[Hash[sql]].prepared_at < MaxAge

\* Mutant: any statement may go.
Oldest_any(s) == Held(s)
Oldest(s) == {h \in Held(s) : \A other \in Held(s) : s[h].last_used <= s[other].last_used}

\* Mutant: room is made for one more than there may be.
EnoughRoom_for_one_more(s, limit) == Cardinality(Held(s)) <= limit
EnoughRoom(s, limit) == Cardinality(Held(s)) < limit

\* What dropping the oldest, one after another, may leave
RECURSIVE Evicted(_, _)
Evicted(s, limit) ==
    IF EnoughRoom(s, limit) THEN {s}
    ELSE UNION {Evicted([s EXCEPT ![h] = NoSlot], limit) : h \in Oldest(s)}

\* register, once it has the lock: `executed` when it is told of an execution
register(sql, limit, executed) ==
    LET removed == [slots EXCEPT ![Hash[sql]] = NoSlot]
        Timed(s) == IF executed /\ s[Hash[sql]] # NoSlot THEN [s EXCEPT ![Hash[sql]] = Executed(@)] ELSE s
    IN  /\ IF IsHit(sql) THEN slots' = Timed([slots EXCEPT ![Hash[sql]].last_used = uses])
           ELSE IF limit = 0 THEN slots' = Timed(removed)
           ELSE \E left \in Evicted(removed, limit) : slots' = Timed([left EXCEPT ![Hash[sql]] = Fresh(sql)])
        /\ ran' = [ran EXCEPT ![sql] = IF executed THEN @ \cup {uses} ELSE @]

\* observe_execution and get_or_prepare: the switch, the configuration, the lock
Call(c, sql, executed) ==
    /\ calls[c] = NoSlot /\ on
    /\ calls' = [calls EXCEPT ![c] = [sql |-> sql, executed |-> executed, limit |-> max_statements]]
    /\ UNCHANGED <<slots, max_statements, on, uses, ran>>
Register(c) ==
    /\ calls[c] # NoSlot /\ uses < MaxUses
    /\ register(calls[c].sql, calls[c].limit, calls[c].executed)
    /\ calls' = [calls EXCEPT ![c] = NoSlot]
    /\ uses' = uses + 1
    /\ UNCHANGED <<max_statements, on>>

\* Mutant: an execution is counted in whatever slot is there.
record_execution_by_hash(sql) ==
    /\ on /\ uses < MaxUses
    /\ slots' = IF slots[Hash[sql]] # NoSlot THEN [slots EXCEPT ![Hash[sql]] = Executed(@)] ELSE slots
    /\ ran' = [ran EXCEPT ![sql] = @ \cup {uses}]
    /\ uses' = uses + 1
    /\ UNCHANGED <<max_statements, on, calls>>

record_execution(sql) ==
    /\ on /\ uses < MaxUses
    /\ slots' = IF slots[Hash[sql]] # NoSlot /\ slots[Hash[sql]].sql = sql
                THEN [slots EXCEPT ![Hash[sql]] = Executed(@)] ELSE slots
    /\ ran' = [ran EXCEPT ![sql] = @ \cup {uses}]
    /\ uses' = uses + 1
    /\ UNCHANGED <<max_statements, on, calls>>

invalidate(sql) ==
    /\ slots[Hash[sql]] # NoSlot /\ slots[Hash[sql]].sql = sql
    /\ slots' = [slots EXCEPT ![Hash[sql]] = NoSlot]
    /\ UNCHANGED <<max_statements, on, calls, uses, ran>>

clear ==
    /\ slots' = [h \in Hashes |-> NoSlot]
    /\ UNCHANGED <<max_statements, on, calls, uses, ran>>

\* set_max_statements and apply_config; enable and disable
set_max_statements(n) == max_statements' = n /\ UNCHANGED <<slots, on, calls, uses, ran>>
set_enabled(b) == on' = b /\ UNCHANGED <<slots, max_statements, calls, uses, ran>>

StatementNext ==
    \/ \E c \in Callers, sql \in Sqls, executed \in BOOLEAN : Call(c, sql, executed)
    \/ \E c \in Callers : Register(c)
    \/ \E sql \in Sqls : record_execution(sql) \/ invalidate(sql)
    \/ clear
    \/ \E n \in Limits : set_max_statements(n)
    \/ \E b \in BOOLEAN : set_enabled(b)

-------------------------------------------------------------------------------
(* Properties                                                              *)

\* A slot tells of its own statement: it counts exactly the executions since
\* it was prepared, none of a statement with the same hash and none before an
\* eviction or an invalidation (register, record_execution).
CountsAreTheirOwn ==
    \A h \in Held(slots) :
        /\ Hash[slots[h].sql] = h
        /\ slots[h].execution_count = Cardinality({t \in ran[slots[h].sql] : t >= slots[h].prepared_at})
        /\ slots[h].last_used >= slots[h].prepared_at

\* A registration keeps the limit it read, and makes room by dropping what was
\* used longest ago: nothing stays that was used before something it dropped.
RoomIsMadeInOrder ==
    \A c \in Callers :
        calls[c] # NoSlot /\ calls'[c] = NoSlot =>
            LET own == Hash[calls[c].sql]
                gone == (Held(slots) \ Held(slots')) \ {own}
            IN  /\ Held(slots') # Held(slots) => Cardinality(Held(slots')) <= calls[c].limit \/ calls[c].limit = 0
                /\ \A h \in gone, stays \in Held(slots') \ {own} : slots[h].last_used <= slots[stays].last_used
                /\ gone # {} => Cardinality(Held(slots')) = calls[c].limit
===============================================================================
