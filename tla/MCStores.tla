------------------------------- MODULE MCStores -------------------------------
(***************************************************************************)
(* CacheStore, Statements and DirtyTracking for TLC, one at a time: `part` *)
(* says which one a behaviour is about.                                    *)
(***************************************************************************)
EXTENDS DirtyTracking, TLC

CONSTANTS k1, k2, k3, t1, t2, v1, v2, o1, o2, row1, row2, w1, r1

VARIABLES
    part,
    cached, config, order_counter, clock, storing, lookup,
    slots, max_statements, on, calls, uses, ran

c_vars == <<cached, config, order_counter, clock, storing, lookup>>
s_vars == <<slots, max_statements, on, calls, uses, ran>>
all == <<part, c_vars, vars, s_vars>>

-------------------------------------------------------------------------------
(* CacheStore                                                              *)

Keys == {k1, k2, k3}

\* One that lasts, and a larger one of another type that does not
LongAndShort == {[kind |-> "rows", size |-> 1, ttl |-> 2],
                 [kind |-> "count", size |-> 3, ttl |-> 1]}

Config(strategy, max_entries, max_size_bytes) ==
    [strategy |-> strategy, max_entries |-> max_entries, max_size_bytes |-> max_size_bytes]

\* Every strategy, with an entry budget or a byte budget
Budgets == {Config("LRU", 2, 0), Config("FIFO", 2, 3), Config("TTL", 2, 2)}

MaxOrder == 4

C == INSTANCE CacheStore WITH
         Kinds <- {"rows", "count"}, Payloads <- LongAndShort, Wanted <- {"rows"},
         Configs <- Budgets, Storers <- {w1}, Readers <- {r1}, Multiplier <- 1, Slack <- 1,
         MaxClock <- 1, store <- cached

-------------------------------------------------------------------------------
(* Statements: two share a hash, the others have their own                 *)

S == INSTANCE Statements WITH
         Sqls <- {v1, v2} \cup Keys, Hash <- [sql \in {v1, v2} \cup Keys |-> IF sql \in Keys THEN sql ELSE Forgotten],
         Limits <- {0, 2}, Callers <- {t1}, NoSlot <- NoEntry, MaxUses <- 3

-------------------------------------------------------------------------------
(* DirtyTracking: two rows of one model                                    *)

OneModel == [row \in {row1, row2} |-> "model"]

\* One row that two pools have, and one that only one of them has
OneShared == {<<row1, o1>>, <<row1, o2>>, <<row2, o1>>}

\* A transaction with a savepoint beside a task without one
SavepointBesideTask == t1 :> 2 @@ t2 :> 0
SameValues == [t \in {t1, t2} |-> {v1, v2}]

\* Two transactions, each with values of its own
TwoTransactions == t1 :> 1 @@ t2 :> 1
OwnValues == t1 :> {v1} @@ t2 :> {v2}

-------------------------------------------------------------------------------
Symmetric == Permutations(Keys) \cup Permutations({v1, v2})

NoCache ==
    /\ cached = NoEntry /\ config = NoEntry /\ order_counter = 0 /\ clock = 0
    /\ storing = NoEntry /\ lookup = NoEntry
NoStatements == slots = NoEntry /\ max_statements = 0 /\ on = TRUE /\ calls = NoEntry /\ uses = 0 /\ ran = NoEntry

MCInit ==
    /\ part \in {"cache", "baselines", "statements"}
    /\ Init
    /\ IF part = "cache" THEN C!Init ELSE NoCache
    /\ IF part = "statements" THEN S!StatementInit ELSE NoStatements

\* A bound: only LRU, which numbers accesses too, uses the last order number,
\* with which a behaviour ends.
LastOrderIsForLRU == order_counter' = MaxOrder => config.strategy = "LRU"

CacheStep ==
    part = "cache" /\ order_counter < MaxOrder /\ C!Next /\ LastOrderIsForLRU /\ UNCHANGED <<part, vars, s_vars>>
BaselineStep == part = "baselines" /\ Next /\ UNCHANGED <<part, c_vars, s_vars>>
StatementStep == part = "statements" /\ S!StatementNext /\ UNCHANGED <<part, c_vars, vars>>

MCNext == CacheStep \/ BaselineStep \/ StatementStep

MCSpec == MCInit /\ [][MCNext]_all

\* Dirty tracking alone
OverlapSpec ==
    /\ part = "baselines" /\ NoCache /\ NoStatements /\ Init
    /\ [][BaselineStep]_all

\* CacheStore!Indexed: after every operation the indexes, orders and sizes the
\* cache keeps beside its entries agree with them;
\* Statements!CountsAreTheirOwn: a slot counts its own statement's executions.
StoresAgree ==
    /\ part = "cache" => C!Indexed
    /\ part = "statements" => S!CountsAreTheirOwn
\* CacheStore!BudgetsHold, EvictsFirst and LookupsKeepGoodEntries: a store leaves
\* the cache inside its budgets, by dropping what its strategy puts first, and a
\* lookup drops no entry that is good.  Statements!RoomIsMadeInOrder: nor does
\* a statement go before one used earlier, or more than there must.
RoomIsMade ==
    [][/\ part = "cache" => C!EntriesLeaveInOrder
       /\ part = "statements" => S!RoomIsMadeInOrder]_all
===============================================================================
