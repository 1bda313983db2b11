------------------------------ MODULE QueryCache ------------------------------
(***************************************************************************)
(* The process-wide query-result cache: the store, the fill points that    *)
(* keep a slow read from caching rows a write has replaced meanwhile, and  *)
(* the invalidations of writes and of transactions, which repeat theirs    *)
(* once they have committed.                                               *)
(*                                                                         *)
(* A relation is a table of one database.  Its content is a version        *)
(* number: what the cache may never do is answer with a version older than *)
(* the last one some returned call has announced.                          *)
(*                                                                         *)
(* Sources: cache/query_cache.rs, cache/query_cache/store.rs,              *)
(* cache/query_cache/pending.rs, cache/toggle.rs, database/cache_scope.rs, *)
(* query/sql/execution.rs (get), database/transaction.rs (invalidating).   *)
(***************************************************************************)
EXTENDS Integers, FiniteSets

CONSTANTS
    Databases,     \* invalidation domains (cache_scope::identify)
    Tables,        \* folded table names, the tags of an entry
    Relations,     \* the tables of each database, as pairs
    Pools,         \* connection pools
    Keys,          \* cache keys: one per query and pool
    Readers,       \* tasks inside QueryBuilder::get
    Writers,       \* tasks inside a write or a transaction
    NoDatabase,    \* a scope of None
    NoEntry,       \* no entry under a key
    Home,          \* Home[p]: the database pool p was opened on
    KeyPool,       \* KeyPool[k]: the pool query k runs on
    KeyReads,      \* KeyReads[k]: the relations query k reads
    AttachPools,   \* pools the program runs ATTACH on (SQLite)
    HistoryLimit,  \* INVALIDATION_HISTORY_LIMIT
    MaxVersion,    \* bound on the writes of a relation
    MaxSeq         \* bound on invalidation_seq for optional invalidations

ASSUME NamesAssumption ==
    /\ Relations \subseteq Databases \X Tables
    /\ NoDatabase \notin Databases
    /\ Home \in [Pools -> Databases]
    /\ KeyPool \in [Keys -> Pools]
    /\ KeyReads \in [Keys -> SUBSET Relations]
    /\ AttachPools \subseteq Pools

\* A pool that never attaches another database reads its own one only.
ASSUME ReachAssumption ==
    \A k \in Keys, x \in Relations :
        x \in KeyReads[k] /\ KeyPool[k] \notin AttachPools => x[1] = Home[KeyPool[k]]

ASSUME BoundsAssumption ==
    HistoryLimit \in Nat /\ MaxVersion \in Nat /\ MaxSeq \in Nat

VARIABLES
    enabled,                  \* Toggle.enabled
    entries,                  \* CacheStore.entries
    invalidation_seq,
    invalidated_at,           \* 0: no marker for the table
    invalidated_databases,    \* 0: no marker for the database
    unscoped_invalidated_at,
    cleared_at,
    cache_scope,              \* per pool, the domain its statements belong to
    rpc, rkey, fill_point, rows,        \* readers
    wpc, wpool, wrote, pending,         \* writers and their records
    data, floor, acked        \* content; history variables (see below)

store == <<entries, invalidation_seq, invalidated_at, invalidated_databases,
           unscoped_invalidated_at, cleared_at>>
readers == <<rpc, rkey, fill_point, rows>>
writers == <<wpc, wpool, wrote, pending>>
vars == <<enabled, store, cache_scope, readers, writers, data, floor, acked>>

Scope == Databases \cup {NoDatabase}
Nothing == [all |-> FALSE, databases |-> {}, tables |-> {}]
Rows(k) == [x \in KeyReads[k] |-> data[x]]
Entry(k) == [database : Scope, seen : [KeyReads[k] -> Nat]]

KeyTables(k) == {x[2] : x \in KeyReads[k]}

\* An ATTACH on pool p has been observed but not run.
Attaching(p) == \E w \in Writers : wpool[w] = p /\ wpc[w] = "sent" /\ DOMAIN wrote[w] = {}

\* What statements on pool p can reach now: an attached database only once
\* the ATTACH has run.
Reach(p) == {x \in Relations : \/ x[1] = Home[p]
                               \/ cache_scope[p] = NoDatabase /\ ~Attaching(p)}

Larger(a, b) == IF a > b THEN a ELSE b

-------------------------------------------------------------------------------
(* CacheStore: every operation below runs under its write lock.            *)

\* note_invalidated: the history keeps HistoryLimit names; one more puts a
\* barrier in front of every read that has started.
NoteInvalidated(t) ==
    LET seq == invalidation_seq + 1
        full == /\ Cardinality({u \in Tables : invalidated_at[u] # 0}) >= HistoryLimit
                /\ invalidated_at[t] = 0
    IN  /\ invalidation_seq' = seq
        /\ cleared_at' = IF full THEN seq ELSE cleared_at
        /\ invalidated_at' = [u \in Tables |-> IF u = t THEN seq
                                               ELSE IF full THEN 0
                                               ELSE invalidated_at[u]]
        /\ UNCHANGED <<invalidated_databases, unscoped_invalidated_at>>

\* Mutant: the full history is dropped without a barrier.
NoteDatabaseInvalidatedNoBarrier(d) ==
    LET seq == invalidation_seq + 1
        full == /\ Cardinality({e \in Databases : invalidated_databases[e] # 0}) >= HistoryLimit
                /\ invalidated_databases[d] = 0
    IN  /\ invalidation_seq' = seq
        /\ unscoped_invalidated_at' = seq
        /\ invalidated_databases' = [e \in Databases |-> IF e = d THEN seq
                                                         ELSE IF full THEN 0
                                                         ELSE invalidated_databases[e]]
        /\ UNCHANGED <<invalidated_at, cleared_at>>

NoteDatabaseInvalidated(d) ==
    LET seq == invalidation_seq + 1
        full == /\ Cardinality({e \in Databases : invalidated_databases[e] # 0}) >= HistoryLimit
                /\ invalidated_databases[d] = 0
    IN  /\ invalidation_seq' = seq
        /\ unscoped_invalidated_at' = seq
        /\ cleared_at' = IF full THEN seq ELSE cleared_at
        /\ invalidated_databases' = [e \in Databases |-> IF e = d THEN seq
                                                         ELSE IF full THEN 0
                                                         ELSE invalidated_databases[e]]
        /\ UNCHANGED invalidated_at

RemoveWhere(K) == entries' = [k \in Keys |-> IF k \in K THEN NoEntry ELSE entries[k]]

\* History variable: the content of the covered relations when they were
\* last invalidated.
Covered(X) == floor' = [x \in Relations |-> IF x \in X THEN data[x] ELSE floor[x]]

\* QueryCache::invalidate_model, without what it records
InvalidateTable(t) ==
    /\ NoteInvalidated(t)
    /\ RemoveWhere({k \in Keys : t \in KeyTables(k)})
    /\ Covered({x \in Relations : x[2] = t})

\* Mutant: the scope of an entry is not looked at.
InvalidateDatabaseEverywhere(d) ==
    /\ NoteDatabaseInvalidated(d)
    /\ RemoveWhere(Keys)
    /\ Covered({x \in Relations : x[1] = d})

\* QueryCache::invalidate_database, without what it records
InvalidateDatabase(d) ==
    /\ NoteDatabaseInvalidated(d)
    /\ RemoveWhere({k \in Keys : /\ entries[k] # NoEntry
                                 /\ entries[k].database \in {NoDatabase, d}})
    /\ Covered({x \in Relations : x[1] = d})

\* QueryCache::clear, without what it records.  unscoped_invalidated_at stays.
ClearStore ==
    /\ entries' = [k \in Keys |-> NoEntry]
    /\ invalidation_seq' = invalidation_seq + 1
    /\ cleared_at' = invalidation_seq + 1
    /\ invalidated_at' = [t \in Tables |-> 0]
    /\ invalidated_databases' = [d \in Databases |-> 0]
    /\ UNCHANGED unscoped_invalidated_at
    /\ Covered(Relations)

\* The drop of ConnectionRef::invalidating's guard on a pool of scope s
InvalidateScope(s) == IF s = NoDatabase THEN ClearStore ELSE InvalidateDatabase(s)

InvalidatedSince(point, tables) ==
    \/ cleared_at > point.sequence
    \/ /\ point.database # NoDatabase
       /\ invalidated_databases[point.database] > point.sequence
    \/ /\ point.database = NoDatabase
       /\ unscoped_invalidated_at > point.sequence
    \/ \E t \in tables : invalidated_at[t] > point.sequence

NoPoint == [sequence |-> 0, database |-> NoDatabase]

-------------------------------------------------------------------------------
(* Readers: QueryBuilder::get outside a transaction                        *)

\* A miss, or a disabled cache: the pool's scope is read first...
Lookup(r, k) ==
    /\ rpc[r] = "idle"
    /\ enabled => entries[k] = NoEntry
    /\ rpc' = [rpc EXCEPT ![r] = "scoped"]
    /\ rkey' = [rkey EXCEPT ![r] = k]
    /\ fill_point' = [fill_point EXCEPT ![r] =
                          [sequence |-> 0, database |-> cache_scope[KeyPool[k]]]]
    /\ UNCHANGED <<enabled, store, cache_scope, rows, writers, data, floor, acked>>

\* ... and then, under the store's lock, the sequence.
TakeFillPoint(r) ==
    /\ rpc[r] = "scoped"
    /\ rpc' = [rpc EXCEPT ![r] = "reading"]
    /\ fill_point' = [fill_point EXCEPT ![r] =
                          [sequence |-> invalidation_seq, database |-> @.database]]
    /\ UNCHANGED <<enabled, store, cache_scope, rkey, rows, writers, data, floor, acked>>

\* The database answers.
ReadRows(r) ==
    /\ rpc[r] = "reading"
    /\ KeyReads[rkey[r]] \subseteq Reach(KeyPool[rkey[r]])
    /\ rpc' = [rpc EXCEPT ![r] = "read"]
    /\ rows' = [rows EXCEPT ![r] = Rows(rkey[r])]
    /\ UNCHANGED <<enabled, store, cache_scope, rkey, fill_point, writers, data, floor, acked>>

ReaderDone(r) ==
    /\ rpc' = [rpc EXCEPT ![r] = "idle"]
    /\ rkey' = [rkey EXCEPT ![r] = NoEntry]
    /\ fill_point' = [fill_point EXCEPT ![r] = NoPoint]
    /\ rows' = [rows EXCEPT ![r] = NoEntry]

\* fill_tagged: the old entry goes as soon as the fill point is accepted;
\* a payload that may not be cached (no TTL, over budget, lossy) leaves none.
Fill(r, cacheable) ==
    /\ rpc[r] = "read"
    /\ ReaderDone(r)
    /\ IF ~enabled \/ InvalidatedSince(fill_point[r], KeyTables(rkey[r]))
       THEN UNCHANGED entries
       ELSE entries' = [entries EXCEPT ![rkey[r]] =
                IF cacheable THEN [database |-> fill_point[r].database, seen |-> rows[r]]
                             ELSE NoEntry]
    /\ UNCHANGED <<enabled, invalidation_seq, invalidated_at, invalidated_databases,
                   unscoped_invalidated_at, cleared_at, cache_scope, writers,
                   data, floor, acked>>

\* The read fails or its future is dropped.
Abandon(r) ==
    /\ rpc[r] = "reading"
    /\ ReaderDone(r)
    /\ UNCHANGED <<enabled, store, cache_scope, writers, data, floor, acked>>

-------------------------------------------------------------------------------
(* The other entry points of the cache                                     *)

\* set_tagged with a value computed just before: no fill point, no database
SetTagged(k) ==
    /\ enabled
    /\ KeyReads[k] \subseteq Reach(KeyPool[k])
    /\ entries' = [entries EXCEPT ![k] = [database |-> NoDatabase, seen |-> Rows(k)]]
    /\ UNCHANGED <<enabled, invalidation_seq, invalidated_at, invalidated_databases,
                   unscoped_invalidated_at, cleared_at, cache_scope, readers, writers,
                   data, floor, acked>>

\* invalidate(key), an eviction, an expiry, or a payload that does not decode
Remove(k) ==
    /\ entries[k] # NoEntry
    /\ entries' = [entries EXCEPT ![k] = NoEntry]
    /\ UNCHANGED <<enabled, invalidation_seq, invalidated_at, invalidated_databases,
                   unscoped_invalidated_at, cleared_at, cache_scope, readers, writers,
                   data, floor, acked>>

\* Toggle::set_enabled: entries are kept, and go on being invalidated.
SetEnabled ==
    /\ enabled' = ~enabled
    /\ UNCHANGED <<store, cache_scope, readers, writers, data, floor, acked>>

\* History variable: the call that returns here promises that no older
\* content of X is served from now on.
Announce(X) == acked' = [x \in Relations |-> IF x \in X THEN Larger(acked[x], data[x]) ELSE acked[x]]

\* invalidate_model called outside a transaction, for a table something else
\* than TideORM changed
InvalidateModel(t) ==
    /\ invalidation_seq < MaxSeq
    /\ InvalidateTable(t)
    /\ Announce({x \in Relations : x[2] = t})
    /\ UNCHANGED <<enabled, cache_scope, readers, writers, data>>

\* clear called outside a transaction
Clear ==
    /\ invalidation_seq < MaxSeq
    /\ ClearStore
    /\ Announce(Relations)
    /\ UNCHANGED <<enabled, cache_scope, readers, writers, data>>

\* A write the process does not see
ForeignWrite(x) ==
    /\ data[x] < MaxVersion
    /\ data' = [data EXCEPT ![x] = @ + 1]
    /\ UNCHANGED <<enabled, store, cache_scope, readers, writers, floor, acked>>

-------------------------------------------------------------------------------
(* Writers.  wrote[w] maps the relations of a writer to the version its    *)
(* write gave them, 0 until the database has applied it.                   *)

Unwritten(x) == data[x] < MaxVersion

Apply(w) ==
    LET X == DOMAIN wrote[w]
    IN  /\ \A x \in X : Unwritten(x)
        /\ data' = [x \in Relations |-> IF x \in X THEN data[x] + 1 ELSE data[x]]
        /\ wrote' = [wrote EXCEPT ![w] = [x \in X |-> data[x] + 1]]

Idle(w) ==
    /\ wpc' = [wpc EXCEPT ![w] = "idle"]
    /\ wpool' = [wpool EXCEPT ![w] = NoEntry]
    /\ wrote' = [wrote EXCEPT ![w] = [x \in {} |-> 0]]
    /\ pending' = [pending EXCEPT ![w] = Nothing]

\* A statement on a pool, outside every transaction, reaches the server...
Send(w, p, X) ==
    /\ wpc[w] = "idle"
    /\ X # {} /\ X \subseteq Reach(p)
    /\ wpc' = [wpc EXCEPT ![w] = "sent"]
    /\ wpool' = [wpool EXCEPT ![w] = p]
    /\ wrote' = [wrote EXCEPT ![w] = [x \in X |-> 0]]
    /\ UNCHANGED <<enabled, store, cache_scope, readers, pending, data, floor, acked>>

\* ... or an ATTACH, which writes no relation: observe_cache_sql widens the
\* scope of its pool and clears the cache before it is sent...
Attach(w, p) ==
    /\ p \in AttachPools
    /\ wpc[w] = "idle"
    /\ invalidation_seq < MaxSeq
    /\ cache_scope' = [cache_scope EXCEPT ![p] = NoDatabase]
    /\ ClearStore
    /\ wpc' = [wpc EXCEPT ![w] = "sent"]
    /\ wpool' = [wpool EXCEPT ![w] = p]
    /\ UNCHANGED <<enabled, readers, wrote, pending, data, acked>>

\* ... which applies it...
Autocommit(w) ==
    /\ wpc[w] = "sent"
    /\ wpc' = [wpc EXCEPT ![w] = "written"]
    /\ Apply(w)
    /\ UNCHANGED <<enabled, store, cache_scope, readers, wpool, pending, floor, acked>>

\* ... and the guard of `invalidating` drops before the call returns.
DropGuard(w) ==
    /\ wpc[w] = "written"
    /\ wpc' = [wpc EXCEPT ![w] = "committed"]
    /\ InvalidateScope(cache_scope[wpool[w]])
    /\ UNCHANGED <<enabled, cache_scope, readers, wpool, wrote, pending, data, acked>>

\* The call is dropped or fails on the wire: the guard drops, and the server
\* may still apply the statement.
CancelWrite(w) ==
    /\ wpc[w] = "sent"
    /\ invalidation_seq < MaxSeq
    /\ wpc' = [wpc EXCEPT ![w] = "unknown"]
    /\ InvalidateScope(cache_scope[wpool[w]])
    /\ UNCHANGED <<enabled, cache_scope, readers, wpool, wrote, pending, data, acked>>

\* PendingInvalidations::all, database and table
RecordAll(q) == [q EXCEPT !.all = TRUE]
RecordDatabase(q, d) == [q EXCEPT !.databases = @ \cup {d}]
RecordTable(q, t) == [q EXCEPT !.tables = @ \cup {t}]

\* A write in a transaction: invalidated at once, and recorded for the commit
WriteInTransaction(w, p, X) ==
    /\ \/ wpc[w] = "idle"
       \/ wpc[w] = "open" /\ wpool[w] = p
    /\ invalidation_seq < MaxSeq
    /\ X # {} /\ X \subseteq Reach(p)
    /\ wpc' = [wpc EXCEPT ![w] = "open"]
    /\ wpool' = [wpool EXCEPT ![w] = p]
    /\ wrote' = [wrote EXCEPT ![w] = [x \in X \cup DOMAIN wrote[w] |-> 0]]
    /\ InvalidateScope(cache_scope[p])
    /\ pending' = [pending EXCEPT ![w] = IF cache_scope[p] = NoDatabase
                                         THEN RecordAll(@)
                                         ELSE RecordDatabase(@, cache_scope[p])]
    /\ UNCHANGED <<enabled, cache_scope, readers, data, acked>>

\* invalidate_model called inside a transaction
InvalidateModelIn(w, t) ==
    /\ wpc[w] = "open"
    /\ invalidation_seq < MaxSeq
    /\ InvalidateTable(t)
    /\ pending' = [pending EXCEPT ![w] = RecordTable(@, t)]
    /\ UNCHANGED <<enabled, cache_scope, readers, wpc, wpool, wrote, data, acked>>

\* clear called inside a transaction: recorded first
ClearIn(w) ==
    /\ wpc[w] = "open"
    /\ invalidation_seq < MaxSeq
    /\ pending' = [pending EXCEPT ![w] = RecordAll(@)]
    /\ ClearStore
    /\ UNCHANGED <<enabled, cache_scope, readers, wpc, wpool, wrote, data, acked>>

Rollback(w) ==
    /\ wpc[w] = "open"
    /\ Idle(w)
    /\ UNCHANGED <<enabled, store, cache_scope, readers, data, floor, acked>>

\* The server commits; the record is still to be replayed.
Commit(w) ==
    /\ wpc[w] = "open"
    /\ wpc' = [wpc EXCEPT ![w] = "committed"]
    /\ Apply(w)
    /\ UNCHANGED <<enabled, store, cache_scope, readers, wpool, pending, floor, acked>>

\* UnknownCommit: COMMIT failed or was dropped on the wire.  Its record is
\* replayed all the same.
LoseCommit(w) ==
    /\ wpc[w] = "open"
    /\ wpc' = [wpc EXCEPT ![w] = "unknown"]
    /\ UNCHANGED <<enabled, store, cache_scope, readers, wpool, wrote, pending, data, floor, acked>>

\* What was on the wire reaches the server after all.
LateApply(w) ==
    /\ wpc[w] = "unknown"
    /\ wpc' = [wpc EXCEPT ![w] = "lost"]
    /\ Apply(w)
    /\ UNCHANGED <<enabled, store, cache_scope, readers, wpool, pending, floor, acked>>

Replaying(w) == wpc[w] \in {"committed", "unknown", "lost"}

ForgetDatabase(q, d) == [q EXCEPT !.databases = @ \ {d}]
ForgetTable(q, t) == [q EXCEPT !.tables = @ \ {t}]

\* replay_invalidations: everything, or the databases and then the tables
ReplayAll(w) ==
    /\ Replaying(w) /\ pending[w].all
    /\ ClearStore
    /\ pending' = [pending EXCEPT ![w] = Nothing]
    /\ UNCHANGED <<enabled, cache_scope, readers, wpc, wpool, wrote, data, acked>>

\* Mutant: the record is dropped at commit, as it is at a rollback.
ReplayDatabaseNot(w, d) ==
    /\ Replaying(w) /\ ~pending[w].all
    /\ d \in pending[w].databases
    /\ pending' = [pending EXCEPT ![w] = ForgetDatabase(@, d)]
    /\ UNCHANGED <<enabled, store, cache_scope, readers, wpc, wpool, wrote, data, floor, acked>>

ReplayDatabase(w, d) ==
    /\ Replaying(w) /\ ~pending[w].all
    /\ d \in pending[w].databases
    /\ InvalidateDatabase(d)
    /\ pending' = [pending EXCEPT ![w] = ForgetDatabase(@, d)]
    /\ UNCHANGED <<enabled, cache_scope, readers, wpc, wpool, wrote, data, acked>>

ReplayTable(w, t) ==
    /\ Replaying(w) /\ ~pending[w].all /\ pending[w].databases = {}
    /\ t \in pending[w].tables
    /\ InvalidateTable(t)
    /\ pending' = [pending EXCEPT ![w] = ForgetTable(@, t)]
    /\ UNCHANGED <<enabled, cache_scope, readers, wpc, wpool, wrote, data, acked>>

\* The write or Database::transaction returns Ok.
Return(w) ==
    /\ wpc[w] = "committed" /\ pending[w] = Nothing
    /\ acked' = [x \in Relations |-> IF x \in DOMAIN wrote[w]
                                     THEN Larger(acked[x], wrote[w][x]) ELSE acked[x]]
    /\ Idle(w)
    /\ UNCHANGED <<enabled, store, cache_scope, readers, data, floor>>

\* The caller gets an error, or is gone.
GiveUp(w) ==
    /\ wpc[w] \in {"unknown", "lost"} /\ pending[w] = Nothing
    /\ Idle(w)
    /\ UNCHANGED <<enabled, store, cache_scope, readers, data, floor, acked>>

-------------------------------------------------------------------------------
Init ==
    /\ enabled = FALSE
    /\ entries = [k \in Keys |-> NoEntry]
    /\ invalidation_seq = 0
    /\ invalidated_at = [t \in Tables |-> 0]
    /\ invalidated_databases = [d \in Databases |-> 0]
    /\ unscoped_invalidated_at = 0
    /\ cleared_at = 0
    /\ cache_scope = Home
    /\ rpc = [r \in Readers |-> "idle"]
    /\ rkey = [r \in Readers |-> NoEntry]
    /\ fill_point = [r \in Readers |-> NoPoint]
    /\ rows = [r \in Readers |-> NoEntry]
    /\ wpc = [w \in Writers |-> "idle"]
    /\ wpool = [w \in Writers |-> NoEntry]
    /\ wrote = [w \in Writers |-> [x \in {} |-> 0]]
    /\ pending = [w \in Writers |-> Nothing]
    /\ data = [x \in Relations |-> 0]
    /\ floor = [x \in Relations |-> 0]
    /\ acked = [x \in Relations |-> 0]

ReaderStep(r) ==
    \/ \E k \in Keys : Lookup(r, k)
    \/ TakeFillPoint(r)
    \/ ReadRows(r)
    \/ \E cacheable \in BOOLEAN : Fill(r, cacheable)
    \/ Abandon(r)

WriterStep(w) ==
    \/ \E p \in Pools, X \in SUBSET Relations : Send(w, p, X) \/ WriteInTransaction(w, p, X)
    \/ \E p \in Pools : Attach(w, p)
    \/ Autocommit(w) \/ DropGuard(w) \/ CancelWrite(w)
    \/ \E t \in Tables : InvalidateModelIn(w, t) \/ ReplayTable(w, t)
    \/ ClearIn(w) \/ Rollback(w) \/ Commit(w) \/ LoseCommit(w) \/ LateApply(w)
    \/ ReplayAll(w)
    \/ \E d \in Databases : ReplayDatabase(w, d)
    \/ Return(w) \/ GiveUp(w)

CacheStep ==
    \/ \E k \in Keys : SetTagged(k) \/ Remove(k)
    \/ \E t \in Tables : InvalidateModel(t)
    \/ \E x \in Relations : ForeignWrite(x)
    \/ SetEnabled \/ Clear

Next ==
    \/ \E r \in Readers : ReaderStep(r)
    \/ \E w \in Writers : WriterStep(w)
    \/ CacheStep

Spec == Init /\ [][Next]_vars

-------------------------------------------------------------------------------
(* Properties                                                              *)

\* The entries, the invalidation history, the fill points of running reads
\* (FillPoint) and the pending records of transactions are well typed.
TypeOK ==
    /\ enabled \in BOOLEAN
    /\ entries = [k \in Keys |-> entries[k]]
    /\ \A k \in Keys : entries[k] \in Entry(k) \cup {NoEntry}
    /\ invalidation_seq \in Nat
    /\ invalidated_at \in [Tables -> Nat]
    /\ invalidated_databases \in [Databases -> Nat]
    /\ unscoped_invalidated_at \in Nat
    /\ cleared_at \in Nat
    /\ cache_scope \in [Pools -> Scope]
    /\ rpc \in [Readers -> {"idle", "scoped", "reading", "read"}]
    /\ rkey \in [Readers -> Keys \cup {NoEntry}]
    /\ fill_point \in [Readers -> [sequence : Nat, database : Scope]]
    /\ rows = [r \in Readers |-> rows[r]]
    /\ \A r \in Readers : rpc[r] # "idle" => rkey[r] \in Keys
    /\ \A r \in Readers : rpc[r] = "read" => rows[r] \in [KeyReads[rkey[r]] -> Nat]
    /\ wpc \in [Writers -> {"idle", "sent", "written", "open", "committed", "unknown", "lost"}]
    /\ wpool \in [Writers -> Pools \cup {NoEntry}]
    /\ wrote = [w \in Writers |-> wrote[w]]
    /\ \A w \in Writers : wpc[w] # "idle" => wpool[w] \in Pools
    /\ \A w \in Writers : /\ DOMAIN wrote[w] \subseteq Relations
                          /\ \A x \in DOMAIN wrote[w] : wrote[w][x] \in Nat
    /\ pending \in [Writers -> [all : BOOLEAN, databases : SUBSET Databases, tables : SUBSET Tables]]
    /\ data \in [Relations -> Nat]
    /\ floor \in [Relations -> Nat]
    /\ acked \in [Relations -> Nat]

\* Once a write, a transaction or an invalidation has returned, no entry
\* holds rows from before it (QueryCache::invalidate_database and the replay
\* of PendingInvalidations, against fills that were already under way).
CacheIsCurrent ==
    \A k \in Keys : entries[k] # NoEntry =>
        \A x \in KeyReads[k] : entries[k].seen[x] >= acked[x]

\* Rows read before an invalidation that covers one of their relations are
\* refused by invalidated_since, also when the marker of that invalidation
\* was dropped because the history was full.
StaleReadsAreRefused ==
    \A r \in Readers :
        /\ rpc[r] = "read"
        /\ \E x \in KeyReads[rkey[r]] : rows[r][x] < floor[x]
        => InvalidatedSince(fill_point[r], KeyTables(rkey[r]))

\* A write to one database evicts no entry read from another one
\* ("Independent databases keep their entries", invalidate_database), also
\* when its marker overflows the history.
IndependentEntriesStay ==
    [][\A k \in Keys :
          /\ unscoped_invalidated_at' # unscoped_invalidated_at
          /\ entries[k] # NoEntry /\ entries'[k] = NoEntry
          => entries[k].database = NoDatabase
             \/ invalidated_databases'[entries[k].database] = invalidation_seq']_vars
===============================================================================
