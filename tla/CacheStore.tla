------------------------------ MODULE CacheStore ------------------------------
(***************************************************************************)
(* The store behind the query cache: its entries, the three eviction       *)
(* indexes, which only ever gain candidates and are rebuilt when too many  *)
(* of them are stale, and the entry and byte budgets.  A lookup takes the  *)
(* lock up to three times, and a store reads the configuration before it   *)
(* takes the lock; invalidation is in QueryCache.                          *)
(*                                                                         *)
(* Sources: cache/query_cache/store.rs, cache/query_cache.rs,              *)
(* cache/query_cache/control.rs.                                           *)
(***************************************************************************)
EXTENDS Integers, FiniteSets, FiniteSetsExt

CONSTANTS
    Keys,
    Kinds,         \* the types payloads decode to
    Payloads,      \* what is stored: [kind, size, ttl]
    Wanted,        \* the types lookups ask for
    Configs,       \* configurations: [strategy, max_entries, max_size_bytes]
    Storers,       \* tasks that store
    Readers,       \* tasks that look up
    NoEntry,
    Multiplier,    \* INDEX_REBUILD_MULTIPLIER
    Slack,         \* INDEX_REBUILD_SLACK
    MaxOrder,      \* bound on the order counter
    MaxClock       \* bound on the clock

VARIABLES
    store,          \* CacheStore: entries, one set of candidates per index, size_bytes
    config,
    order_counter,
    clock,
    storing,        \* what each storer is about to store, and under which configuration
    lookup          \* how far the lookup of each reader is

vars == <<store, config, order_counter, clock, storing, lookup>>

Entry(payload, order) ==
    [kind |-> payload.kind, size |-> payload.size, expires_at |-> clock + payload.ttl,
     insert_order |-> order, access_order |-> order]

Present(st) == {k \in Keys : st.entries[k] # NoEntry}
Expired(e) == clock >= e.expires_at

\* The priorities: lru_priority, fifo_priority, ttl_priority
Priority(strategy, e) ==
    CASE strategy = "LRU" -> <<e.access_order, 0>>
      [] strategy = "FIFO" -> <<e.insert_order, 0>>
      [] strategy = "TTL" -> <<e.expires_at, e.insert_order>>

Before(p, q) == p[1] < q[1] \/ (p[1] = q[1] /\ p[2] < q[2])
Candidate(strategy, k, e) == [priority |-> Priority(strategy, e), key |-> k]
Strategies == {"LRU", "FIFO", "TTL"}

-------------------------------------------------------------------------------
(* CacheStore                                                              *)

\* rebuild_indexes
Indexes(entries) ==
    [i \in Strategies |-> {Candidate(i, k, entries[k]) : k \in {x \in Keys : entries[x] # NoEntry}}]

\* maybe_rebuild_indexes
MaybeRebuild(st) ==
    LET count == Cardinality(Present(st))
    IN  IF count = 0 \/ \E i \in Strategies : Cardinality(st.index[i]) > Multiplier * count + Slack
        THEN [st EXCEPT !.index = Indexes(st.entries)]
        ELSE st

Insert(st, k, e) ==
    LET previous == IF st.entries[k] = NoEntry THEN 0 ELSE st.entries[k].size
    IN  MaybeRebuild([st EXCEPT
            !.entries[k] = e,
            !.index = [i \in Strategies |-> st.index[i] \cup {Candidate(i, k, e)}],
            !.size_bytes = @ + e.size - previous])

\* remove and remove_where
RemoveWhere(st, ks) ==
    IF ks = {} THEN st
    ELSE MaybeRebuild([st EXCEPT
             !.entries = [k \in Keys |-> IF k \in ks THEN NoEntry ELSE @[k]],
             !.size_bytes = @ - MapThenSumSet(LAMBDA k : st.entries[k].size, ks)])

\* Mutant: the index does not learn of the new priority.
TouchStale(st, k, order) ==
    MaybeRebuild([st EXCEPT !.entries[k].access_order = order])

Touch(st, k, order) ==
    LET e == [st.entries[k] EXCEPT !.access_order = order]
    IN  MaybeRebuild([st EXCEPT !.entries[k] = e,
                                !.index["LRU"] = @ \cup {Candidate("LRU", k, e)}])

\* Mutant: the heap is not reversed.
EvictLast(st, strategy) ==
    LET current == {c \in st.index[strategy] :
                        /\ st.entries[c.key] # NoEntry
                        /\ Priority(strategy, st.entries[c.key]) = c.priority}
    IN  IF current = {} THEN [st EXCEPT !.index[strategy] = {}]
        ELSE LET last == CHOOSE c \in current :
                             \A d \in current \ {c} : Before(d.priority, c.priority)
             IN  RemoveWhere([st EXCEPT !.index[strategy] =
                                  {d \in @ : Before(d.priority, last.priority)}],
                             {last.key})

\* evict with pop_current: candidates go up to the first that is current.
Evict(st, strategy) ==
    LET current == {c \in st.index[strategy] :
                        /\ st.entries[c.key] # NoEntry
                        /\ Priority(strategy, st.entries[c.key]) = c.priority}
    IN  IF current = {} THEN [st EXCEPT !.index[strategy] = {}]
        ELSE LET first == CHOOSE c \in current :
                              \A d \in current \ {c} : Before(c.priority, d.priority)
             IN  RemoveWhere([st EXCEPT !.index[strategy] =
                                  {d \in @ : Before(first.priority, d.priority)}],
                             {first.key})

-------------------------------------------------------------------------------
(* QueryCache                                                              *)

\* store, up to the write lock: the configuration is read here.
Prepare(w, k, payload) ==
    /\ storing[w] = NoEntry
    /\ storing' = [storing EXCEPT ![w] = [key |-> k, payload |-> payload, config |-> config]]
    /\ UNCHANGED <<store, config, order_counter, clock, lookup>>

\* Whether the payload may be stored at all
Acceptable(job) ==
    /\ job.payload.ttl > 0 /\ job.config.max_entries > 0
    /\ job.config.max_size_bytes = 0 \/ job.payload.size <= job.config.max_size_bytes

OverEntries(st, job) == Cardinality(Present(st)) >= job.config.max_entries

\* Mutant: the new payload is not counted.
OverBytesAlone(st, job) ==
    job.config.max_size_bytes > 0 /\ st.size_bytes > job.config.max_size_bytes

OverBytes(st, job) ==
    /\ job.config.max_size_bytes > 0
    /\ st.size_bytes + job.payload.size > job.config.max_size_bytes

\* The two loops that make room
MakeRoom(st, job) ==
    LET n == Cardinality(Keys)
        strategy == job.config.strategy
        entries[i \in 0..n] ==
            IF i = 0 THEN st
            ELSE IF OverEntries(entries[i - 1], job) THEN Evict(entries[i - 1], strategy)
                 ELSE entries[i - 1]
        bytes[i \in 0..n] ==
            IF i = 0 THEN entries[n]
            ELSE IF OverBytes(bytes[i - 1], job) THEN Evict(bytes[i - 1], strategy)
                 ELSE bytes[i - 1]
    IN  bytes[n]

\* ... and under it: what was there goes first, then room is made.
Store(w) ==
    /\ storing[w] # NoEntry
    /\ LET job == storing[w]
           freed == RemoveWhere(store, {job.key} \cap Present(store))
       IN  IF Acceptable(job)
           THEN /\ order_counter < MaxOrder
                /\ order_counter' = order_counter + 1
                /\ store' = Insert(MakeRoom(freed, job), job.key,
                                   Entry(job.payload, order_counter))
           ELSE store' = freed /\ UNCHANGED order_counter
    /\ storing' = [storing EXCEPT ![w] = NoEntry]
    /\ UNCHANGED <<config, clock, lookup>>

\* The data of an entry: touching the entry keeps it, replacing does not.
Payload(e) == [kind |-> e.kind, insert_order |-> e.insert_order]

\* get, under the read lock: with LRU, or for an entry that expired, it has to
\* come back with the write lock.  (The strategy is read just before the lock.)
Get(r, k, kind) ==
    /\ lookup[r] = NoEntry /\ k \in Present(store)
    /\ LET e == store.entries[k]
           found == ~Expired(e) /\ config.strategy # "LRU"
       IN  lookup' = [lookup EXCEPT ![r] =
               [pc |-> IF found THEN "decode" ELSE "again", key |-> k, kind |-> kind,
                touches |-> config.strategy = "LRU", payload |-> IF found THEN Payload(e) ELSE NoEntry]]
    /\ UNCHANGED <<store, config, order_counter, clock, storing>>

\* ... under the write lock
GetAgain(r) ==
    /\ lookup[r] # NoEntry /\ lookup[r].pc = "again"
    /\ LET k == lookup[r].key
           e == store.entries[k]
       IN  IF e = NoEntry \/ Expired(e)
           THEN /\ store' = RemoveWhere(store, {k} \cap Present(store))
                /\ lookup' = [lookup EXCEPT ![r] = NoEntry]
                /\ UNCHANGED order_counter
           ELSE /\ lookup' = [lookup EXCEPT ![r] = [@ EXCEPT !.pc = "decode", !.touches = FALSE,
                                                                      !.payload = Payload(e)]]
                /\ IF lookup[r].touches
                   THEN /\ order_counter < MaxOrder
                        /\ order_counter' = order_counter + 1
                        /\ store' = Touch(store, k, order_counter)
                   ELSE UNCHANGED <<store, order_counter>>
    /\ UNCHANGED <<config, clock, storing>>

\* Mutant: whatever is stored now goes.
SamePayloadAny(r) == store.entries[lookup[r].key] # NoEntry

\* Whether the entry in the store still has the payload the reader holds
SamePayload(r) ==
    /\ store.entries[lookup[r].key] # NoEntry
    /\ Payload(store.entries[lookup[r].key]) = lookup[r].payload

\* The payload is decoded outside the lock; one that cannot be is removed.
Decode(r) ==
    /\ lookup[r] # NoEntry /\ lookup[r].pc = "decode"
    /\ store' = IF lookup[r].payload.kind # lookup[r].kind /\ SamePayload(r)
                THEN RemoveWhere(store, {lookup[r].key}) ELSE store
    /\ lookup' = [lookup EXCEPT ![r] = NoEntry]
    /\ UNCHANGED <<config, order_counter, clock, storing>>

\* invalidate, invalidate_model and invalidate_database
Invalidate(ks) ==
    /\ ks # {}
    /\ store' = RemoveWhere(store, ks)
    /\ UNCHANGED <<config, order_counter, clock, storing, lookup>>

EvictExpired ==
    /\ store' = RemoveWhere(store, {k \in Present(store) : Expired(store.entries[k])})
    /\ UNCHANGED <<config, order_counter, clock, storing, lookup>>

Empty == [entries |-> [k \in Keys |-> NoEntry], index |-> [i \in Strategies |-> {}],
          size_bytes |-> 0]

Clear ==
    /\ store' = Empty
    /\ UNCHANGED <<config, order_counter, clock, storing, lookup>>

\* apply_config and the setters
ApplyConfig(c) ==
    /\ config' = c
    /\ UNCHANGED <<store, order_counter, clock, storing, lookup>>

Tick ==
    /\ clock < MaxClock
    /\ clock' = clock + 1
    /\ UNCHANGED <<store, config, order_counter, storing, lookup>>

-------------------------------------------------------------------------------
Init ==
    /\ store = Empty
    /\ config \in Configs
    /\ order_counter = 0
    /\ clock = 0
    /\ storing = [w \in Storers |-> NoEntry]
    /\ lookup = [r \in Readers |-> NoEntry]

Next ==
    \/ \E w \in Storers : \/ \E k \in Keys, p \in Payloads : Prepare(w, k, p)
                          \/ Store(w)
    \/ \E r \in Readers : \/ \E k \in Keys, d \in Wanted : Get(r, k, d)
                          \/ GetAgain(r) \/ Decode(r)
    \/ \E ks \in SUBSET Present(store) : Invalidate(ks)
    \/ \E c \in Configs : ApplyConfig(c)
    \/ EvictExpired \/ Clear \/ Tick

Spec == Init /\ [][Next]_vars

-------------------------------------------------------------------------------
(* Properties                                                              *)

\* Every entry can be evicted by every strategy, also after the strategy has
\* changed: each index has a candidate with its present priority, however many
\* stale ones there are, and those do not pile up (CacheStore::insert, touch,
\* maybe_rebuild_indexes).  size_bytes, an unsigned difference, is the size of
\* what is stored, across replacement, eviction, invalidation and expiry.
Indexed ==
    /\ \A k \in Present(store), i \in Strategies :
          Candidate(i, k, store.entries[k]) \in store.index[i]
    /\ \A i \in Strategies :
          Cardinality(store.index[i]) <= Multiplier * Cardinality(Present(store)) + Slack
    /\ store.size_bytes = MapThenSumSet(LAMBDA k : store.entries[k].size, Present(store))

\* The step in which w stores
Stores(w) == storing[w] # NoEntry /\ storing'[w] = NoEntry

\* A store that keeps its payload leaves the cache inside the budgets it read
\* (QueryCache::store).
BudgetsHold ==
    \A w \in Storers : Stores(w) /\ Acceptable(storing[w]) =>
        LET c == storing[w].config
        IN  /\ Cardinality(Present(store')) <= c.max_entries
            /\ c.max_size_bytes > 0 => store'.size_bytes <= c.max_size_bytes

\* What a store evicts is what its strategy puts first: nothing it keeps comes
\* before it.
EvictsFirst ==
    \A w \in Storers : Stores(w) =>
        LET kept == Present(store') \ {storing[w].key}
            gone == Present(store) \ (kept \cup {storing[w].key})
            at(k) == Priority(storing[w].config.strategy, store.entries[k])
        IN  \A k \in kept, g \in gone : Before(at(g), at(k))

\* A lookup removes an entry only when it has expired or cannot be decoded to
\* what the lookup asked for; one stored meanwhile stays (QueryCache::get).
LookupsKeepGoodEntries ==
    \A r \in Readers : lookup'[r] # lookup[r] =>
        \A k \in Present(store) \ Present(store') :
            Expired(store.entries[k]) \/ store.entries[k].kind # lookup[r].kind

\* Of every step
EntriesLeaveInOrder == BudgetsHold /\ EvictsFirst /\ LookupsKeepGoodEntries
===============================================================================
