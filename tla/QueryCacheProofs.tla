--------------------------- MODULE QueryCacheProofs ---------------------------
(***************************************************************************)
(* TypeOK, CacheIsCurrent, StaleReadsAreRefused and IndependentEntriesStay *)
(* for every number of readers, writers, pools, databases, tables and      *)
(* queries, and for every history limit.                                   *)
(***************************************************************************)
EXTENDS QueryCache, TLAPS

\* Every marker and every fill point is at most invalidation_seq, so the next
\* invalidation is newer than each of them.
SeqBound ==
    /\ unscoped_invalidated_at <= invalidation_seq
    /\ cleared_at <= invalidation_seq
    /\ \A t \in Tables : invalidated_at[t] <= invalidation_seq
    /\ \A d \in Databases : invalidated_databases[d] <= invalidation_seq
    /\ \A r \in Readers : fill_point[r].sequence <= invalidation_seq

\* What was announced had been invalidated, and that content existed.
FloorBounds == \A x \in Relations : acked[x] <= floor[x] /\ floor[x] <= data[x]

\* No ATTACH: scopes are the databases the pools were opened on.
ScopesFit ==
    /\ cache_scope = Home
    /\ \A k \in Keys : entries[k] # NoEntry =>
           entries[k].database \in {NoDatabase, Home[KeyPool[k]]}
    /\ \A r \in Readers : rpc[r] # "idle" =>
           fill_point[r].database = Home[KeyPool[rkey[r]]]

\* No entry predates the last invalidation of a relation it reads.
EntriesFresh ==
    \A k \in Keys : entries[k] # NoEntry =>
        \A x \in KeyReads[k] : entries[k].seen[x] >= floor[x]

\* What a writer wrote is invalidated, or an invalidation of it is pending.
WriterCovered(w, x) ==
    /\ wpc[w] \in {"sent", "written"} => x[1] = Home[wpool[w]]
    /\ wpc[w] \in {"written", "committed"} => wrote[w][x] <= data[x]
    /\ wpc[w] = "open" => pending[w].all \/ x[1] \in pending[w].databases
    /\ wpc[w] = "committed" =>
           wrote[w][x] <= floor[x] \/ pending[w].all \/ x[1] \in pending[w].databases

WritersCovered ==
    \A w \in Writers :
        /\ wpc[w] = "idle" => DOMAIN wrote[w] = {}
        /\ \A x \in DOMAIN wrote[w] : WriterCovered(w, x)

IndInv == /\ TypeOK /\ SeqBound /\ FloorBounds /\ ScopesFit /\ EntriesFresh
          /\ StaleReadsAreRefused /\ WritersCovered

-------------------------------------------------------------------------------
\* The typed part of the state an invalidation writes.
StoreType ==
    /\ entries = [k \in Keys |-> entries[k]]
    /\ \A k \in Keys : entries[k] \in Entry(k) \cup {NoEntry}
    /\ invalidation_seq \in Nat
    /\ invalidated_at \in [Tables -> Nat]
    /\ invalidated_databases \in [Databases -> Nat]
    /\ unscoped_invalidated_at \in Nat
    /\ cleared_at \in Nat
    /\ floor \in [Relations -> Nat]

\* What every invalidation preserves, whoever makes it.
Preserved == StoreType' /\ SeqBound' /\ ScopesFit' /\ EntriesFresh' /\ StaleReadsAreRefused'
             /\ \A x \in Relations : floor[x] <= floor'[x] /\ floor'[x] <= data[x]

\* invalidate_model keeps entries and running reads consistent: it removes
\* the entries tagged with the table, and its marker, or the barrier that
\* replaces the discarded markers, is newer than every running read.
LEMMA TablePreserves ==
    ASSUME IndInv, NEW t \in Tables, InvalidateTable(t),
           UNCHANGED <<cache_scope, readers, data>>
    PROVE  /\ Preserved
           /\ \A x \in Relations : x[2] = t => floor'[x] = data[x]
<1> DEFINE seq == invalidation_seq + 1
<1>1. /\ invalidation_seq' = seq /\ seq \in Nat
      /\ cleared_at' \in {cleared_at, seq}
      /\ invalidated_at' \in [Tables -> Nat]
      /\ invalidated_at'[t] = seq
      /\ \A u \in Tables : \/ invalidated_at'[u] \in {seq, invalidated_at[u]}
                           \/ invalidated_at'[u] = 0 /\ cleared_at' = seq
      /\ UNCHANGED <<invalidated_databases, unscoped_invalidated_at>>
  BY DEF IndInv, TypeOK, InvalidateTable, NoteInvalidated
<1>2. /\ entries' = [k \in Keys |-> entries'[k]]
      /\ \A k \in Keys : /\ entries'[k] \in {entries[k], NoEntry}
                         /\ t \in KeyTables(k) => entries'[k] = NoEntry
  BY DEF InvalidateTable, RemoveWhere
<1>3. floor' = [x \in Relations |-> IF x[2] = t THEN data[x] ELSE floor[x]]
  BY DEF InvalidateTable, Covered
<1>4. \A x \in Relations : /\ data[x] \in Nat /\ floor[x] \in Nat
                           /\ floor[x] <= floor'[x] /\ floor'[x] <= data[x]
                           /\ x[2] = t => floor'[x] = data[x]
                           /\ x[2] # t => floor'[x] = floor[x]
  BY <1>3 DEF IndInv, TypeOK, FloorBounds
<1>5. StoreType'
  BY <1>1, <1>2, <1>3, <1>4 DEF IndInv, TypeOK, StoreType
<1>6. SeqBound'
  BY <1>1 DEF IndInv, TypeOK, SeqBound, readers
<1>7. ScopesFit'
  BY <1>2 DEF IndInv, ScopesFit, readers
<1>8. EntriesFresh'
  <2> SUFFICES ASSUME NEW k \in Keys, entries'[k] # NoEntry, NEW x \in KeyReads[k]
               PROVE  entries'[k].seen[x] >= floor'[x]
    BY DEF EntriesFresh
  <2>1. entries'[k] = entries[k] /\ t \notin KeyTables(k)
    BY <1>2
  <2>2. x \in Relations /\ x[2] # t
    BY <2>1, NamesAssumption DEF KeyTables
  <2> QED
    BY <1>4, <2>1, <2>2 DEF IndInv, EntriesFresh
<1>9. StaleReadsAreRefused'
  <2> SUFFICES ASSUME NEW r \in Readers, rpc[r] = "read",
                      NEW x \in KeyReads[rkey[r]], rows[r][x] < floor'[x]
               PROVE  InvalidatedSince(fill_point[r], KeyTables(rkey[r]))'
    BY DEF StaleReadsAreRefused, readers, InvalidatedSince
  <2>1. /\ rkey[r] \in Keys /\ x \in Relations /\ x \in Databases \X Tables
        /\ fill_point[r] \in [sequence : Nat, database : Scope]
        /\ fill_point[r].sequence < seq
    BY NamesAssumption DEF IndInv, TypeOK, SeqBound
  <2>2. CASE x[2] = t
    BY <1>1, <2>1, <2>2 DEF InvalidatedSince, KeyTables, readers
  <2>3. CASE x[2] # t
    <3>1. InvalidatedSince(fill_point[r], KeyTables(rkey[r]))
      BY <1>4, <2>1, <2>3 DEF IndInv, StaleReadsAreRefused
    <3>2. KeyTables(rkey[r]) \subseteq Tables
      BY <2>1, NamesAssumption DEF KeyTables
    <3> QED
      BY <1>1, <2>1, <3>1, <3>2 DEF InvalidatedSince, readers, IndInv, TypeOK
  <2> QED
    BY <2>2, <2>3
<1> QED
  BY <1>4, <1>5, <1>6, <1>7, <1>8, <1>9 DEF Preserved

\* The same for invalidate_database: a reader's fill point carries the
\* database it reads, so that database's marker, or the barrier, rejects it.
LEMMA DatabasePreserves ==
    ASSUME AttachPools = {}, IndInv, NEW d \in Databases, InvalidateDatabase(d),
           UNCHANGED <<cache_scope, readers, data>>
    PROVE  /\ Preserved
           /\ \A x \in Relations : x[1] = d => floor'[x] = data[x]
<1> DEFINE seq == invalidation_seq + 1
<1>1. /\ invalidation_seq' = seq /\ seq \in Nat
      /\ cleared_at' \in {cleared_at, seq}
      /\ unscoped_invalidated_at' = seq
      /\ invalidated_databases' \in [Databases -> Nat]
      /\ invalidated_databases'[d] = seq
      /\ \A e \in Databases : \/ invalidated_databases'[e] \in {seq, invalidated_databases[e]}
                              \/ invalidated_databases'[e] = 0 /\ cleared_at' = seq
      /\ UNCHANGED invalidated_at
  BY DEF IndInv, TypeOK, InvalidateDatabase, NoteDatabaseInvalidated
<1>2. /\ entries' = [k \in Keys |-> entries'[k]]
      /\ \A k \in Keys : /\ entries'[k] \in {entries[k], NoEntry}
                         /\ entries'[k] # NoEntry => entries[k].database \notin {NoDatabase, d}
  BY DEF InvalidateDatabase, RemoveWhere
<1>3. floor' = [x \in Relations |-> IF x[1] = d THEN data[x] ELSE floor[x]]
  BY DEF InvalidateDatabase, Covered
<1>4. \A x \in Relations : /\ data[x] \in Nat /\ floor[x] \in Nat
                           /\ floor[x] <= floor'[x] /\ floor'[x] <= data[x]
                           /\ x[1] = d => floor'[x] = data[x]
                           /\ x[1] # d => floor'[x] = floor[x]
  BY <1>3 DEF IndInv, TypeOK, FloorBounds
<1>5. StoreType'
  BY <1>1, <1>2, <1>3, <1>4 DEF IndInv, TypeOK, StoreType
<1>6. SeqBound'
  BY <1>1 DEF IndInv, TypeOK, SeqBound, readers
<1>7. ScopesFit'
  BY <1>2 DEF IndInv, ScopesFit, readers
<1>8. EntriesFresh'
  <2> SUFFICES ASSUME NEW k \in Keys, entries'[k] # NoEntry, NEW x \in KeyReads[k]
               PROVE  entries'[k].seen[x] >= floor'[x]
    BY DEF EntriesFresh
  <2>1. entries'[k] = entries[k] /\ Home[KeyPool[k]] # d
    BY <1>2 DEF IndInv, ScopesFit
  <2>2. x \in Relations /\ x[1] # d
    BY <2>1, NamesAssumption, ReachAssumption
  <2> QED
    BY <1>4, <2>1, <2>2 DEF IndInv, EntriesFresh
<1>9. StaleReadsAreRefused'
  <2> SUFFICES ASSUME NEW r \in Readers, rpc[r] = "read",
                      NEW x \in KeyReads[rkey[r]], rows[r][x] < floor'[x]
               PROVE  InvalidatedSince(fill_point[r], KeyTables(rkey[r]))'
    BY DEF StaleReadsAreRefused, readers, InvalidatedSince
  <2>1. /\ rkey[r] \in Keys /\ x \in Relations
        /\ fill_point[r] \in [sequence : Nat, database : Scope]
        /\ fill_point[r].sequence < seq
        /\ fill_point[r].database = Home[KeyPool[rkey[r]]]
        /\ x[1] = Home[KeyPool[rkey[r]]]
        /\ Home[KeyPool[rkey[r]]] \in Databases
    <3>1. rkey[r] \in Keys /\ fill_point[r] \in [sequence : Nat, database : Scope]
      BY DEF IndInv, TypeOK
    <3>2. x \in Relations /\ Home[KeyPool[rkey[r]]] \in Databases
      BY <3>1, NamesAssumption
    <3>3. fill_point[r].sequence < seq
      BY <3>1 DEF IndInv, TypeOK, SeqBound
    <3>4. fill_point[r].database = Home[KeyPool[rkey[r]]]
      BY DEF IndInv, ScopesFit
    <3> QED
      BY <3>1, <3>2, <3>3, <3>4, ReachAssumption
  <2>2. CASE x[1] = d
    BY <1>1, <2>1, <2>2, NamesAssumption DEF InvalidatedSince, readers
  <2>3. CASE x[1] # d
    <3>1. InvalidatedSince(fill_point[r], KeyTables(rkey[r]))
      BY <1>4, <2>1, <2>3 DEF IndInv, StaleReadsAreRefused
    <3> QED
      BY <1>1, <2>1, <3>1, NamesAssumption DEF InvalidatedSince, readers, IndInv, TypeOK
  <2> QED
    BY <2>2, <2>3
<1> QED
  BY <1>4, <1>5, <1>6, <1>7, <1>8, <1>9 DEF Preserved

\* The same for clear, whose barrier rejects every running read.
LEMMA ClearPreserves ==
    ASSUME IndInv, ClearStore, UNCHANGED <<cache_scope, readers, data>>
    PROVE  Preserved /\ floor' = data
<1>1. /\ invalidation_seq' = invalidation_seq + 1
      /\ cleared_at' = invalidation_seq + 1
      /\ invalidation_seq \in Nat /\ unscoped_invalidated_at \in Nat
      /\ unscoped_invalidated_at <= invalidation_seq
      /\ UNCHANGED unscoped_invalidated_at
      /\ entries' = [k \in Keys |-> NoEntry]
      /\ invalidated_at' = [t \in Tables |-> 0]
      /\ invalidated_databases' = [e \in Databases |-> 0]
  BY DEF ClearStore, IndInv, TypeOK, SeqBound
<1>2. floor' = data /\ data \in [Relations -> Nat]
  BY DEF ClearStore, Covered, IndInv, TypeOK
<1>3. StoreType'
  BY <1>1, <1>2 DEF StoreType
<1>4. SeqBound'
  BY <1>1 DEF SeqBound, IndInv, TypeOK, readers
<1>5. ScopesFit' /\ EntriesFresh'
  BY <1>1 DEF ScopesFit, EntriesFresh, IndInv, readers
<1>6. StaleReadsAreRefused'
  BY <1>1 DEF StaleReadsAreRefused, InvalidatedSince, IndInv, TypeOK, SeqBound, readers
<1> QED
  BY <1>1, <1>2, <1>3, <1>4, <1>5, <1>6 DEF Preserved, IndInv, TypeOK, FloorBounds

-------------------------------------------------------------------------------
\* The drop of the guard of `invalidating`, without ATTACH: the database of
\* the pool is invalidated.
LEMMA ScopePreserves ==
    ASSUME AttachPools = {}, IndInv, NEW p \in Pools, InvalidateScope(cache_scope[p]),
           UNCHANGED <<cache_scope, readers, data>>
    PROVE  /\ cache_scope[p] = Home[p] /\ Home[p] \in Databases /\ Home[p] # NoDatabase
           /\ Preserved
           /\ \A x \in Relations : x[1] = Home[p] => floor'[x] = data[x]
<1>1. cache_scope[p] = Home[p] /\ Home[p] \in Databases /\ Home[p] # NoDatabase
  BY NamesAssumption DEF IndInv, ScopesFit
<1>2. InvalidateDatabase(Home[p])
  BY <1>1 DEF InvalidateScope
<1> QED
  BY <1>1, <1>2, DatabasePreserves

\* The numbers of the history variables and how they compare.
LEMMA Ranges ==
    ASSUME IndInv
    PROVE  /\ data \in [Relations -> Nat] /\ floor \in [Relations -> Nat]
           /\ acked \in [Relations -> Nat]
           /\ \A x \in Relations : acked[x] <= floor[x] /\ floor[x] <= data[x]
BY DEF IndInv, TypeOK, FloorBounds

\* What the writers have pending stays covered while only the cache changes.
LEMMA WritersKeep ==
    ASSUME IndInv, UNCHANGED writers,
           \A x \in Relations : /\ floor'[x] \in Nat /\ floor[x] <= floor'[x]
                                /\ data'[x] \in Nat /\ data[x] <= data'[x]
    PROVE  WritersCovered'
<1>1. UNCHANGED <<wpc, wpool, wrote, pending>>
  BY DEF writers
<1> SUFFICES ASSUME NEW w \in Writers, NEW x \in DOMAIN wrote[w]
             PROVE  WriterCovered(w, x)'
  BY <1>1 DEF WritersCovered, IndInv
<1>2. /\ x \in Relations /\ wrote[w][x] \in Nat /\ floor[x] \in Nat /\ data[x] \in Nat
      /\ floor'[x] \in Nat /\ floor[x] <= floor'[x]
      /\ data'[x] \in Nat /\ data[x] <= data'[x]
  BY DEF IndInv, TypeOK
<1>3. WriterCovered(w, x)
  BY DEF IndInv, WritersCovered
<1>4. wrote[w][x] <= data[x] => wrote[w][x] <= data'[x]
  BY <1>2
<1>5. wrote[w][x] <= floor[x] => wrote[w][x] <= floor'[x]
  BY <1>2
<1> QED
  BY <1>1, <1>3, <1>4, <1>5 DEF WriterCovered

\* A step that leaves the writers and what they announced alone leaves them
\* covered.
LEMMA WritersStay ==
    ASSUME IndInv, UNCHANGED <<writers, data, floor>>
    PROVE  WritersCovered'
<1>1. \A x \in Relations : /\ floor'[x] \in Nat /\ floor[x] <= floor'[x]
                           /\ data'[x] \in Nat /\ data[x] <= data'[x]
  BY Ranges
<1> QED
  BY <1>1, WritersKeep

\* A reader that is done holds no fill point and no rows.
LEMMA DonePreserves ==
    ASSUME IndInv, NEW r \in Readers, ReaderDone(r), StoreType', EntriesFresh',
           \A k \in Keys : entries'[k] # NoEntry =>
               entries'[k].database \in {NoDatabase, Home[KeyPool[k]]},
           UNCHANGED <<enabled, invalidation_seq, invalidated_at, invalidated_databases,
                       unscoped_invalidated_at, cleared_at, cache_scope, writers,
                       data, floor, acked>>
    PROVE  IndInv'
<1>1. /\ rpc' = [rpc EXCEPT ![r] = "idle"]
      /\ rkey' = [rkey EXCEPT ![r] = NoEntry]
      /\ fill_point' = [fill_point EXCEPT ![r] = [sequence |-> 0, database |-> NoDatabase]]
      /\ rows' = [rows EXCEPT ![r] = NoEntry]
  BY DEF ReaderDone, NoPoint
<1>2. TypeOK'
  BY <1>1 DEF IndInv, TypeOK, StoreType, writers, Scope
<1>3. SeqBound' /\ FloorBounds'
  BY <1>1 DEF IndInv, TypeOK, SeqBound, FloorBounds
<1>4. ScopesFit'
  BY <1>1 DEF IndInv, TypeOK, ScopesFit
<1>5. StaleReadsAreRefused'
  BY <1>1 DEF IndInv, TypeOK, StaleReadsAreRefused, InvalidatedSince
<1>6. WritersCovered'
  BY WritersStay
<1> QED
  BY <1>2, <1>3, <1>4, <1>5, <1>6 DEF IndInv

\* A reader's step keeps the invariant: a fill that is not refused stores
\* rows that are at least as new as every invalidation.
LEMMA ReaderPreserves ==
    ASSUME AttachPools = {}, IndInv, NEW r \in Readers, ReaderStep(r)
    PROVE  IndInv'
<1>1. ASSUME NEW k \in Keys, Lookup(r, k) PROVE IndInv'
  <2>1. TypeOK'
    BY <1>1, NamesAssumption DEF IndInv, TypeOK, Lookup, store, writers, Entry, Scope
  <2>2. SeqBound' /\ FloorBounds' /\ EntriesFresh'
    BY <1>1 DEF IndInv, TypeOK, SeqBound, FloorBounds, EntriesFresh, Lookup, store, writers
  <2>3. ScopesFit'
    BY <1>1 DEF IndInv, TypeOK, ScopesFit, Lookup, store
  <2>4. StaleReadsAreRefused'
    <3>1. \A q \in Readers : rpc'[q] = "read" =>
              q # r /\ rpc[q] = "read" /\ rkey'[q] = rkey[q] /\ fill_point'[q] = fill_point[q]
      BY <1>1 DEF IndInv, TypeOK, Lookup
    <3> QED
      BY <1>1, <3>1 DEF IndInv, StaleReadsAreRefused, InvalidatedSince, Lookup, store
  <2>5. WritersCovered'
    BY <1>1, WritersStay DEF Lookup
  <2> QED
    BY <2>1, <2>2, <2>3, <2>4, <2>5 DEF IndInv
<1>2. CASE TakeFillPoint(r)
  <2>1. TypeOK'
    <3>0. fill_point' \in [Readers -> [sequence : Nat, database : Scope]]
      BY <1>2 DEF IndInv, TypeOK, TakeFillPoint
    <3>1. /\ rpc' \in [Readers -> {"idle", "scoped", "reading", "read"}]
          /\ \A q \in Readers : rpc'[q] # "idle" => rkey[q] \in Keys
          /\ \A q \in Readers : rpc'[q] = "read" => rpc[q] = "read"
      BY <1>2 DEF IndInv, TypeOK, TakeFillPoint
    <3> QED
      BY <1>2, <3>0, <3>1 DEF IndInv, TypeOK, TakeFillPoint, store, writers, Entry
  <2>2. SeqBound' /\ FloorBounds' /\ EntriesFresh'
    BY <1>2 DEF IndInv, TypeOK, SeqBound, FloorBounds, EntriesFresh, TakeFillPoint, store, writers
  <2>3. ScopesFit'
    BY <1>2 DEF IndInv, TypeOK, ScopesFit, TakeFillPoint, store
  <2>4. StaleReadsAreRefused'
    BY <1>2 DEF IndInv, TypeOK, StaleReadsAreRefused, InvalidatedSince, TakeFillPoint, store
  <2>5. WritersCovered'
    BY <1>2, WritersStay DEF TakeFillPoint
  <2> QED
    BY <2>1, <2>2, <2>3, <2>4, <2>5 DEF IndInv
<1>3. CASE ReadRows(r)
  <2>1. /\ rkey[r] \in Keys /\ KeyReads[rkey[r]] \subseteq Relations
        /\ rows' = [rows EXCEPT ![r] = [x \in KeyReads[rkey[r]] |-> data[x]]]
        /\ rpc' = [rpc EXCEPT ![r] = "read"]
        /\ UNCHANGED <<enabled, store, cache_scope, rkey, fill_point, writers, data, floor, acked>>
    BY <1>3, NamesAssumption DEF IndInv, TypeOK, ReadRows, Rows
  <2>2. TypeOK'
    BY <2>1 DEF IndInv, TypeOK, store, writers, Entry
  <2>3. SeqBound' /\ FloorBounds' /\ EntriesFresh'
    BY <2>1 DEF IndInv, TypeOK, SeqBound, FloorBounds, EntriesFresh, store, writers
  <2>4. ScopesFit'
    BY <1>3, <2>1 DEF IndInv, TypeOK, ScopesFit, store, ReadRows
  <2>5. StaleReadsAreRefused'
    <3>1. \A x \in KeyReads[rkey[r]] : ~(rows'[r][x] < floor'[x])
      BY <2>1 DEF IndInv, TypeOK, FloorBounds
    <3>2. \A q \in Readers \ {r} : rows'[q] = rows[q] /\ rpc'[q] = rpc[q]
      BY <2>1 DEF IndInv, TypeOK
    <3> QED
      BY <2>1, <3>1, <3>2 DEF IndInv, TypeOK, StaleReadsAreRefused, InvalidatedSince, store
  <2>6. WritersCovered'
    BY <2>1, WritersStay
  <2> QED
    BY <2>2, <2>3, <2>4, <2>5, <2>6 DEF IndInv
<1>4. ASSUME NEW cacheable \in BOOLEAN, Fill(r, cacheable) PROVE IndInv'
  <2> DEFINE k == rkey[r]
             new == [database |-> fill_point[r].database, seen |-> rows[r]]
  <2>1. /\ k \in Keys /\ KeyReads[k] \subseteq Relations /\ rpc[r] = "read"
        /\ rows[r] \in [KeyReads[k] -> Nat] /\ fill_point[r].database \in Scope
        /\ fill_point[r].database = Home[KeyPool[k]]
    BY <1>4, NamesAssumption DEF IndInv, TypeOK, Fill, ScopesFit
  <2>2. \/ UNCHANGED entries
        \/ /\ ~InvalidatedSince(fill_point[r], KeyTables(k))
           /\ \/ entries' = [entries EXCEPT ![k] = new]
              \/ entries' = [entries EXCEPT ![k] = NoEntry]
    BY <1>4 DEF Fill
  <2>3. ~InvalidatedSince(fill_point[r], KeyTables(k)) =>
            \A x \in KeyReads[k] : rows[r][x] >= floor[x]
    BY <2>1 DEF IndInv, TypeOK, StaleReadsAreRefused
  <2>4. new \in Entry(k)
    BY <2>1 DEF Entry
  <2>5. /\ ReaderDone(r)
        /\ UNCHANGED <<enabled, invalidation_seq, invalidated_at, invalidated_databases,
                       unscoped_invalidated_at, cleared_at, cache_scope, writers,
                       data, floor, acked>>
    BY <1>4 DEF Fill
  <2>6. StoreType'
    BY <2>1, <2>2, <2>4, <2>5 DEF IndInv, TypeOK, StoreType
  <2>7. EntriesFresh'
    BY <2>1, <2>2, <2>3, <2>5 DEF IndInv, TypeOK, EntriesFresh
  <2>8. \A q \in Keys : entries'[q] # NoEntry =>
               entries'[q].database \in {NoDatabase, Home[KeyPool[q]]}
    BY <2>1, <2>2 DEF IndInv, TypeOK, ScopesFit
  <2> QED
    BY <2>5, <2>6, <2>7, <2>8, DonePreserves
<1>5. CASE Abandon(r)
  <2>1. /\ ReaderDone(r) /\ UNCHANGED store
        /\ UNCHANGED <<enabled, cache_scope, writers, data, floor, acked>>
    BY <1>5 DEF Abandon
  <2>2. StoreType' /\ EntriesFresh'
    BY <2>1 DEF IndInv, TypeOK, StoreType, EntriesFresh, store, Entry
  <2> QED
    BY <2>1, <2>2, DonePreserves DEF store, IndInv, ScopesFit
<1> QED
  BY <1>1, <1>2, <1>3, <1>4, <1>5 DEF ReaderStep

\* What a step of a writer leaves to show once its invalidation, if it makes
\* one, is known to preserve the cache.
LEMMA WriterFrame ==
    ASSUME IndInv, Preserved, UNCHANGED <<enabled, cache_scope, readers, data, acked>>,
           TypeOK', WritersCovered'
    PROVE  IndInv'
<1>1. FloorBounds'
  BY DEF IndInv, TypeOK, FloorBounds, Preserved
<1> QED
  BY <1>1 DEF IndInv, Preserved

\* The types of a step that invalidates.
LEMMA InvalidationTypes ==
    ASSUME IndInv, StoreType', UNCHANGED <<enabled, cache_scope, readers, data>>,
           acked' \in [Relations -> Nat],
           wpc' \in [Writers -> {"idle", "sent", "written", "open", "committed", "unknown", "lost"}],
           wpool' \in [Writers -> Pools \cup {NoEntry}],
           wrote' = [w \in Writers |-> wrote'[w]],
           \A w \in Writers : wpc'[w] # "idle" => wpool'[w] \in Pools,
           \A w \in Writers : /\ DOMAIN wrote'[w] \subseteq Relations
                              /\ \A x \in DOMAIN wrote'[w] : wrote'[w][x] \in Nat,
           pending' \in [Writers -> [all : BOOLEAN, databases : SUBSET Databases,
                                     tables : SUBSET Tables]]
    PROVE  TypeOK'
  BY DEF IndInv, TypeOK, StoreType, readers

\* The types of a step that leaves the cache alone.
LEMMA QuietTypes ==
    ASSUME IndInv, UNCHANGED <<enabled, store, cache_scope, readers, floor>>,
           data' \in [Relations -> Nat],
           acked' \in [Relations -> Nat],
           wpc' \in [Writers -> {"idle", "sent", "written", "open", "committed", "unknown", "lost"}],
           wpool' \in [Writers -> Pools \cup {NoEntry}],
           wrote' = [w \in Writers |-> wrote'[w]],
           \A w \in Writers : wpc'[w] # "idle" => wpool'[w] \in Pools,
           \A w \in Writers : /\ DOMAIN wrote'[w] \subseteq Relations
                              /\ \A x \in DOMAIN wrote'[w] : wrote'[w][x] \in Nat,
           pending' \in [Writers -> [all : BOOLEAN, databases : SUBSET Databases,
                                     tables : SUBSET Tables]]
    PROVE  TypeOK'
  BY DEF IndInv, TypeOK, store, readers, Entry

\* Content only grows, and the cache does not notice.
LEMMA QuietFrame ==
    ASSUME IndInv, UNCHANGED <<enabled, store, cache_scope, readers, floor>>,
           TypeOK', WritersCovered',
           \A x \in Relations : data[x] <= data'[x] /\ acked'[x] <= floor[x]
    PROVE  IndInv'
<1>1. SeqBound' /\ ScopesFit' /\ EntriesFresh'
  BY DEF IndInv, SeqBound, ScopesFit, EntriesFresh, store, readers
<1>2. FloorBounds'
  BY DEF IndInv, TypeOK, FloorBounds
<1>3. StaleReadsAreRefused'
  BY DEF IndInv, StaleReadsAreRefused, InvalidatedSince, store, readers
<1> QED
  BY <1>1, <1>2, <1>3 DEF IndInv

\* A step of writer w leaves the other writers covered.
LEMMA OneWriter ==
    ASSUME IndInv, NEW w \in Writers,
           \A v \in Writers \ {w} : /\ wpc'[v] = wpc[v] /\ wpool'[v] = wpool[v]
                                    /\ wrote'[v] = wrote[v] /\ pending'[v] = pending[v],
           \A x \in Relations : /\ floor'[x] \in Nat /\ floor[x] <= floor'[x]
                                /\ data'[x] \in Nat /\ data[x] <= data'[x],
           wpc'[w] = "idle" => DOMAIN wrote'[w] = {},
           \A x \in DOMAIN wrote'[w] : WriterCovered(w, x)'
    PROVE  WritersCovered'
<1> SUFFICES ASSUME NEW v \in Writers \ {w}
             PROVE  /\ wpc'[v] = "idle" => DOMAIN wrote'[v] = {}
                    /\ \A x \in DOMAIN wrote'[v] : WriterCovered(v, x)'
  BY DEF WritersCovered
<1>1. /\ wpc[v] = "idle" => DOMAIN wrote[v] = {}
      /\ \A x \in DOMAIN wrote[v] : WriterCovered(v, x)
  BY DEF IndInv, WritersCovered
<1>2. \A x \in DOMAIN wrote[v] : /\ x \in Relations /\ wrote[v][x] \in Nat
                                 /\ floor[x] \in Nat /\ data[x] \in Nat
  BY DEF IndInv, TypeOK
<1> QED
  BY <1>1, <1>2 DEF WriterCovered

\* Going idle clears what the writer held.
LEMMA IdlePreserves ==
    ASSUME IndInv, NEW w \in Writers, Idle(w),
           UNCHANGED <<enabled, store, cache_scope, readers, data, floor>>,
           acked' \in [Relations -> Nat],
           \A x \in Relations : acked'[x] <= floor[x]
    PROVE  IndInv'
<1>1. /\ wpc' = [wpc EXCEPT ![w] = "idle"]
      /\ wpool' = [wpool EXCEPT ![w] = NoEntry]
      /\ wrote' = [wrote EXCEPT ![w] = [x \in {} |-> 0]]
      /\ pending' = [pending EXCEPT ![w] = [all |-> FALSE, databases |-> {}, tables |-> {}]]
  BY DEF Idle, Nothing
<1>2. wpc'[w] = "idle" /\ DOMAIN wrote'[w] = {}
  BY <1>1 DEF IndInv, TypeOK
<1>3. \A v \in Writers \ {w} : /\ wpc'[v] = wpc[v] /\ wpool'[v] = wpool[v]
                               /\ wrote'[v] = wrote[v] /\ pending'[v] = pending[v]
  BY <1>1 DEF IndInv, TypeOK
<1>4. /\ wpc' \in [Writers -> {"idle", "sent", "written", "open", "committed", "unknown", "lost"}]
      /\ wpool' \in [Writers -> Pools \cup {NoEntry}]
      /\ wrote' = [v \in Writers |-> wrote'[v]]
  BY <1>1 DEF IndInv, TypeOK
<1>5. pending' \in [Writers -> [all : BOOLEAN, databases : SUBSET Databases,
                                tables : SUBSET Tables]]
  BY <1>1 DEF IndInv, TypeOK
<1>6. \A v \in Writers : /\ wpc'[v] # "idle" => wpool'[v] \in Pools
                         /\ DOMAIN wrote'[v] \subseteq Relations
                         /\ \A x \in DOMAIN wrote'[v] : wrote'[v][x] \in Nat
  BY <1>2, <1>3 DEF IndInv, TypeOK
<1>7. TypeOK'
  BY <1>4, <1>5, <1>6, QuietTypes DEF IndInv, TypeOK
<1>8. WritersCovered'
  <2>1. \A x \in DOMAIN wrote'[w] : WriterCovered(w, x)'
    BY <1>2
  <2>2. \A x \in Relations : /\ floor'[x] \in Nat /\ floor[x] <= floor'[x]
                             /\ data'[x] \in Nat /\ data[x] <= data'[x]
    BY DEF IndInv, TypeOK
  <2> QED
    BY <1>2, <1>3, <2>1, <2>2, OneWriter
<1>9. \A x \in Relations : data[x] <= data'[x] /\ acked'[x] <= floor[x]
  BY Ranges
<1> QED
  BY <1>7, <1>8, <1>9, QuietFrame

\* The server applies what writer w sent: content grows.
LEMMA ApplyPreserves ==
    ASSUME IndInv, NEW w \in Writers, NEW pc \in {"written", "committed", "lost"},
           Apply(w), wpc[w] # "idle", wpc' = [wpc EXCEPT ![w] = pc],
           pc = "written" => wpc[w] = "sent",
           pc = "committed" => wpc[w] = "open",
           UNCHANGED <<enabled, store, cache_scope, readers, wpool, pending, floor, acked>>
    PROVE  IndInv'
<1> DEFINE X == DOMAIN wrote[w]
<1>1. /\ X \subseteq Relations /\ wpool[w] \in Pools
      /\ \A x \in X : WriterCovered(w, x)
  BY DEF IndInv, TypeOK, WritersCovered
<1>2. /\ data' = [x \in Relations |-> IF x \in X THEN data[x] + 1 ELSE data[x]]
      /\ wrote' = [wrote EXCEPT ![w] = [x \in X |-> data[x] + 1]]
  BY DEF Apply
<1>3. /\ data' \in [Relations -> Nat]
      /\ \A x \in Relations : data[x] \in Nat /\ data[x] <= data'[x]
      /\ \A x \in X : data'[x] = data[x] + 1
  BY <1>1, <1>2 DEF IndInv, TypeOK
<1>4. /\ wrote' = [v \in Writers |-> wrote'[v]]
      /\ wrote'[w] = [x \in X |-> data[x] + 1]
      /\ \A v \in Writers \ {w} : wrote'[v] = wrote[v] /\ wpc'[v] = wpc[v]
      /\ wpc'[w] = pc
      /\ wpc' \in [Writers -> {"idle", "sent", "written", "open", "committed", "unknown", "lost"}]
  BY <1>2 DEF IndInv, TypeOK
<1>5. ASSUME NEW v \in Writers
      PROVE  /\ wpc'[v] # "idle" => wpool[v] \in Pools
             /\ DOMAIN wrote'[v] \subseteq Relations
             /\ \A x \in DOMAIN wrote'[v] : wrote'[v][x] \in Nat
  <2>1. CASE v = w
    BY <1>1, <1>3, <1>4, <2>1
  <2>2. CASE v # w
    BY <1>4, <2>2 DEF IndInv, TypeOK
  <2> QED
    BY <2>1, <2>2
<1>6. TypeOK'
  BY <1>3, <1>4, <1>5, QuietTypes DEF IndInv, TypeOK
<1>7. \A x \in DOMAIN wrote'[w] : WriterCovered(w, x)'
  BY <1>1, <1>3, <1>4 DEF WriterCovered
<1>8. \A x \in Relations : /\ floor'[x] \in Nat /\ floor[x] <= floor'[x]
                           /\ data'[x] \in Nat /\ data[x] <= data'[x]
                           /\ acked'[x] <= floor[x]
  BY <1>2, <1>3, Ranges
<1>9. WritersCovered'
  BY <1>3, <1>4, <1>7, <1>8, OneWriter
<1> QED
  BY <1>3, <1>6, <1>8, <1>9, QuietFrame

PendingType == [all : BOOLEAN, databases : SUBSET Databases, tables : SUBSET Tables]
WpcType == {"idle", "sent", "written", "open", "committed", "unknown", "lost"}

\* A step in which writer w invalidates.
LEMMA InvalidatingWriter ==
    ASSUME IndInv, NEW w \in Writers, Preserved,
           UNCHANGED <<enabled, cache_scope, readers, data, acked>>,
           NEW pc \in WpcType \ {"idle"}, wpc' = [wpc EXCEPT ![w] = pc],
           NEW p \in Pools, wpool' = [wpool EXCEPT ![w] = p],
           NEW f, wrote' = [wrote EXCEPT ![w] = f], DOMAIN f \subseteq Relations,
           \A x \in DOMAIN f : f[x] \in Nat,
           NEW q \in PendingType, pending' = [pending EXCEPT ![w] = q],
           \A x \in DOMAIN f : WriterCovered(w, x)'
    PROVE  IndInv'
<1>1. /\ wpc' \in [Writers -> WpcType] /\ wpc'[w] = pc
      /\ wpool' \in [Writers -> Pools \cup {NoEntry}] /\ wpool'[w] = p
      /\ wrote' = [v \in Writers |-> wrote'[v]] /\ wrote'[w] = f
      /\ pending' \in [Writers -> PendingType]
      /\ \A v \in Writers \ {w} : /\ wpc'[v] = wpc[v] /\ wpool'[v] = wpool[v]
                                  /\ wrote'[v] = wrote[v] /\ pending'[v] = pending[v]
  BY DEF IndInv, TypeOK, WpcType, PendingType
<1>2. ASSUME NEW v \in Writers
      PROVE  /\ wpc'[v] # "idle" => wpool'[v] \in Pools
             /\ DOMAIN wrote'[v] \subseteq Relations
             /\ \A x \in DOMAIN wrote'[v] : wrote'[v][x] \in Nat
  <2>1. CASE v = w
    BY <1>1, <2>1
  <2>2. CASE v # w
    BY <1>1, <2>2 DEF IndInv, TypeOK
  <2> QED
    BY <2>1, <2>2
<1>3. TypeOK'
  BY <1>1, <1>2, InvalidationTypes DEF WpcType, PendingType, Preserved, IndInv, TypeOK
<1>4. WritersCovered'
  <2>1. \A x \in Relations : /\ floor'[x] \in Nat /\ floor[x] <= floor'[x]
                             /\ data'[x] \in Nat /\ data[x] <= data'[x]
    BY DEF IndInv, TypeOK, Preserved, StoreType
  <2> QED
    BY <1>1, <2>1, OneWriter DEF WpcType
<1> QED
  BY <1>3, <1>4, WriterFrame

\* The guard of `invalidating`, dropped after the write was applied or while
\* it was on the wire
LEMMA GuardPreserves ==
    ASSUME AttachPools = {}, IndInv, NEW w \in Writers,
           DropGuard(w) \/ CancelWrite(w)
    PROVE  IndInv'
<1>1. PICK pc \in {"committed", "unknown"} :
          /\ wpc' = [wpc EXCEPT ![w] = pc]
          /\ wpc[w] \in {"sent", "written"}
          /\ pc = "committed" => wpc[w] = "written"
          /\ InvalidateScope(cache_scope[wpool[w]])
          /\ UNCHANGED <<enabled, cache_scope, readers, wpool, wrote, pending, data, acked>>
  BY DEF DropGuard, CancelWrite
<1>2. /\ wpool[w] \in Pools /\ DOMAIN wrote[w] \subseteq Relations
      /\ \A x \in DOMAIN wrote[w] : wrote[w][x] \in Nat
      /\ pending[w] \in PendingType
      /\ wpool' = [wpool EXCEPT ![w] = wpool[w]]
      /\ wrote' = [wrote EXCEPT ![w] = wrote[w]]
      /\ pending' = [pending EXCEPT ![w] = pending[w]]
      /\ wpc'[w] = pc
  BY <1>1 DEF IndInv, TypeOK, PendingType
<1>3. Preserved /\ \A x \in Relations : x[1] = Home[wpool[w]] => floor'[x] = data[x]
  BY <1>1, <1>2, ScopePreserves
<1>4. \A x \in DOMAIN wrote[w] : WriterCovered(w, x)'
  <2> SUFFICES ASSUME NEW x \in DOMAIN wrote[w] PROVE WriterCovered(w, x)'
    OBVIOUS
  <2>1. WriterCovered(w, x) /\ x \in Relations
    BY <1>2 DEF IndInv, WritersCovered
  <2> QED
    BY <1>1, <1>2, <1>3, <2>1 DEF WriterCovered
<1> QED
  BY <1>1, <1>2, <1>3, <1>4, InvalidatingWriter DEF WpcType

\* What recording a database, and replaying it, do to a record.
LEMMA DatabaseRecord ==
    ASSUME NEW q \in PendingType, NEW d \in Databases
    PROVE  /\ RecordAll(q) \in PendingType /\ RecordAll(q).all
           /\ RecordDatabase(q, d) \in PendingType /\ RecordDatabase(q, d).all = q.all
           /\ RecordDatabase(q, d).databases = q.databases \cup {d}
           /\ ForgetDatabase(q, d) \in PendingType
           /\ ForgetDatabase(q, d).all = q.all
           /\ ForgetDatabase(q, d).databases = q.databases \ {d}
<1>1. /\ RecordAll(q) \in PendingType /\ RecordAll(q).all
  BY DEF RecordAll, PendingType
<1>2. /\ RecordDatabase(q, d) \in PendingType /\ RecordDatabase(q, d).all = q.all
      /\ RecordDatabase(q, d).databases = q.databases \cup {d}
  BY DEF RecordDatabase, PendingType
<1>3. /\ ForgetDatabase(q, d) \in PendingType
      /\ ForgetDatabase(q, d).all = q.all
      /\ ForgetDatabase(q, d).databases = q.databases \ {d}
  BY DEF PendingType, ForgetDatabase
<1> QED
  BY <1>1, <1>2, <1>3

\* The same for a table, which leaves the databases of the record alone.
LEMMA TableRecord ==
    ASSUME NEW q \in PendingType, NEW t \in Tables
    PROVE  /\ RecordTable(q, t) \in PendingType /\ RecordTable(q, t).all = q.all
           /\ RecordTable(q, t).databases = q.databases
           /\ ForgetTable(q, t) \in PendingType
           /\ ForgetTable(q, t).all = q.all
           /\ ForgetTable(q, t).databases = q.databases
<1>1. /\ RecordTable(q, t) \in PendingType /\ RecordTable(q, t).all = q.all
      /\ RecordTable(q, t).databases = q.databases
  BY DEF RecordTable, PendingType
<1>2. /\ ForgetTable(q, t) \in PendingType
      /\ ForgetTable(q, t).all = q.all
      /\ ForgetTable(q, t).databases = q.databases
  BY DEF PendingType, ForgetTable
<1> QED
  BY <1>1, <1>2

\* A write in a transaction invalidates its database and records it.
LEMMA TransactionWritePreserves ==
    ASSUME AttachPools = {}, IndInv, NEW w \in Writers, NEW p \in Pools,
           NEW X \in SUBSET Relations, WriteInTransaction(w, p, X)
    PROVE  IndInv'
<1> DEFINE Y == X \cup DOMAIN wrote[w]
           q == RecordDatabase(pending[w], Home[p])
           f == [x \in Y |-> 0]
<1>1. /\ cache_scope[p] = Home[p] /\ Home[p] \in Databases /\ Home[p] # NoDatabase
      /\ Preserved
  BY ScopePreserves DEF WriteInTransaction
<1>2. \A x \in X : x[1] = Home[p]
  BY <1>1 DEF WriteInTransaction, Reach
<1>3. /\ q \in PendingType /\ q.all = pending[w].all
      /\ q.databases = pending[w].databases \cup {Home[p]}
  <2>1. pending[w] \in PendingType
    BY DEF IndInv, TypeOK, PendingType
  <2> QED
    BY <1>1, <2>1, DatabaseRecord
<1>4. pending' = [pending EXCEPT ![w] = q]
  BY <1>1 DEF WriteInTransaction
<1>5. /\ wpc' = [wpc EXCEPT ![w] = "open"] /\ wpc'[w] = "open"
      /\ wpool' = [wpool EXCEPT ![w] = p]
      /\ wrote' = [wrote EXCEPT ![w] = f]
      /\ Y \subseteq Relations
      /\ UNCHANGED <<enabled, cache_scope, readers, data, acked>>
  BY DEF WriteInTransaction, IndInv, TypeOK
<1>6. \A x \in DOMAIN wrote[w] : pending[w].all \/ x[1] \in pending[w].databases
  BY DEF WriteInTransaction, IndInv, WritersCovered, WriterCovered
<1>7. pending'[w] = q
  BY <1>4 DEF IndInv, TypeOK
<1>8. \A x \in Y : WriterCovered(w, x)'
  BY <1>2, <1>3, <1>5, <1>6, <1>7 DEF WriterCovered
<1>9. DOMAIN f = Y /\ \A x \in DOMAIN f : f[x] \in Nat
  OBVIOUS
<1> HIDE DEF f, q
<1> QED
  BY <1>1, <1>3, <1>4, <1>5, <1>8, <1>9, InvalidatingWriter DEF WpcType

\* invalidate_model or clear inside a transaction, and one step of a replay:
\* the record keeps what still covers the writes, or the step just did.
LEMMA RecordStepPreserves ==
    ASSUME AttachPools = {}, IndInv, NEW w \in Writers,
           \/ ClearIn(w) \/ ReplayAll(w)
           \/ \E t \in Tables : InvalidateModelIn(w, t) \/ ReplayTable(w, t)
           \/ \E d \in Databases : ReplayDatabase(w, d)
    PROVE  IndInv'
<1>1. /\ wpc[w] \in {"open", "committed", "unknown", "lost"}
      /\ wpool[w] \in Pools /\ pending[w] \in PendingType
      /\ wpc' = [wpc EXCEPT ![w] = wpc[w]]
      /\ wpool' = [wpool EXCEPT ![w] = wpool[w]]
      /\ wrote' = [wrote EXCEPT ![w] = wrote[w]]
      /\ UNCHANGED <<enabled, cache_scope, readers, wpc, wpool, wrote, data, acked>>
  BY DEF IndInv, TypeOK, PendingType, ClearIn, ReplayAll, InvalidateModelIn, ReplayTable,
         ReplayDatabase, Replaying
<1>2. /\ DOMAIN wrote[w] \subseteq Relations
      /\ \A x \in DOMAIN wrote[w] : wrote[w][x] \in Nat /\ WriterCovered(w, x)
      /\ \A x \in Relations : data[x] \in Nat /\ floor[x] \in Nat
  BY DEF IndInv, TypeOK, WritersCovered
<1> DEFINE Becomes(q) ==
          /\ pending' = [pending EXCEPT ![w] = q]
          /\ Preserved
          /\ \/ q.all /\ wpc[w] = "open"
             \/ floor' = data /\ wpc[w] # "open"
             \/ q.all = pending[w].all /\ q.databases = pending[w].databases
             \/ /\ wpc[w] # "open" /\ q.all = pending[w].all
                /\ \E d \in Databases :
                       /\ q.databases = pending[w].databases \ {d}
                       /\ \A x \in Relations : x[1] = d => floor'[x] = data[x]
<1>3. PICK q \in PendingType : Becomes(q)
  <2>1. CASE ClearIn(w)
    <3>1. RecordAll(pending[w]) \in PendingType /\ RecordAll(pending[w]).all
      BY <1>1 DEF RecordAll, PendingType
    <3> QED
      BY <1>1, <2>1, <3>1, ClearPreserves DEF ClearIn
  <2>2. CASE ReplayAll(w)
    <3>1. Nothing \in PendingType
      BY DEF Nothing, PendingType
    <3> QED
      BY <1>1, <2>2, <3>1, ClearPreserves DEF ReplayAll, Replaying
  <2>3. ASSUME NEW t \in Tables, InvalidateModelIn(w, t)
        PROVE  \E q \in PendingType : Becomes(q)
    <3> DEFINE q == RecordTable(pending[w], t)
    <3>1. q \in PendingType /\ q.all = pending[w].all /\ q.databases = pending[w].databases
      BY <1>1, TableRecord
    <3>2. pending' = [pending EXCEPT ![w] = q] /\ Preserved
      BY <1>1, <2>3, TablePreserves DEF InvalidateModelIn
    <3> HIDE DEF q
    <3> QED
      BY <3>1, <3>2
  <2>4. ASSUME NEW t \in Tables, ReplayTable(w, t)
        PROVE  \E q \in PendingType : Becomes(q)
    <3> DEFINE q == ForgetTable(pending[w], t)
    <3>1. q \in PendingType /\ q.all = pending[w].all /\ q.databases = pending[w].databases
      BY <1>1, TableRecord
    <3>2. pending' = [pending EXCEPT ![w] = q] /\ Preserved
      BY <1>1, <2>4, TablePreserves DEF ReplayTable
    <3> HIDE DEF q
    <3> QED
      BY <3>1, <3>2
  <2>5. ASSUME NEW d \in Databases, ReplayDatabase(w, d)
        PROVE  \E q \in PendingType : Becomes(q)
    <3> DEFINE q == ForgetDatabase(pending[w], d)
    <3>1. /\ q \in PendingType /\ q.all = pending[w].all
          /\ q.databases = pending[w].databases \ {d}
      BY <1>1, DatabaseRecord
    <3>2. pending' = [pending EXCEPT ![w] = q] /\ wpc[w] # "open" /\ InvalidateDatabase(d)
      BY <2>5 DEF ReplayDatabase, Replaying
    <3>3. Preserved /\ \A x \in Relations : x[1] = d => floor'[x] = data[x]
      BY <1>1, <3>2, DatabasePreserves
    <3> HIDE DEF q
    <3> QED
      BY <3>1, <3>2, <3>3
  <2> HIDE DEF Becomes
  <2> QED
    BY <2>1, <2>2, <2>3, <2>4, <2>5
<1>4. pending'[w] = q
  BY <1>3 DEF IndInv, TypeOK
<1>5. ASSUME NEW x \in DOMAIN wrote[w] PROVE WriterCovered(w, x)'
  <2>1. /\ x \in Relations /\ wrote[w][x] \in Nat /\ WriterCovered(w, x)
        /\ floor[x] \in Nat /\ data[x] \in Nat /\ floor'[x] \in Nat
        /\ floor[x] <= floor'[x]
    BY <1>2, <1>3 DEF Preserved, StoreType
  <2>2. wpc'[w] = wpc[w] /\ wrote' = wrote /\ data' = data
    BY <1>1
  <2> QED
    BY <1>1, <1>3, <1>4, <2>1, <2>2 DEF WriterCovered
<1> QED
  BY <1>1, <1>2, <1>3, <1>5, InvalidatingWriter DEF WpcType

\* Every step of a writer keeps the invariant.
LEMMA WriterPreserves ==
    ASSUME AttachPools = {}, IndInv, NEW w \in Writers, WriterStep(w)
    PROVE  IndInv'
<1>1. ASSUME NEW p \in Pools, NEW X \in SUBSET Relations, Send(w, p, X)
      PROVE  IndInv'
  <2> DEFINE f == [x \in X |-> 0]
  <2>1. /\ wpc' = [wpc EXCEPT ![w] = "sent"]
        /\ wpool' = [wpool EXCEPT ![w] = p]
        /\ wrote' = [wrote EXCEPT ![w] = f]
        /\ UNCHANGED <<enabled, store, cache_scope, readers, pending, data, floor, acked>>
    BY <1>1 DEF Send
  <2>2. \A x \in X : x[1] = Home[p]
    BY <1>1, NamesAssumption DEF Send, Reach, IndInv, ScopesFit
  <2>3. DOMAIN f = X /\ \A x \in DOMAIN f : f[x] \in Nat
    OBVIOUS
  <2> HIDE DEF f
  <2>4. /\ wpc' \in [Writers -> WpcType] /\ wpc'[w] = "sent"
        /\ wpool' \in [Writers -> Pools \cup {NoEntry}] /\ wpool'[w] = p
        /\ wrote' = [v \in Writers |-> wrote'[v]] /\ wrote'[w] = f
        /\ \A v \in Writers \ {w} : /\ wpc'[v] = wpc[v] /\ wpool'[v] = wpool[v]
                                    /\ wrote'[v] = wrote[v] /\ pending'[v] = pending[v]
    BY <2>1 DEF IndInv, TypeOK, WpcType
  <2>5. ASSUME NEW v \in Writers
        PROVE  /\ wpc'[v] # "idle" => wpool'[v] \in Pools
               /\ DOMAIN wrote'[v] \subseteq Relations
               /\ \A x \in DOMAIN wrote'[v] : wrote'[v][x] \in Nat
    <3>1. CASE v = w
      BY <2>3, <2>4, <3>1
    <3>2. CASE v # w
      BY <2>4, <3>2 DEF IndInv, TypeOK
    <3> QED
      BY <3>1, <3>2
  <2>6. TypeOK'
    BY <2>1, <2>4, <2>5, QuietTypes DEF IndInv, TypeOK, WpcType
  <2>7. \A x \in DOMAIN wrote'[w] : WriterCovered(w, x)'
    BY <2>2, <2>3, <2>4 DEF WriterCovered
  <2>8. \A x \in Relations : /\ floor'[x] \in Nat /\ floor[x] <= floor'[x]
                             /\ data'[x] \in Nat /\ data[x] <= data'[x]
    BY <2>1 DEF IndInv, TypeOK
  <2>9. WritersCovered'
    BY <2>4, <2>7, <2>8, OneWriter
  <2> QED
    BY <2>1, <2>6, <2>8, <2>9, QuietFrame DEF IndInv, FloorBounds
<1>2. CASE Autocommit(w) \/ Commit(w) \/ LateApply(w)
  BY <1>2, ApplyPreserves DEF Autocommit, Commit, LateApply
<1>3. CASE Rollback(w) \/ GiveUp(w)
  <2>1. /\ Idle(w)
        /\ UNCHANGED <<enabled, store, cache_scope, readers, data, floor, acked>>
    BY <1>3 DEF Rollback, GiveUp
  <2> QED
    BY <2>1, Ranges, IdlePreserves
<1>4. CASE Return(w)
  <2>1. /\ wpc[w] = "committed" /\ ~pending[w].all /\ pending[w].databases = {}
        /\ acked' = [x \in Relations |-> IF x \in DOMAIN wrote[w]
                                         THEN Larger(acked[x], wrote[w][x]) ELSE acked[x]]
        /\ Idle(w)
        /\ UNCHANGED <<enabled, store, cache_scope, readers, data, floor>>
    BY <1>4 DEF Return, Nothing
  <2>2. \A x \in DOMAIN wrote[w] : wrote[w][x] \in Nat /\ wrote[w][x] <= floor[x]
    BY <2>1 DEF IndInv, TypeOK, WritersCovered, WriterCovered
  <2>3. acked' \in [Relations -> Nat] /\ \A x \in Relations : acked'[x] <= floor[x]
    BY <2>1, <2>2 DEF IndInv, TypeOK, FloorBounds, Larger
  <2> QED
    BY <2>1, <2>3, IdlePreserves
<1>5. CASE LoseCommit(w)
  <2>1. /\ wpc[w] = "open" /\ wpc' = [wpc EXCEPT ![w] = "unknown"] /\ wpc'[w] = "unknown"
        /\ \A v \in Writers \ {w} : wpc'[v] = wpc[v]
        /\ wpc' \in [Writers -> WpcType]
        /\ UNCHANGED <<enabled, store, cache_scope, readers, wpool, wrote, pending,
                       data, floor, acked>>
    BY <1>5 DEF LoseCommit, IndInv, TypeOK, WpcType
  <2>2. TypeOK'
    BY <2>1, QuietTypes DEF IndInv, TypeOK, WpcType
  <2>3. \A x \in DOMAIN wrote'[w] : WriterCovered(w, x)'
    BY <2>1 DEF WriterCovered
  <2>4. \A x \in Relations : /\ floor'[x] \in Nat /\ floor[x] <= floor'[x]
                             /\ data'[x] \in Nat /\ data[x] <= data'[x]
    BY <2>1 DEF IndInv, TypeOK
  <2>5. WritersCovered'
    BY <2>1, <2>3, <2>4, OneWriter
  <2> QED
    BY <2>1, <2>2, <2>4, <2>5, QuietFrame DEF IndInv, FloorBounds
<1>6. ASSUME NEW p \in Pools, Attach(w, p) PROVE FALSE
  BY <1>6 DEF Attach
<1> QED
  BY <1>1, <1>2, <1>3, <1>4, <1>5, <1>6, GuardPreserves, TransactionWritePreserves,
     RecordStepPreserves DEF WriterStep

\* Every other step keeps the invariant.
LEMMA CachePreserves ==
    ASSUME AttachPools = {}, IndInv, CacheStep
    PROVE  IndInv'
<1>1. ASSUME NEW k \in Keys, SetTagged(k) \/ Remove(k)
      PROVE  IndInv'
  <2> DEFINE new == [database |-> NoDatabase, seen |-> Rows(k)]
  <2>1. /\ \/ entries' = [entries EXCEPT ![k] = new]
           \/ entries' = [entries EXCEPT ![k] = NoEntry]
        /\ UNCHANGED <<enabled, invalidation_seq, invalidated_at, invalidated_databases,
                       unscoped_invalidated_at, cleared_at, cache_scope, readers, writers,
                       data, floor, acked>>
    BY <1>1 DEF SetTagged, Remove
  <2>2. /\ KeyReads[k] \subseteq Relations /\ new.database = NoDatabase
        /\ new.seen \in [KeyReads[k] -> Nat]
        /\ \A x \in KeyReads[k] : new.seen[x] >= floor[x]
    BY NamesAssumption DEF IndInv, TypeOK, FloorBounds, Rows
  <2>3. new \in Entry(k)
    BY <2>2 DEF Entry, Scope
  <2> HIDE DEF new
  <2>4. \A j \in Keys : \/ entries'[j] = entries[j]
                        \/ entries'[j] = NoEntry
                        \/ j = k /\ entries'[j] = new
    <3>1. entries = [j \in Keys |-> entries[j]]
      BY DEF IndInv, TypeOK
    <3> QED
      BY <2>1, <3>1, Zenon
  <2>5. entries' = [j \in Keys |-> entries'[j]]
    BY <2>1 DEF IndInv, TypeOK
  <2>6. TypeOK'
    BY <2>1, <2>3, <2>4, <2>5 DEF IndInv, TypeOK, readers, writers
  <2>7. SeqBound' /\ FloorBounds'
    BY <2>1 DEF IndInv, SeqBound, FloorBounds, readers
  <2>8. ScopesFit'
    BY <2>1, <2>2, <2>4 DEF IndInv, ScopesFit, readers
  <2>9. EntriesFresh'
    BY <2>1, <2>2, <2>4 DEF IndInv, EntriesFresh
  <2>10. StaleReadsAreRefused'
    BY <2>1 DEF IndInv, StaleReadsAreRefused, InvalidatedSince, readers
  <2>11. WritersCovered'
    BY <2>1, WritersStay
  <2> QED
    BY <2>6, <2>7, <2>8, <2>9, <2>10, <2>11 DEF IndInv
<1>2. ASSUME Preserved, UNCHANGED <<enabled, cache_scope, readers, writers, data>>,
             NEW X \in SUBSET Relations, Announce(X),
             \A x \in X : floor'[x] = data[x]
      PROVE  IndInv'
  <2>1. acked' \in [Relations -> Nat] /\ \A x \in Relations : acked'[x] <= floor'[x]
    BY <1>2 DEF Announce, Larger, IndInv, TypeOK, FloorBounds, Preserved, StoreType
  <2>2. \A x \in Relations : floor'[x] \in Nat /\ floor[x] <= floor'[x]
    BY <1>2 DEF Preserved, StoreType
  <2>3. TypeOK'
    <3>1. /\ StoreType' /\ acked' \in [Relations -> Nat]
          /\ UNCHANGED <<enabled, cache_scope, readers, data, wpc, wpool, wrote, pending>>
      BY <1>2, <2>1 DEF Preserved, writers
    <3> QED
      BY <3>1, InvalidationTypes DEF IndInv, TypeOK
  <2>4. FloorBounds'
    BY <1>2, <2>1 DEF Preserved, FloorBounds
  <2>5. WritersCovered'
    <3>1. \A x \in Relations : data'[x] \in Nat /\ data[x] <= data'[x]
      BY <1>2, Ranges
    <3> QED
      BY <1>2, <2>2, <3>1, WritersKeep
  <2> QED
    BY <1>2, <2>3, <2>4, <2>5 DEF IndInv, Preserved
<1>3. ASSUME NEW t \in Tables, InvalidateModel(t) PROVE IndInv'
  BY <1>2, <1>3, TablePreserves DEF InvalidateModel
<1>4. CASE Clear
  BY <1>2, <1>4, ClearPreserves DEF Clear
<1>5. ASSUME NEW x \in Relations, ForeignWrite(x) PROVE IndInv'
  <2>1. /\ data' \in [Relations -> Nat] /\ \A y \in Relations : data[y] <= data'[y]
        /\ UNCHANGED <<enabled, store, cache_scope, readers, writers, floor, acked>>
    BY <1>5 DEF ForeignWrite, IndInv, TypeOK
  <2>2. TypeOK'
    BY <2>1, QuietTypes DEF IndInv, TypeOK, writers
  <2>3. WritersCovered'
    <3>1. \A y \in Relations : /\ floor'[y] \in Nat /\ floor[y] <= floor'[y]
                               /\ data'[y] \in Nat /\ data[y] <= data'[y]
      BY <2>1, Ranges
    <3> QED
      BY <2>1, <3>1, WritersKeep
  <2>4. \A y \in Relations : acked'[y] <= floor[y]
    BY <2>1, Ranges
  <2> QED
    BY <2>1, <2>2, <2>3, <2>4, QuietFrame
<1>6. CASE SetEnabled
  <2>1. /\ enabled' \in BOOLEAN
        /\ UNCHANGED <<store, cache_scope, readers, writers, data, floor, acked>>
    BY <1>6 DEF SetEnabled, IndInv, TypeOK
  <2>2. TypeOK'
    BY <2>1, SMTT(30) DEF IndInv, TypeOK, store, readers, writers, Entry
  <2>3. WritersCovered'
    BY <2>1, WritersStay
  <2>4. SeqBound' /\ FloorBounds' /\ ScopesFit' /\ EntriesFresh' /\ StaleReadsAreRefused'
    BY <2>1 DEF IndInv, SeqBound, FloorBounds, ScopesFit, EntriesFresh,
                StaleReadsAreRefused, InvalidatedSince, store, readers
  <2> QED
    BY <2>2, <2>3, <2>4 DEF IndInv
<1> QED
  BY <1>1, <1>3, <1>4, <1>5, <1>6 DEF CacheStep

-------------------------------------------------------------------------------
\* Every step keeps the invariant.
LEMMA StepPreserves ==
    ASSUME AttachPools = {}, IndInv, [Next]_vars
    PROVE  IndInv'
<1>1. CASE Next
  BY <1>1, ReaderPreserves, WriterPreserves, CachePreserves DEF Next
<1>2. CASE UNCHANGED vars
  <2>1. /\ UNCHANGED <<enabled, store, cache_scope, readers, floor, data, acked>>
        /\ UNCHANGED <<wpc, wpool, wrote, pending>>
    BY <1>2 DEF vars, writers
  <2>2. TypeOK'
    BY <2>1, QuietTypes DEF IndInv, TypeOK
  <2>3. \A x \in Relations : /\ floor'[x] \in Nat /\ floor[x] <= floor'[x]
                             /\ data[x] <= data'[x] /\ acked'[x] <= floor[x]
    BY <2>1, Ranges
  <2>4. WritersCovered'
    BY <2>1, WritersStay DEF writers
  <2> QED
    BY <2>1, <2>2, <2>3, <2>4, QuietFrame
<1> QED
  BY <1>1, <1>2

\* The initial state satisfies it.
LEMMA InitInv == Init => IndInv
<1> SUFFICES ASSUME Init PROVE IndInv
  OBVIOUS
<1>1. TypeOK
  <2>1. /\ fill_point \in [Readers -> [sequence : Nat, database : Scope]]
        /\ cache_scope \in [Pools -> Scope]
    BY NamesAssumption DEF Init, NoPoint, Scope
  <2>2. pending \in [Writers -> [all : BOOLEAN, databases : SUBSET Databases,
                                 tables : SUBSET Tables]]
    BY DEF Init, Nothing
  <2>3. \A w \in Writers : wrote[w] = [x \in {} |-> 0] /\ DOMAIN wrote[w] = {}
    BY DEF Init
  <2>4. /\ enabled \in BOOLEAN
        /\ entries = [k \in Keys |-> entries[k]] /\ \A k \in Keys : entries[k] = NoEntry
        /\ invalidation_seq \in Nat /\ unscoped_invalidated_at \in Nat /\ cleared_at \in Nat
        /\ invalidated_at \in [Tables -> Nat] /\ invalidated_databases \in [Databases -> Nat]
    BY DEF Init
  <2>5. /\ rpc \in [Readers -> {"idle", "scoped", "reading", "read"}]
        /\ \A r \in Readers : rpc[r] = "idle"
        /\ rkey \in [Readers -> Keys \cup {NoEntry}]
        /\ rows = [r \in Readers |-> rows[r]]
    BY DEF Init
  <2>6. /\ wpc \in [Writers -> {"idle", "sent", "written", "open", "committed", "unknown", "lost"}]
        /\ \A w \in Writers : wpc[w] = "idle"
        /\ wpool \in [Writers -> Pools \cup {NoEntry}]
        /\ wrote = [w \in Writers |-> wrote[w]]
    BY DEF Init
  <2>7. data \in [Relations -> Nat] /\ floor \in [Relations -> Nat] /\ acked \in [Relations -> Nat]
    BY DEF Init
  <2> QED
    BY <2>1, <2>2, <2>3, <2>4, <2>5, <2>6, <2>7 DEF TypeOK
<1>2. SeqBound
  BY DEF Init, SeqBound, NoPoint
<1>3. FloorBounds
  BY DEF Init, FloorBounds
<1>4. EntriesFresh
  BY DEF Init, EntriesFresh
<1>5. StaleReadsAreRefused
  BY DEF Init, StaleReadsAreRefused
<1>6. ScopesFit /\ WritersCovered
  BY DEF Init, ScopesFit, WritersCovered
<1> QED
  BY <1>1, <1>2, <1>3, <1>4, <1>5, <1>6 DEF IndInv

\* Without ATTACH, the invariant holds in every state of every behaviour.
THEOREM Invariance == ASSUME AttachPools = {} PROVE Spec => []IndInv
<1>1. IndInv /\ [Next]_vars => IndInv'
  BY StepPreserves
<1> QED
  BY <1>1, InitInv, PTL DEF Spec

\* The state of the cache, of its readers and of its writers is well typed.
THEOREM TypeCorrect == ASSUME AttachPools = {} PROVE Spec => []TypeOK
<1>1. IndInv => TypeOK
  BY DEF IndInv
<1> QED
  BY <1>1, Invariance, PTL

\* Rows read before a covering invalidation are refused by fill_tagged,
\* whatever the history limit.
THEOREM FillBarrier == ASSUME AttachPools = {} PROVE Spec => []StaleReadsAreRefused
<1>1. IndInv => StaleReadsAreRefused
  BY DEF IndInv
<1> QED
  BY <1>1, Invariance, PTL

\* Once a write, a transaction or an invalidation has returned, the cache
\* holds nothing from before it, for any number of readers, writers, pools
\* and databases.
THEOREM Coherence == ASSUME AttachPools = {} PROVE Spec => []CacheIsCurrent
<1>1. IndInv => CacheIsCurrent
  <2> SUFFICES ASSUME IndInv, NEW k \in Keys, entries[k] # NoEntry, NEW x \in KeyReads[k]
               PROVE  entries[k].seen[x] >= acked[x]
    BY DEF CacheIsCurrent
  <2>1. x \in Relations
    BY NamesAssumption
  <2>2. entries[k].seen[x] \in Nat /\ acked[x] \in Nat /\ floor[x] \in Nat
    BY <2>1 DEF IndInv, TypeOK, Entry
  <2>3. entries[k].seen[x] >= floor[x] /\ acked[x] <= floor[x]
    BY <2>1 DEF IndInv, EntriesFresh, FloorBounds
  <2> QED
    BY <2>2, <2>3
<1> QED
  BY <1>1, Invariance, PTL

-------------------------------------------------------------------------------
(* What an invalidation of one database leaves, ATTACH included            *)

\* Pools have a scope, and a statement under way has its pool.
ScopeTypes ==
    /\ cache_scope \in [Pools -> Scope]
    /\ wpc = [w \in Writers |-> wpc[w]]
    /\ wpool \in [Writers -> Pools \cup {NoEntry}]
    /\ \A w \in Writers : wpc[w] # "idle" => wpool[w] \in Pools

\* Every step keeps it so.
LEMMA ScopeTypesStep ==
    ASSUME ScopeTypes, [Next]_vars PROVE ScopeTypes'
<1>1. ASSUME UNCHANGED <<cache_scope, wpc, wpool>> PROVE ScopeTypes'
  BY <1>1 DEF ScopeTypes
<1>2. ASSUME NEW r \in Readers, ReaderStep(r) PROVE ScopeTypes'
  BY <1>1, <1>2 DEF ReaderStep, Lookup, TakeFillPoint, ReadRows, Fill, Abandon, writers
<1>3. ASSUME CacheStep PROVE ScopeTypes'
  BY Zenon, <1>1, <1>3 DEF CacheStep, SetTagged, Remove, InvalidateModel, ForeignWrite, SetEnabled, Clear, writers
<1>4. ASSUME NEW w \in Writers, WriterStep(w) PROVE ScopeTypes'
  <2>1. ASSUME NEW p \in Pools, NEW X, Send(w, p, X) \/ WriteInTransaction(w, p, X) PROVE ScopeTypes'
    BY <2>1 DEF ScopeTypes, Send, WriteInTransaction
  <2>2. ASSUME NEW p \in Pools, Attach(w, p) PROVE ScopeTypes'
    BY <2>2 DEF ScopeTypes, Attach, Scope
  <2>3. ASSUME Autocommit(w) \/ DropGuard(w) \/ CancelWrite(w) \/ Commit(w) \/ LoseCommit(w) \/ LateApply(w)
        PROVE  ScopeTypes'
    BY <2>3 DEF ScopeTypes, Autocommit, DropGuard, CancelWrite, Commit, LoseCommit, LateApply
  <2>4. ASSUME Rollback(w) \/ Return(w) \/ GiveUp(w) PROVE ScopeTypes'
    BY <2>4 DEF ScopeTypes, Rollback, Return, GiveUp, Idle
  <2>5. ASSUME NEW t \in Tables, InvalidateModelIn(w, t) \/ ReplayTable(w, t) PROVE ScopeTypes'
    BY <1>1, <2>5 DEF InvalidateModelIn, ReplayTable
  <2>6. ASSUME NEW d \in Databases, ReplayDatabase(w, d) PROVE ScopeTypes'
    BY <1>1, <2>6 DEF ReplayDatabase
  <2>7. ASSUME ClearIn(w) \/ ReplayAll(w) PROVE ScopeTypes'
    BY <1>1, <2>7 DEF ClearIn, ReplayAll
  <2>8. QED
    BY <1>4, <2>1, <2>2, <2>3, <2>4, <2>5, <2>6, <2>7 DEF WriterStep
<1>5. ASSUME UNCHANGED vars PROVE ScopeTypes'
  BY <1>1, <1>5 DEF vars, writers
<1>6. QED
  BY <1>2, <1>3, <1>4, <1>5 DEF Next

\* Only an invalidation of one database moves unscoped_invalidated_at.
LEMMA UnscopedMoves ==
    ASSUME ScopeTypes, [Next]_vars, unscoped_invalidated_at' # unscoped_invalidated_at
    PROVE  \E d \in Databases : InvalidateDatabase(d)
<1>1. ASSUME NEW r \in Readers, ReaderStep(r) PROVE FALSE
  BY <1>1 DEF ReaderStep, Lookup, TakeFillPoint, ReadRows, Fill, Abandon, store
<1>2. ASSUME CacheStep PROVE FALSE
  BY Zenon, <1>2 DEF CacheStep, SetTagged, Remove, InvalidateModel, InvalidateTable, NoteInvalidated, ForeignWrite,
     SetEnabled, Clear, ClearStore, store
<1>3. ASSUME NEW w \in Writers, WriterStep(w) PROVE \E d \in Databases : InvalidateDatabase(d)
  <2>1. ASSUME NEW p \in Pools, InvalidateScope(cache_scope[p]) PROVE \E d \in Databases : InvalidateDatabase(d)
    BY <2>1 DEF ScopeTypes, Scope, InvalidateScope, ClearStore
  <2>2. ASSUME NEW p \in Pools, NEW X, Send(w, p, X) \/ WriteInTransaction(w, p, X)
        PROVE  \E d \in Databases : InvalidateDatabase(d)
    BY <2>1, <2>2 DEF Send, WriteInTransaction, store
  <2>3. ASSUME NEW p \in Pools, Attach(w, p) PROVE FALSE
    BY <2>3 DEF Attach, ClearStore
  <2>4. ASSUME DropGuard(w) \/ CancelWrite(w) PROVE \E d \in Databases : InvalidateDatabase(d)
    BY <2>1, <2>4 DEF ScopeTypes, DropGuard, CancelWrite
  <2>5. ASSUME \/ Autocommit(w) \/ Commit(w) \/ LoseCommit(w) \/ LateApply(w) \/ Rollback(w) \/ Return(w) \/ GiveUp(w)
               \/ ClearIn(w) \/ ReplayAll(w)
        PROVE  FALSE
    BY <2>5 DEF Autocommit, Commit, LoseCommit, LateApply, Rollback, Return, GiveUp, ClearIn, ReplayAll, ClearStore, store
  <2>6. ASSUME NEW t \in Tables, InvalidateModelIn(w, t) \/ ReplayTable(w, t) PROVE FALSE
    BY <2>6 DEF InvalidateModelIn, ReplayTable, InvalidateTable, NoteInvalidated
  <2>7. ASSUME NEW d \in Databases, ReplayDatabase(w, d) PROVE \E e \in Databases : InvalidateDatabase(e)
    BY <2>7 DEF ReplayDatabase
  <2>8. QED
    BY <1>3, <2>2, <2>3, <2>4, <2>5, <2>6, <2>7 DEF WriterStep
<1>4. ASSUME UNCHANGED vars PROVE FALSE
  BY <1>4 DEF vars, store
<1>5. QED
  BY <1>1, <1>2, <1>3, <1>4 DEF Next

\* A write to one database takes no entry read from another one out of the cache,
\* also when its marker overflows the history, and whatever is attached
\* (QueryCache::invalidate_database, "Independent databases keep their entries").
THEOREM Independence == Spec => IndependentEntriesStay
<1>1. Init => ScopeTypes
  BY NamesAssumption DEF Init, ScopeTypes, Scope
<1>2. ScopeTypes /\ [Next]_vars => ScopeTypes'
  BY ScopeTypesStep
<1>3. ASSUME ScopeTypes, [Next]_vars, NEW k \in Keys, unscoped_invalidated_at' # unscoped_invalidated_at,
             entries[k] # NoEntry, entries'[k] = NoEntry
      PROVE  \/ entries[k].database = NoDatabase
             \/ invalidated_databases'[entries[k].database] = invalidation_seq'
  <2>1. PICK d \in Databases : InvalidateDatabase(d)
    BY <1>3, UnscopedMoves
  <2>2. entries[k].database \in {NoDatabase, d}
    BY <1>3, <2>1 DEF InvalidateDatabase, RemoveWhere
  <2>3. invalidated_databases'[d] = invalidation_seq'
    BY <2>1 DEF InvalidateDatabase, NoteDatabaseInvalidated
  <2>4. QED
    BY <2>2, <2>3
<1>4. ScopeTypes /\ [Next]_vars =>
        [\A k \in Keys :
            /\ unscoped_invalidated_at' # unscoped_invalidated_at
            /\ entries[k] # NoEntry /\ entries'[k] = NoEntry
            => entries[k].database = NoDatabase
               \/ invalidated_databases'[entries[k].database] = invalidation_seq']_vars
  BY <1>3
<1>5. QED
  BY <1>1, <1>2, <1>4, PTL DEF Spec, IndependentEntriesStay
===============================================================================
