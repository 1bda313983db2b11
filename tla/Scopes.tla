------------------------------- MODULE Scopes -------------------------------
(***************************************************************************)
(* Which connection a statement runs on (src/src/database/state.rs,        *)
(* core.rs, mod.rs, internal/per_poll.rs).  A connection scope is a        *)
(* thread-local installed around each poll of a future, so that it follows *)
(* the future from thread to thread; a handle joins the innermost          *)
(* transaction of its own database, told by the identity its pool was      *)
(* given.  Pools are dropped and others allocated at their addresses.      *)
(***************************************************************************)
EXTENDS Naturals, Sequences, FiniteSets, SequencesExt, FiniteSetsExt

CONSTANTS
    Pools,             \* numbered as they are opened
    Addresses, Tasks, Threads,
    NoPool, NoThread, NoPlace,
    Unknown,           \* the identity of a handle on a transaction
    MaxIdentities,     \* identities handed out
    MaxScopes          \* scopes open at once

VARIABLES
    pools,       \* pool |-> [at, of: the pool whose database it reaches, live]
    identities,  \* [last_id, assigned, aliases]: address |-> [pool, id]
    global,      \* the global pool, or NoPool
    tasks,       \* task |-> [layers: its scopes, outermost first; on: the thread polling it]
    slot,        \* thread |-> the scope installed there, as the chain of connections, innermost first
    polls        \* thread |-> the polls under way, outermost first: [task, saved]

scope_vars == <<pools, identities, global, tasks, slot, polls>>

\* ConnectionRef: a pool, or a transaction and the identity it was begun under
OnPool(p, id) == [tx |-> 0, pool |-> p, origin |-> id]
OnTransaction(n, connection) == [connection EXCEPT !.tx = n]

ScopesInit ==
    /\ pools = [p \in Pools |-> [at |-> NoPlace, of |-> p, live |-> FALSE]]
    /\ identities = [last_id |-> 0, assigned |-> <<>>, aliases |-> <<>>]
    /\ global = NoPool
    /\ tasks = [t \in Tasks |-> [layers |-> <<>>, on |-> NoThread]]
    /\ slot = [th \in Threads |-> <<>>]
    /\ polls = [th \in Threads |-> <<>>]

-------------------------------------------------------------------------------
(* Identities                                                              *)

Live(p) == pools[p].live

\* The entries whose pool is alive
Retained(entries) == [a \in {x \in DOMAIN entries : Live(entries[x].pool)} |-> entries[a]]

With(entries, a, p, id) == [x \in DOMAIN entries \cup {a} |-> IF x = a THEN [pool |-> p, id |-> id] ELSE entries[x]]

\* Mutant: numbers are counted from the entries still there.
identify_by_count(ids, p) ==
    LET a == pools[p].at
        assigned == Retained(ids.assigned)
        id == Cardinality(DOMAIN assigned) + 1
    IN  IF a \in DOMAIN ids.assigned THEN [ids |-> ids, id |-> ids.assigned[a].id]
        ELSE IF a \in DOMAIN ids.aliases THEN [ids |-> ids, id |-> ids.aliases[a].id]
        ELSE [ids |-> [last_id |-> id, assigned |-> With(assigned, a, p, id), aliases |-> Retained(ids.aliases)], id |-> id]

\* ConnectionIdentities::identify: the one on record at the pool's address, or the
\* next one, dead entries being dropped first
identify(ids, p) ==
    LET a == pools[p].at
        id == ids.last_id + 1
    IN  IF a \in DOMAIN ids.assigned THEN [ids |-> ids, id |-> ids.assigned[a].id]
        ELSE IF a \in DOMAIN ids.aliases THEN [ids |-> ids, id |-> ids.aliases[a].id]
        ELSE [ids |-> [last_id |-> id, assigned |-> With(Retained(ids.assigned), a, p, id), aliases |-> Retained(ids.aliases)],
              id |-> id]

\* The next pool to be opened
IsNext(p) == \A q \in Pools : (pools[q].at = NoPlace) <=> q >= p

CanIdentify(p) == identify(identities, p).id <= MaxIdentities

\* An address is free when no pool is there and no Weak of a dropped one is on record.
IsFree(a) ==
    /\ \A p \in Pools : Live(p) => pools[p].at # a
    /\ a \notin DOMAIN identities.assigned \cup DOMAIN identities.aliases

\* connect
Open(p, a) ==
    /\ IsNext(p) /\ IsFree(a)
    /\ pools' = [pools EXCEPT ![p] = [at |-> a, of |-> p, live |-> TRUE]]
    /\ UNCHANGED <<identities, global, tasks, slot, polls>>

\* The new pool at `a` is known by the identity of `original`.
alias_connection_identity(p, a, original) ==
    LET given == identify(identities, original)
    IN  [given.ids EXCEPT !.aliases = With(Retained(@), a, p, given.id)]

\* sharing_identity_of: another pool on the database of `original`
OpenBeside(p, a, original) ==
    /\ IsNext(p) /\ IsFree(a) /\ Live(original) /\ CanIdentify(original)
    /\ pools' = [pools EXCEPT ![p] = [at |-> a, of |-> pools[original].of, live |-> TRUE]]
    /\ identities' = alias_connection_identity(p, a, original)
    /\ UNCHANGED <<global, tasks, slot, polls>>

\* The last handle on a pool is dropped; a scope on the pool holds one, a
\* transaction does not.
Drop(p) ==
    /\ Live(p) /\ global # p
    /\ \A t \in Tasks, i \in 1..MaxScopes :
        i <= Len(tasks[t].layers) => \A j \in DOMAIN tasks[t].layers[i] : tasks[t].layers[i][j] # OnPool(p, tasks[t].layers[i][j].origin)
    /\ pools' = [pools EXCEPT ![p].live = FALSE]
    /\ UNCHANGED <<identities, global, tasks, slot, polls>>

\* set_global, reset_global
SetGlobal(p) ==
    /\ global = NoPool \/ p = NoPool
    /\ p # global /\ (p # NoPool => Live(p))
    /\ global' = p
    /\ UNCHANGED <<pools, identities, tasks, slot, polls>>

-------------------------------------------------------------------------------
(* The connection of a statement                                           *)

Joins(own, connection) == own = Unknown \/ own = connection.origin

\* enclosing_transaction: of the innermost scope of this identity, if it is one
enclosing_transaction(chain, own) ==
    LET joined == {i \in DOMAIN chain : Joins(own, chain[i])}
    IN  IF joined = {} \/ chain[Min(joined)].tx = 0 THEN {} ELSE {chain[Min(joined)]}

\* __get_connection of a handle on `own`
get_connection(chain, own) ==
    LET transaction == enclosing_transaction(chain, IF own.tx = 0 THEN own.origin ELSE Unknown)
    IN  IF transaction # {} THEN CHOOSE c \in transaction : TRUE ELSE own

\* __current_connection: of a model's statement without a handle
current_connection(chain) == IF chain # <<>> THEN {chain[1]}
                             ELSE IF global = NoPool THEN {} ELSE {OnPool(global, identify(identities, global).id)}

\* with_loading_connection: the pool a model's relations will ask
loading_pool(connection) ==
    IF connection.tx = 0 THEN {connection.pool}
    ELSE {p \in Pools : /\ Live(p)
                        /\ \E a \in DOMAIN identities.assigned : identities.assigned[a] = [pool |-> p, id |-> connection.origin]}

-------------------------------------------------------------------------------
(* Polls                                                                   *)

Running(th) == polls[th] # <<>>
Top(th) == Last(polls[th])
Layers(th) == tasks[Top(th).task].layers

\* A thread polls a task: the runtime's, or one the running body blocks on.  Each
\* layer's scope is installed over what was there.
Poll(th, t) ==
    /\ tasks[t].on = NoThread
    /\ LET layers == tasks[t].layers
           installed == <<slot[th]>> \o layers
       IN  /\ polls' = [polls EXCEPT ![th] = Append(@, [task |-> t, saved |-> SubSeq(installed, 1, Len(layers))])]
           /\ slot' = [slot EXCEPT ![th] = Last(installed)]
    /\ tasks' = [tasks EXCEPT ![t].on = th]
    /\ UNCHANGED <<pools, identities, global>>

\* Mutant: the scope of a pending future stays where it was installed.
Restored_held(th) == slot[th]

\* The guards of the poll drop, innermost first
Restored(th) == IF Top(th).saved = <<>> THEN slot[th] ELSE Top(th).saved[1]

\* The poll returns pending, or panics, or the task ends
Return(th) ==
    /\ Running(th)
    /\ slot' = [slot EXCEPT ![th] = Restored(th)]
    /\ polls' = [polls EXCEPT ![th] = Front(@)]
    /\ tasks' = [tasks EXCEPT ![Top(th).task].on = NoThread]
    /\ UNCHANGED <<pools, identities, global>>

\* with_connection_override: a scope inside the one it is called in, then the
\* first poll of its future
Enter(th, connection) ==
    LET chain == <<connection>> \o slot[th]
    IN  /\ tasks' = [tasks EXCEPT ![Top(th).task].layers = Append(@, chain)]
        /\ slot' = [slot EXCEPT ![th] = chain]
        /\ polls' = [polls EXCEPT ![th][Len(polls[th])].saved = Append(@, slot[th])]

ScopesOpen == FoldSet(LAMBDA t, n : Len(tasks[t].layers) + n, 0, Tasks)

CanEnter(th, p) == Running(th) /\ ScopesOpen < MaxScopes /\ Len(slot[th]) < MaxScopes /\ Live(p) /\ CanIdentify(p)

\* Database::transaction through a handle on `p`: a savepoint of the transaction
\* the handle joins, or a transaction of its pool
Transaction(th, p) ==
    /\ CanEnter(th, p)
    /\ LET given == identify(identities, p)
       IN  /\ identities' = given.ids
           /\ Enter(th, OnTransaction(Len(slot[th]) + 1, get_connection(slot[th], OnPool(p, given.id))))
    /\ UNCHANGED <<pools, global>>

\* __in_db_scope: the connection a handle on `p` uses, as the scope's
InDbScope(th, p) ==
    /\ CanEnter(th, p)
    /\ LET given == identify(identities, p)
       IN  /\ identities' = given.ids
           /\ Enter(th, get_connection(slot[th], OnPool(p, given.id)))
    /\ UNCHANGED <<pools, global>>

\* The innermost scope's future completes inside the poll.
Leave(th) ==
    /\ Running(th) /\ Layers(th) # <<>>
    /\ tasks' = [tasks EXCEPT ![Top(th).task].layers = Front(@)]
    /\ slot' = [slot EXCEPT ![th] = Last(Top(th).saved)]
    /\ polls' = [polls EXCEPT ![th][Len(polls[th])].saved = Front(@)]
    /\ UNCHANGED <<pools, identities, global>>

\* A suspended task is dropped with its scopes.
Cancel(t) ==
    /\ tasks[t].on = NoThread /\ tasks[t].layers # <<>>
    /\ tasks' = [tasks EXCEPT ![t].layers = <<>>]
    /\ UNCHANGED <<pools, identities, global, slot, polls>>

ScopesNext ==
    \/ \E p \in Pools, a \in Addresses : Open(p, a) \/ \E original \in Pools : OpenBeside(p, a, original)
    \/ \E p \in Pools : Drop(p)
    \/ \E p \in Pools \cup {NoPool} : SetGlobal(p)
    \/ \E th \in Threads : \E t \in Tasks : Poll(th, t)
    \/ \E th \in Threads : Return(th) \/ Leave(th)
    \/ \E th \in Threads, p \in Pools : Transaction(th, p) \/ InDbScope(th, p)
    \/ \E t \in Tasks : Cancel(t)

-------------------------------------------------------------------------------
(* Properties                                                              *)

SameDatabase(p, q) == pools[p].of = pools[q].of

\* The scope a running body must find: its task's own, or, if it opened none,
\* that of the body that blocks on it
RECURSIVE ScopeAt(_, _)
ScopeAt(th, depth) ==
    IF depth = 0 THEN <<>>
    ELSE LET layers == tasks[polls[th][depth].task].layers
         IN  IF layers = <<>> THEN ScopeAt(th, depth - 1) ELSE Last(layers)

\* What a handle on `p` must run on: the innermost transaction of its database,
\* unless a scope on its pool itself is nearer
Expected(chain, p) ==
    LET own == {i \in DOMAIN chain : SameDatabase(chain[i].pool, p)}
    IN  IF own # {} /\ chain[Min(own)].tx # 0 THEN chain[Min(own)] ELSE OnPool(p, identify(identities, p).id)

\* Whatever thread polls a task, and whatever it polled before, the task's
\* statements find its own scopes and no other's; a handle joins the innermost
\* transaction of its own database and none of another, even if that one's pool
\* was dropped and its address taken, while one on the current scope keeps to it;
\* and a model read in a transaction keeps a pool of that database for its
\* relations.
ScopesFollowTheirFutures ==
    \A th \in Threads :
        /\ slot[th] = ScopeAt(th, Len(polls[th]))
        /\ \A p \in Pools : Live(p) => get_connection(slot[th], OnPool(p, identify(identities, p).id)) = Expected(slot[th], p)
        /\ \A own \in current_connection(slot[th]) : get_connection(slot[th], own) = own
        /\ \A i \in DOMAIN slot[th] : \A p \in loading_pool(slot[th][i]) : SameDatabase(p, slot[th][i].pool)
===============================================================================
