----------------------------- MODULE Aggregates -----------------------------
(***************************************************************************)
(* An owner and its has_many collection, saved together through an entity  *)
(* manager (src/src/relations/state.rs, helpers.rs, direct/has_many.rs,    *)
(* entity_manager/save.rs and the wiring derived for a model).  The caller *)
(* loads the collection, edits it, gives the owner another key, sends it   *)
(* through JSON and saves it; another session writes the same rows.        *)
(***************************************************************************)
EXTENDS Naturals, FiniteSets

CONSTANTS
    Owners,    \* keys owners are stored under
    Children,  \* keys children are or will be stored under
    Unsaved,   \* the key of an owner not yet inserted
    None,
    Unborn,    \* no child has had this key yet
    Gone       \* the child was deleted

VARIABLES
    child_rows,   \* child |-> the owner its row names, Unborn or Gone
    identity_map, \* child |-> the owner its tracked copy names, or None
    owner,        \* the caller's model: its id and the state of its relation
    taken,        \* children the caller took out of the collection as loaded
    made_for      \* whose children the collection was read as: Unsaved if the caller made it

aggregate_vars == <<child_rows, identity_map, owner, taken, made_for>>

NewChild == "new child"

DefaultState == [cached |-> None, loaded |-> FALSE, key |-> None, managed |-> FALSE, loaded_keys |-> None]

AggregatesInit ==
    /\ child_rows \in [Children -> Owners \cup {Unborn}]
    /\ identity_map = [c \in Children |-> None]
    /\ \E id \in Owners \cup {Unsaved} : owner = [id |-> id, relation |-> [DefaultState EXCEPT !.key = id]]
    /\ taken = {}
    /\ made_for = Unsaved

Rows(o) == {c \in Children : child_rows[c] = o}

-------------------------------------------------------------------------------
(* The state of a relation field                                           *)

owner_is_unsaved(key) == key \in {None, Unsaved}

set_cached(state, value) == [state EXCEPT !.cached = value, !.loaded = TRUE]

can_query(state) == state.key # None /\ ~state.managed

\* Mutant: what was loaded for one owner is kept for the next
preserve_from_any(state, previous) ==
    [state EXCEPT !.cached = previous.cached,
                  !.loaded = state.loaded \/ previous.loaded,
                  !.managed = state.managed \/ previous.managed,
                  !.loaded_keys = IF state.loaded_keys = None THEN previous.loaded_keys ELSE state.loaded_keys]

\* The rebuilt relation keeps what the previous one held if both are of one
\* owner; what the caller attached to an owner without a key stays as well
preserve_from(state, previous) ==
    LET same_relation == state.key = previous.key
        keeps == same_relation \/ (owner_is_unsaved(previous.key) /\ previous.cached # None)
    IN  [state EXCEPT
            !.cached = IF keeps THEN previous.cached ELSE @,
            !.loaded = @ \/ (keeps /\ previous.loaded),
            !.managed = @ \/ (same_relation /\ previous.managed),
            !.loaded_keys = IF same_relation /\ @ = None THEN previous.loaded_keys ELSE @]

\* __wire_relations: a new relation under the model's present key, then the
\* state of the previous one
wire_relations(model, previous) ==
    [model EXCEPT !.relation = preserve_from([DefaultState EXCEPT !.key = model.id], previous)]

\* JSON holds the collection and nothing else of the state
through_json(state) == [DefaultState EXCEPT !.cached = state.cached, !.loaded = state.cached # None]

\* load: the collection as cached where no database is to be asked
load(state) == IF state.loaded /\ ~can_query(state)
               THEN IF state.cached = None THEN {} ELSE state.cached
               ELSE Rows(state.key)

-------------------------------------------------------------------------------
(* The caller                                                              *)

\* load_with_entity_manager: what is cached stays, else the rows are read; each
\* child is registered, and the keys are the baseline of the next save
LoadInManager ==
    LET state == owner.relation
        models == IF state.cached # None THEN state.cached ELSE Rows(state.key)
    IN  /\ state.key # None
        /\ owner' = [owner EXCEPT !.relation =
                        [set_cached(state, models) EXCEPT !.managed = TRUE, !.loaded_keys = models \ {NewChild}]]
        /\ identity_map' = [c \in Children |-> IF c \in models /\ identity_map[c] = None /\ child_rows[c] \in Owners
                                               THEN child_rows[c] ELSE identity_map[c]]
        /\ made_for' = IF state.cached = None THEN state.key ELSE made_for
        /\ taken' = {}
        /\ UNCHANGED child_rows

\* set_cached: a list of the caller's own
SetCached(models) ==
    /\ owner' = [owner EXCEPT !.relation = set_cached(@, models)]
    /\ taken' = IF owner.relation.cached = None THEN taken ELSE (taken \cup owner.relation.cached) \ models
    /\ made_for' = Unsaved
    /\ UNCHANGED <<child_rows, identity_map>>

\* as_mut: the caller changes the list in place
Edit ==
    LET cached == owner.relation.cached
    IN  /\ cached # None
        /\ \/ \E c \in cached :
                 /\ owner' = [owner EXCEPT !.relation.cached = @ \ {c}]
                 /\ taken' = taken \cup {c}
           \/ /\ NewChild \notin cached
              /\ owner' = [owner EXCEPT !.relation.cached = @ \cup {NewChild}]
              /\ UNCHANGED taken
        /\ UNCHANGED <<child_rows, identity_map, made_for>>

\* The model under another key, its relations wired again
Rekey(id) ==
    /\ id # owner.id
    /\ owner' = wire_relations([owner EXCEPT !.id = id], owner.relation)
    /\ taken' = {}
    /\ UNCHANGED <<child_rows, identity_map, made_for>>

\* The model serialized, deserialized and wired
ThroughJson ==
    /\ owner' = wire_relations(owner, through_json(owner.relation))
    /\ taken' = {}
    /\ made_for' = Unsaved
    /\ UNCHANGED <<child_rows, identity_map>>

-------------------------------------------------------------------------------
(* Saving                                                                  *)

removed_keys(baseline, current) == IF baseline = None THEN {} ELSE baseline \ current

\* __delete_detached_entities: of the removed children, those the manager tracks
delete_detached(baseline, current) == {c \in removed_keys(baseline, current) : identity_map[c] # None}

\* A child equal to its tracked copy is not written again
Written(children, id) == {c \in children : identity_map[c] # id}

\* sync_owned_children: what a save does to the children of a loaded collection
sync_owned_children(state, id) ==
    LET current == (IF state.cached = None THEN {} ELSE state.cached) \ {NewChild}
    IN  [current |-> current, detached |-> delete_detached(state.loaded_keys, current), written |-> Written(current, id)]

\* save_in_scope: the owner is stored (and numbered), its relations are wired
\* again from the caller's, and a loaded collection is synced: detached children
\* are deleted, the others take the owner's key and are saved.  A child whose row
\* is gone fails the save, which is rolled back as a whole.
Save ==
    \E id \in IF owner.id = Unsaved THEN Owners ELSE {owner.id} :
        LET saved == wire_relations([owner EXCEPT !.id = id], owner.relation)
            state == saved.relation
            sync == sync_owned_children(state, id)
            adds == state.cached # None /\ NewChild \in state.cached
        IN  IF ~state.loaded
            THEN /\ owner' = saved
                 /\ taken' = {}
                 /\ UNCHANGED <<child_rows, identity_map, made_for>>
            ELSE IF \E c \in sync.written : child_rows[c] \notin Owners
            THEN UNCHANGED aggregate_vars
            ELSE \E born \in {s \in SUBSET Rows(Unborn) : Cardinality(s) = IF adds THEN 1 ELSE 0} :
                 LET after == sync.current \cup born
                 IN  /\ child_rows' = [c \in Children |-> IF c \in sync.detached THEN Gone
                                                          ELSE IF c \in sync.written \cup born THEN id
                                                          ELSE child_rows[c]]
                     /\ identity_map' = [c \in Children |-> IF c \in after THEN id
                                                            ELSE IF c \in removed_keys(state.loaded_keys, sync.current) THEN None
                                                            ELSE identity_map[c]]
                     /\ owner' = [saved EXCEPT !.relation.cached = IF @ = None THEN None ELSE after,
                                               !.relation.loaded_keys = after]
                     /\ taken' = {}
                     /\ made_for' = IF made_for = Unsaved THEN id ELSE made_for

\* clear: the manager forgets what it tracked
Clear ==
    /\ identity_map' = [c \in Children |-> None]
    /\ UNCHANGED <<child_rows, owner, taken, made_for>>

-------------------------------------------------------------------------------
\* Another session inserts a child, deletes one or gives it to another owner
Beside ==
    /\ \E c \in Children : \E to \in Owners \cup {Gone} :
        /\ IF to = Gone THEN child_rows[c] \in Owners ELSE child_rows[c] \notin {to, Gone}
        /\ child_rows' = [child_rows EXCEPT ![c] = to]
    /\ UNCHANGED <<identity_map, owner, taken, made_for>>

AggregatesNext ==
    \/ LoadInManager
    \/ \E models \in {{}} \cup {{c} : c \in {x \in Children : child_rows[x] \in Owners}} : SetCached(models)
    \/ Edit
    \/ \E id \in Owners \cup {Unsaved} : Rekey(id)
    \/ ThroughJson
    \/ Save
    \/ Clear
    \/ Beside

-------------------------------------------------------------------------------
\* What has been read as one owner's children is never another owner's
\* collection, so neither load nor a save shows or moves it; and a save deletes
\* no child but those the caller took out of the collection it had loaded: not
\* one another session added, not one of a key the model had before, and none at
\* all of a collection that came through JSON.
CollectionsAreTheOwners ==
    /\ owner.relation.loaded /\ owner.relation.cached # None => made_for \in {Unsaved, owner.relation.key}
    /\ owner.relation.loaded_keys # None => made_for \in {Unsaved, owner.relation.key}
OnlyWhatWasTakenOut ==
    \A c \in Children : (child_rows[c] \in Owners /\ child_rows'[c] = Gone /\ owner' # owner) => c \in taken
AggregateIsWhole == CollectionsAreTheOwners' /\ OnlyWhatWasTakenOut
=============================================================================
