------------------------------ MODULE Relations ------------------------------
(***************************************************************************)
(* What a relation loads: lazily, one statement for one owner, and eagerly, *)
(* one statement per level for all owners, whose rows are then handed back  *)
(* to the owners by key (src/src/relations: direct, eager, many_to_many,    *)
(* polymorphic, self_referencing, helpers).                                *)
(* The database compares keys under a collation; the program compares      *)
(* their text.  Then the wrappers a model's relation fields are (state),    *)
(* and the flat rows of a join regrouped into parents with their children  *)
(* (query/structure/consolidation.rs).                                     *)
(***************************************************************************)
EXTENDS Integers, Sequences, SequencesExt

CONSTANTS
    KeysPerQuery,           \* __load_grouped_by_key's 5,000
    PairedKeysPerQuery,     \* PAIRED_KEYS_PER_QUERY
    None,                   \* no row: an outer join found none
    NoType                  \* no parent table, or a NULL type column

\* A key: a number or a text, of one letter, in either case, plain or accented
Key(letter, upper, accent) == [letter |-> letter, upper |-> upper, accent |-> accent, number |-> FALSE]
NumberKey(digit) == [letter |-> digit, upper |-> FALSE, accent |-> FALSE, number |-> TRUE]
NullKey == NumberKey("null")

\* __relation_key: the key's text
relation_key(key) == [key EXCEPT !.number = FALSE]

\* How the column compares (the database's)
Collated(collation, key) ==
    CASE collation = "exact" -> relation_key(key)
      [] collation = "no_case" -> [relation_key(key) EXCEPT !.upper = key.upper /\ key.accent]
      [] collation = "no_accent" -> [relation_key(key) EXCEPT !.upper = FALSE, !.accent = FALSE]

Matches(collation, a, b) == a # NullKey /\ b # NullKey /\ Collated(collation, a) = Collated(collation, b)

\* A model's query: live rows whose column is one of the keys, of a type if one is named
Where(base, rows, column, keys, type) ==
    SelectSeq(rows, LAMBDA r : /\ ~r.trashed
                               /\ type = "any" \/ r.type = type
                               /\ \E k \in keys : Matches(base.collation, r[column], k))

\* F of each element, in order; the concatenation makes TLC compute it once.
Each(s, F(_)) == [i \in DOMAIN s |-> F(s[i])] \o <<>>
Places(s) == [i \in DOMAIN s |-> i]

DistinctBy(s, F(_)) ==
    Each(SelectSeq(Places(s), LAMBDA i : \A j \in 1..(i - 1) : F(s[j]) # F(s[i])), LAMBDA i : s[i])

SplitBy(s, n) ==
    Each([b \in 1..((Len(s) + n - 1) \div n) |-> b],
         LAMBDA b : SubSeq(s, (b - 1) * n + 1, IF b * n < Len(s) THEN b * n ELSE Len(s)))

-------------------------------------------------------------------------------
(* Lazy loads                                                              *)

\* where_key: a NULL key matches no row
where_key(base, rows, column, key, type) ==
    IF key = NullKey THEN <<>> ELSE Where(base, rows, column, {key}, type)

\* HasManyThrough::load_query: the related rows whose key is among the live links'
load_query(base, key) ==
    LET links == where_key(base, base.links, "parent", key, "any")
    IN  Where(base, base.rows, "own", {links[i].related : i \in DOMAIN links}, "any")

\* The relations of a model: the column of its own that keys it, the related
\* column, the type a polymorphic one adds, and whether it is to one.
Relation(name) ==
    CASE name = "has_many" -> [local |-> "own", column |-> "key", type |-> "any", one |-> FALSE]
      [] name = "has_one" -> [local |-> "own", column |-> "key", type |-> "any", one |-> TRUE]
      [] name = "belongs_to" -> [local |-> "key", column |-> "own", type |-> "any", one |-> TRUE]
      [] name = "morph_many" -> [local |-> "own", column |-> "key", type |-> "m", one |-> FALSE]
      [] name = "through" -> [local |-> "own", column |-> "own", type |-> "any", one |-> FALSE]

Lazily(base, name, owner) ==
    LET rel == Relation(name)
        key == owner[rel.local]
    IN  IF name = "through" THEN load_query(base, key)
        ELSE where_key(base, base.rows, rel.column, key, rel.type)

-------------------------------------------------------------------------------
(* Eager loads                                                             *)

\* Whether two of the keys could match one stored key
fold_together(keys) ==
    LET texts == SelectSeq(keys, LAMBDA k : ~k.number)
    IN  /\ Len(texts) > 1
        /\ \/ \E k \in Range(texts) : k.accent
           \/ \E i, j \in DOMAIN texts :
                 i # j /\ [texts[i] EXCEPT !.upper = FALSE] = [texts[j] EXCEPT !.upper = FALSE]

\* Mutant: the index a lookup reports counts from its own batch.
matching_keys_by_batch(base, rows, column, keys, type) ==
    LET batches == SplitBy(keys, PairedKeysPerQuery)
    IN  UNION {{[stored |-> relation_key(r[column]), key |-> relation_key(keys[i])]
                  : r \in Range(Where(base, rows, column, {batches[b][i]}, type))}
               : <<b, i>> \in {p \in (DOMAIN batches) \X (1..PairedKeysPerQuery) : p[2] \in DOMAIN batches[p[1]]}}

\* Which keys each stored key matches: a lookup per key, by its index
matching_keys(base, rows, column, keys, type) ==
    LET batches == SplitBy(keys, PairedKeysPerQuery)
        IndexOf(b, i) == (b - 1) * PairedKeysPerQuery + i
    IN  UNION {{[stored |-> relation_key(r[column]), key |-> relation_key(keys[IndexOf(b, i)])]
                  : r \in Range(Where(base, rows, column, {batches[b][i]}, type))}
               : <<b, i>> \in {p \in (DOMAIN batches) \X (1..PairedKeysPerQuery) : p[2] \in DOMAIN batches[p[1]]}}

Stored(r, column) == relation_key(r[column])

\* Mutant: rows always belong to the owner whose key they spell.
PairsOfByText(base, rows, column, chunk, type, found) == {}

\* The keys each row found belongs to, where that is not the key it spells: a
\* row has another spelling, or two keys asked for may match one row.
PairsOf(base, rows, column, chunk, type, found) ==
    IF /\ \A r \in Range(found) : \E k \in Range(chunk) : Stored(r, column) = relation_key(k)
       /\ ~fold_together(chunk)
    THEN {} ELSE matching_keys(base, rows, column, chunk, type)

RowsByKey(found, column, pairs, requested) ==
    {[key |-> k,
      rows |-> SelectSeq(found, LAMBDA r :
                   IF \E p \in pairs : p.stored = Stored(r, column)
                   THEN [stored |-> Stored(r, column), key |-> k] \in pairs
                   ELSE Stored(r, column) = k)] : k \in requested}

\* The rows of one query for a chunk of keys, by the key they belong to
FoundByKey(base, rows, column, chunk, type, found) ==
    RowsByKey(found, column, PairsOf(base, rows, column, chunk, type, found), {relation_key(k) : k \in Range(chunk)})
GroupedByKey(base, rows, column, chunk, type) ==
    FoundByKey(base, rows, column, chunk, type, Where(base, rows, column, Range(chunk), type))

\* __load_grouped_by_key: every key once, no NULL, a query per chunk
load_grouped_by_key(base, rows, column, keys, type) ==
    UNION {GroupedByKey(base, rows, column, chunk, type) :
               chunk \in Range(SplitBy(DistinctBy(SelectSeq(keys, LAMBDA k : k # NullKey), relation_key), KeysPerQuery))}

GroupOf(groups, key) ==
    LET mine == {g \in groups : g.key = relation_key(key)}
    IN  IF mine = {} THEN <<>> ELSE (CHOOSE g \in mine : TRUE).rows

\* per_parent_key: a group moves out at its key's last place
per_parent_key(keys, groups) ==
    LET SameKey(i, j) == relation_key(keys[i]) = relation_key(keys[j])
        IsLast(i) == \A j \in DOMAIN keys : SameKey(i, j) => j <= i
        Taken(i) == \E j \in 1..(i - 1) : SameKey(i, j) /\ IsLast(j)
    IN  Each(Places(keys), LAMBDA i : IF Taken(i) THEN <<>> ELSE GroupOf(groups, keys[i]))

\* __eager_through: the links of all owners, then the rows they link, each row once
RelatedRows(keys, links, related) ==
    Each(keys, LAMBDA key : DistinctBy(FlattenSeq(Each(GroupOf(links, key), LAMBDA link : GroupOf(related, link.related))),
                                       LAMBDA r : r.id))
RelatedKeys(links) == SetToSeq(UNION {{link.related : link \in Range(g.rows)} : g \in links})
LinkedRows(base, keys, links) ==
    RelatedRows(keys, links, load_grouped_by_key(base, base.rows, "own", RelatedKeys(links), "any"))
eager_through(base, keys) == LinkedRows(base, keys, load_grouped_by_key(base, base.links, "parent", keys, "any"))

\* __eager_keyed_many, __eager_keyed_one and __eager_through
FirstsOf(groups) == Each(groups, LAMBDA g : SubSeq(g, 1, IF g = <<>> THEN 0 ELSE 1))
KeyedGroups(base, rel, keys) ==
    per_parent_key(keys, load_grouped_by_key(base, base.rows, rel.column, keys, rel.type))
LoadByKeys(base, name, rel, keys) ==
    IF name = "through" THEN eager_through(base, keys)
    ELSE IF rel.one THEN FirstsOf(KeyedGroups(base, rel, keys)) ELSE KeyedGroups(base, rel, keys)
EagerGroups(base, name, owners) ==
    LoadByKeys(base, name, Relation(name), Each(owners, LAMBDA o : o[Relation(name).local]))

\* RelationTree: the paths asked for, each with what leads to it
add_path(tree, path) == tree \cup {SubSeq(path, 1, n) : n \in 1..Len(path)}
roots(tree) == {p[1] : p \in tree}
get_nested(tree, name) == {Tail(p) : p \in {q \in tree : Len(q) > 1 /\ q[1] = name}}

\* SplitBack: __eager_load_nested_many's groups restored by their sizes
SplitBack(groups, flat) ==
    LET Before(i) == FoldLeft(LAMBDA n, g : n + Len(g), 0, SubSeq(groups, 1, i - 1))
    IN  Each(Places(groups), LAMBDA i : SubSeq(flat, Before(i) + 1, Before(i) + Len(groups[i])))

\* __eager_load: each root for all owners at once, then the next level for all
\* that was found.  A result is what each relation holds, and the rows' own.
WithRelations(flat, nested) == Each(Places(flat), LAMBDA i : [row |-> flat[i], relations |-> nested[i]])

RECURSIVE eager_load(_, _, _)
RECURSIVE WithNested(_, _, _)
WithNested(base, groups, tree) ==
    SplitBack(groups, WithRelations(FlattenSeq(groups), eager_load(base, FlattenSeq(groups), tree)))
eager_load(base, owners, tree) ==
    LET loaded == {[name |-> n, rows |-> WithNested(base, EagerGroups(base, n, owners), get_nested(tree, n))]
                      : n \in roots(tree)}
    IN  Each(Places(owners), LAMBDA i : {[name |-> l.name, rows |-> l.rows[i]] : l \in loaded})

-------------------------------------------------------------------------------
(* The tree under a row                                                    *)

\* build_self_ref_tree_sql: the levels of the recursive query over live rows,
\* each row once, at its least depth
RECURSIVE tree_levels(_, _, _)
tree_levels(base, level, depth) ==
    IF depth = 0 \/ level = <<>> THEN <<>>
    ELSE level \o tree_levels(base, FlattenSeq(Each(level, LAMBDA r : Where(base, base.rows, "key", {r.own}, "any"))),
                              depth - 1)

load_tree(base, key, max_depth) ==
    DistinctBy(tree_levels(base, Where(base, base.rows, "key", {key}, "any"), max_depth), LAMBDA r : r.id)

-------------------------------------------------------------------------------
(* Properties                                                              *)

NoneTwice(s) == \A i, j \in DOMAIN s : s[i].row.id = s[j].row.id => i = j

\* An eager load gives each owner, level by level, the rows the owner's lazy
\* load reads, none twice, a to-one relation one of them if there is any:
\* whatever the collation matches, however the keys fall into chunks and
\* batches, and for owners that share a key.
HoldsLazily(one, rows, lazy) ==
    /\ NoneTwice(rows)
    /\ IF one
       THEN /\ {e.row : e \in Range(rows)} \subseteq Range(lazy)
            /\ Len(rows) = (IF lazy = <<>> THEN 0 ELSE 1)
       ELSE {e.row : e \in Range(rows)} = Range(lazy)
RECURSIVE EagerIsLazy(_, _, _)
EagerIsLazy(base, owner, relations) ==
    \A loaded \in relations :
        /\ HoldsLazily(Relation(loaded.name).one, loaded.rows, Lazily(base, loaded.name, owner))
        /\ \A e \in Range(loaded.rows) : EagerIsLazy(base, e.row, e.relations)

EachIsLazy(base, owners, tree, loaded) ==
    \A i \in DOMAIN owners : {l.name : l \in loaded[i]} = roots(tree) /\ EagerIsLazy(base, owners[i], loaded[i])
EagerLoadsWhatLazyLoads(base, owners, tree) == EachIsLazy(base, owners, tree, eager_load(base, owners, tree))

\* load_tree reads what loading children again and again reads: every row
\* within max_depth levels once, nearer ones first, and ends on a cycle.
RECURSIVE Under(_, _, _)
Under(base, found, depth) ==
    IF depth = 0 THEN {}
    ELSE LET next == UNION {Range(where_key(base, base.rows, "key", k, "any")) : k \in found}
         IN  next \cup Under(base, {r.own : r \in next}, depth - 1)

TreesAreRepeatedLoads(base, key, max_depth) ==
    LET tree == load_tree(base, key, max_depth)
    IN  /\ Range(tree) = Under(base, {key}, max_depth)
        /\ \A i, j \in DOMAIN tree : tree[i].id = tree[j].id => i = j
        /\ \A i, j \in DOMAIN tree : \A d \in 1..max_depth :
              tree[j] \in Under(base, {key}, d) /\ i < j => tree[i] \in Under(base, {key}, d)

-------------------------------------------------------------------------------
(* Wrappers: the key one looks rows up by, what it has cached, and what its *)
(* terminals answer: load, load_with of an unchanged query, count, exists. *)
(* A wrapper is [kind, configured, key, type: its owner's table or, of a   *)
(* MorphTo, the type it holds, cached, loaded, reach: the connection its   *)
(* statements have].                                                       *)

\* A wrapper never given its key, and the key of a composite primary key
UnsetKey == NumberKey("unset")
CompositeKey == NumberKey("composite")

Failed == [ok |-> FALSE, rows |-> <<>>]
Found(rows) == [ok |-> TRUE, rows |-> rows]

First(found) == [found EXCEPT !.rows = SubSeq(@, 1, IF @ = <<>> THEN 0 ELSE 1)]

-------------------------------------------------------------------------------
(* What a wrapper asks the database                                        *)

\* required_key: set, and scalar
required_key(w) == w.key # UnsetKey /\ w.key # CompositeKey

\* require_scalar_relation_key of a key that may be missing: then there is no row
OptionalKey(base, column, key) ==
    IF key \in {UnsetKey, NullKey} THEN Found(<<>>)
    ELSE IF key = CompositeKey THEN Failed
    ELSE Found(Where(base, base.rows, column, {key}, "any"))

\* BelongsTo::query
BelongsTo(base, w) ==
    IF w.configured /\ required_key(w) THEN Found(where_key(base, base.rows, "own", w.key, "any")) ELSE Failed

\* HasOne::query
HasOne(base, w) ==
    IF w.configured /\ required_key(w) THEN Found(where_key(base, base.rows, "key", w.key, "any")) ELSE Failed

\* HasMany::query
HasMany(base, w) ==
    IF w.configured /\ required_key(w) THEN Found(where_key(base, base.rows, "key", w.key, "any")) ELSE Failed

\* SelfRef::query: a row without a parent has none, configured or not
SelfRef(base, w) == OptionalKey(base, "own", w.key)

\* SelfRefMany::query
SelfRefMany(base, w) ==
    IF required_key(w) THEN Found(where_key(base, base.rows, "key", w.key, "any")) ELSE Failed

\* morph_query: the rows that name the owner's table and hold its key
morph_query(base, w) ==
    IF w.configured /\ required_key(w) /\ w.type # NoType
    THEN Found(where_key(base, base.rows, "key", w.key, w.type)) ELSE Failed

\* MorphOne and MorphMany
MorphOne(base, w) == morph_query(base, w)
MorphMany(base, w) == morph_query(base, w)

\* MorphTo::load_as of the model whose table is `table`
load_as(base, w, table) ==
    IF ~w.configured THEN Failed
    ELSE IF w.type # table THEN Found(<<>>)
    ELSE OptionalKey(base, "own", w.key)

\* MorphTo::load
MorphTo(base, w) ==
    IF w.configured /\ w.type = NoType /\ w.key # UnsetKey THEN Found(<<>>)
    ELSE IF w.type = "m" THEN load_as(base, w, "m") ELSE Failed

\* HasManyThrough::load_query, its key required
Through(base, w) == IF w.configured /\ required_key(w) THEN Found(load_query(base, w.key)) ELSE Failed

\* HasManyThrough::scope_to_pivot: the join, a row for each live link
scope_to_pivot(base, w) ==
    IF ~(w.configured /\ required_key(w)) THEN Failed
    ELSE Found(FlattenSeq(Each(where_key(base, base.links, "parent", w.key, "any"),
                               LAMBDA link : Where(base, base.rows, "own", {link.related}, "any"))))

Query(base, w) ==
    CASE w.kind = "belongs_to" -> BelongsTo(base, w)
      [] w.kind = "has_one" -> HasOne(base, w)
      [] w.kind = "has_many" -> HasMany(base, w)
      [] w.kind = "self_ref" -> SelfRef(base, w)
      [] w.kind = "self_ref_many" -> SelfRefMany(base, w)
      [] w.kind = "morph_one" -> MorphOne(base, w)
      [] w.kind = "morph_many" -> MorphMany(base, w)
      [] w.kind = "morph_to" -> MorphTo(base, w)
      [] w.kind = "through" -> Through(base, w)

ToOne == {"belongs_to", "has_one", "self_ref", "morph_one", "morph_to"}

-------------------------------------------------------------------------------
(* What it answers                                                         *)

\* QuerySource::prefers_database: no entity manager owns the cache
prefers_database(w) == w.reach = "database"

\* is_configured, or ensure_configured of the kinds that have it
IsConfigured(w) ==
    CASE w.kind \in {"self_ref", "self_ref_many"} -> TRUE
      [] w.kind \in {"morph_one", "morph_many"} -> w.configured /\ w.type # NoType
      [] OTHER -> w.configured

\* RelationState::can_query
can_query(w) == IsConfigured(w) /\ w.key # UnsetKey /\ prefers_database(w)

\* Mutant: a wrapper that is loaded answers from its cache.
served_first(w) == w.kind # "morph_to" /\ w.loaded

\* RelationState::served: the cache stands in only for a query that cannot run
served(w) == w.kind # "morph_to" /\ w.loaded /\ ~can_query(w)

\* What a statement finds: it needs a connection.
Run(w, found) == IF w.reach = "nowhere" THEN Failed ELSE found

\* load, of a wrapper whose query finds `found`
load(w, found) ==
    IF served(w) THEN Found(w.cached) ELSE IF w.kind \in ToOne THEN First(Run(w, found)) ELSE Run(w, found)

\* load_with of a closure that adds nothing
load_with(w, found, joined) == Run(w, IF w.kind = "through" THEN joined ELSE found)

\* count and exists, which never read the cache
count(w, found) == [ok |-> Run(w, found).ok, count |-> Len(Run(w, found).rows)]

-------------------------------------------------------------------------------
(* Properties                                                              *)

\* A wrapper with a key and a connection answers from the database, whatever a
\* deserialized payload put in its cache, and its terminals speak of the same
\* rows: load returns each row load_with reads once, or one of them, as many as
\* count counts; and they fail together.
SameAnswer(w, loaded, all, counted) ==
    /\ loaded.ok = all.ok /\ loaded.ok = counted.ok
    /\ IF w.kind \in ToOne
       THEN /\ Range(loaded.rows) \subseteq Range(all.rows)
            /\ (loaded.rows = <<>>) <=> (counted.count = 0)
       ELSE /\ Range(loaded.rows) = Range(all.rows)
            /\ Len(loaded.rows) = counted.count
            /\ \A i, j \in DOMAIN loaded.rows : loaded.rows[i] = loaded.rows[j] => i = j
Agree(w, found, joined) == SameAnswer(w, load(w, found), load_with(w, found, joined), count(w, found))
TerminalsAgree(base, w) ==
    ~w.loaded \/ can_query(w) => Agree(w, Query(base, w), scope_to_pivot(base, w))

Wrapper(kind, key, type) ==
    [kind |-> kind, configured |-> TRUE, key |-> key, type |-> type, cached |-> <<>>, loaded |-> FALSE, reach |-> "database"]

\* build_relation_assignment: the wrapper of a model's field, from its own columns
WrapperOf(kind, row) ==
    Wrapper(kind, IF kind \in {"belongs_to", "self_ref", "morph_to"} THEN row.key ELSE row.own,
            IF kind = "morph_to" THEN row.type ELSE "m")

\* The row that another holds in `kind` holds it in the `inverse`.
IsInverse(base, kind, inverse) ==
    \A owner, row \in {r \in Range(base.rows) : ~r.trashed} :
        row \in Range(Query(base, WrapperOf(kind, owner)).rows) <=>
            owner \in Range(Query(base, WrapperOf(inverse, row)).rows)

\* A relation and its inverse are one link, however the column compares keys: a
\* row loaded through has_many belongs_to the owner, one loaded through
\* morph_many has it in its morph_to, a child has its parent in its self_ref.
InversesAgree(base) ==
    /\ IsInverse(base, "has_many", "belongs_to")
    /\ IsInverse(base, "self_ref_many", "self_ref")
    /\ IsInverse(base, "morph_many", "morph_to")

-------------------------------------------------------------------------------
(* Consolidation.  A parent or middle row is a record with a `key` and a    *)
(* `copy`; a child is a value, or None.                                     *)

NoGroups == [index |-> <<>>, groups |-> <<>>]

group_slot_newest(found, key, made) ==
    [index |-> (key :> Len(found.groups) + 1) @@ found.index, groups |-> Append(found.groups, made)]
group_slot(found, key, made) ==
    IF key \in DOMAIN found.index THEN found
    ELSE [index |-> (key :> Len(found.groups) + 1) @@ found.index, groups |-> Append(found.groups, made)]

Extended(children, maybe) == IF maybe = None THEN children ELSE Append(children, maybe)

\* consolidate_two and consolidate_two_optional
group_pairs(items) ==
    FoldLeft(LAMBDA found, item :
                 LET now == group_slot(found, item[1].key, [row |-> item[1], children |-> <<>>])
                 IN  [now EXCEPT !.groups[now.index[item[1].key]].children = Extended(@, item[2])],
             NoGroups, items).groups

\* consolidate_three and consolidate_three_optional: each parent has an index of its own
group_triples(items) ==
    LET grouped ==
            FoldLeft(LAMBDA found, item :
                         LET now == group_slot(found, item[1].key, [row |-> item[1], inner |-> NoGroups])
                             slot == now.index[item[1].key]
                             middle == group_slot(now.groups[slot].inner, item[2].key, [row |-> item[2], children |-> <<>>])
                         IN  [now EXCEPT !.groups[slot].inner =
                                 [middle EXCEPT !.groups[middle.index[item[2].key]].children = Extended(@, item[3])]],
                     NoGroups, items).groups
    IN  [i \in DOMAIN grouped |-> [row |-> grouped[i].row, children |-> grouped[i].inner.groups]]

-------------------------------------------------------------------------------
\* The first rows of each key, in their order
Firsts(items, n) ==
    LET first == SetToSortSeq({i \in DOMAIN items : \A j \in 1..(i - 1) : items[j][n].key # items[i][n].key}, <)
    IN  [i \in DOMAIN first |-> items[first[i]][n]]
OfKey(items, n, key) == SelectSeq(items, LAMBDA item : item[n].key = key)
Present(items, n) ==
    LET there == SelectSeq(items, LAMBDA item : item[n] # None)
    IN  [i \in DOMAIN there |-> there[i][n]]

\* Rows of one parent need not be adjacent: a parent comes once, where it first
\* appears and as it first appears, with its children in the order of the rows,
\* and a middle row is told apart within its parent only.
RegroupedAsNested(items) ==
    LET Pairs == [i \in DOMAIN items |-> <<items[i][1], items[i][3]>>]
        parents == Firsts(items, 1)
    IN  /\ group_pairs(Pairs) =
               [i \in DOMAIN parents |->
                   [row |-> parents[i], children |-> Present(OfKey(Pairs, 1, parents[i].key), 2)]]
        /\ group_triples(items) =
               [i \in DOMAIN parents |->
                   LET own == OfKey(items, 1, parents[i].key)
                       middles == Firsts(own, 2)
                   IN  [row |-> parents[i],
                        children |-> [j \in DOMAIN middles |->
                            [row |-> middles[j], children |-> Present(OfKey(own, 2, middles[j].key), 3)]]]]
===============================================================================
