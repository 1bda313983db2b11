----------------------------- MODULE FlushOrder -----------------------------
(***************************************************************************)
(* The order in which one pass of a flush writes its entries               *)
(* (src/src/entity_manager/managed.rs, mod.rs): inserts, updates, deletes;  *)
(* inside a kind tables by their declared relations, and inside a table    *)
(* rows by its foreign key to itself.  An entry is [table, state, id, fk:   *)
(* what it references now, was: what its stored row references, numbered]; *)
(* rows are their table and id.                                            *)
(***************************************************************************)
EXTENDS Topology, SequencesExt, FiniteSetsExt

CONSTANTS
    References,    \* table |-> the table its foreign key points at
    NoRow          \* NULL in a foreign key

Tables == DOMAIN References

-------------------------------------------------------------------------------
(* The plan                                                                *)

flush_order_rank(state) == CASE state = "New" -> 0 [] state = "Managed" -> 1 [] state = "Removed" -> 2

TablesOf(entries) == FoldLeft(LAMBDA seen, e : IF e.table \in Range(seen) THEN seen ELSE Append(seen, e.table), <<>>, entries)

\* The tables whose reference some model declares, tide_child_tables or
\* tide_parent_tables: `declares` has <<"child", t>> if t declares its belongs_to,
\* <<"parent", t>> if the table it references declares t as its child
Declared(declares) == {t \in Tables : References[t] # t /\ (<<"child", t>> \in declares \/ <<"parent", t>> \in declares)}

\* add_dependency_edge between tables of the pass
Edges(tables, declares) ==
    LET index(t) == CHOOSE i \in DOMAIN tables : tables[i] = t
        declared == {t \in Declared(declares) : {t, References[t]} \subseteq Range(tables)}
    IN  {<<index(References[t]), index(t)>> : t \in declared}

\* plan_flush_order: every table of the pass in its place, those in a cycle last
plan_flush_order(entries, declares) ==
    LET tables == TablesOf(entries)
        order == TopologicalOrder(Len(tables), Edges(tables, declares), [i \in DOMAIN tables |-> <<i>>])
        ordered == order.ordered \o order.left_over
    IN  [t \in Range(tables) |-> (CHOOSE r \in DOMAIN ordered : tables[ordered[r]] = t) - 1]

\* Mutant: deletes take the tables in the order of inserts.
flush_sort_key_ascending(entry, ranks) ==
    <<flush_order_rank(entry.state), IF entry.state = "Managed" THEN 0 ELSE ranks[entry.table]>>

flush_sort_key(entry, ranks) ==
    <<flush_order_rank(entry.state),
      CASE entry.state = "New" -> ranks[entry.table]
        [] entry.state = "Removed" -> Cardinality(DOMAIN ranks) - ranks[entry.table]
        [] entry.state = "Managed" -> 0>>

\* The indexes 1..n in the order of their keys, ties as they are
Stably(n, key) == SortSeq([i \in 1..n |-> i], LAMBDA i, j : KeyBefore(key[i] \o <<i>>, key[j] \o <<j>>))

\* row_links: what a row of a table that references itself is referenced by, and
\* what it references; a key not numbered yet is no row's to reference
provides(entry) == IF entry.numbered THEN entry.id ELSE NoRow
requires(entry) == entry.fk

\* order_rows over the rows of one run
order_rows(rows, referencing_first) ==
    LET pairs == {p \in (DOMAIN rows) \X (DOMAIN rows) :
                    p[1] # p[2] /\ requires(rows[p[2]]) # NoRow /\ provides(rows[p[1]]) = requires(rows[p[2]])}
        edges == IF referencing_first THEN {<<p[2], p[1]>> : p \in pairs} ELSE pairs
        order == TopologicalOrder(Len(rows), edges, [i \in DOMAIN rows |-> <<i>>])
    IN  [i \in DOMAIN rows |-> rows[(order.ordered \o order.left_over)[i]]] \o <<>>

\* order_self_references: each run of inserts or deletes of one table
order_self_references(entries) ==
    LET Alike(i, j) == entries[i].state = entries[j].state /\ entries[i].table = entries[j].table
        Run(i) == {j \in DOMAIN entries : \A k \in Min({i, j})..Max({i, j}) : Alike(i, k)}
        Sorted(i) == order_rows(SubSeq(entries, Min(Run(i)), Max(Run(i))), entries[i].state = "Removed")
        HasLinks(i) == entries[i].state # "Managed" /\ References[entries[i].table] = entries[i].table
    IN  [i \in DOMAIN entries |-> IF HasLinks(i) THEN Sorted(i)[i - Min(Run(i)) + 1] ELSE entries[i]] \o <<>>

\* One pass
FlushPlan(entries, declares) ==
    LET ranks == plan_flush_order(entries, declares)
        order == Stably(Len(entries), [i \in DOMAIN entries |-> flush_sort_key(entries[i], ranks)])
    IN  order_self_references([i \in DOMAIN entries |-> entries[order[i]]] \o <<>>)

-------------------------------------------------------------------------------
(* The database                                                            *)

Row(entry, fk) == [table |-> entry.table, id |-> entry.id, fk |-> fk]

Holds(rows, row) == row.fk = NoRow \/ \E r \in rows : r.table = References[row.table] /\ r.id = row.fk

\* The rows after a statement, and whether every one so far was accepted
Execute(database, entry) ==
    LET others == {r \in database.rows : <<r.table, r.id>> # <<entry.table, entry.id>>}
        after == IF entry.state = "Removed" THEN others ELSE others \cup {Row(entry, entry.fk)}
    IN  [rows |-> after, accepted |-> database.accepted /\ \A r \in after : Holds(after, r)]

Stored(entries) == {Row(entries[i], entries[i].was) : i \in {j \in DOMAIN entries : entries[j].state # "New"}}
IsAccepted(entries, plan) == FoldLeft(Execute, [rows |-> Stored(entries), accepted |-> TRUE], plan).accepted

-------------------------------------------------------------------------------
(* Properties                                                              *)

\* States a flush can be asked about: the stored rows reference stored rows, and a
\* foreign key names a row only by a key that row has
IsFlush(entries) ==
    /\ \A r \in Stored(entries) : Holds(Stored(entries), r)
    /\ \A e \in Range(entries) : \A f \in Range(entries) :
        e.fk = f.id /\ f.table = References[e.table] => f.numbered

\* A flush is refused by a foreign key only if every order of its statements would
\* be: whichever side declares a relation, an insert follows the row it references
\* and a delete precedes it, across tables and inside one.
FlushesThatCanSucceedDo(entries, declares) ==
    IsAccepted(entries, FlushPlan(entries, declares))
        \/ \A p \in SetToSeqs(DOMAIN entries) : ~IsAccepted(entries, [i \in DOMAIN entries |-> entries[p[i]]] \o <<>>)
===============================================================================
