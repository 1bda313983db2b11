------------------------------- MODULE Topology -------------------------------
(* Ordering nodes after the nodes they depend on: internal/topology.rs.     *)
EXTENDS Integers, Sequences, FiniteSets

\* Keys are sequences of numbers, compared as Rust compares tuples.
KeyBefore(a, b) ==
    \E i \in DOMAIN a : a[i] < b[i] /\ \A j \in 1..i - 1 : a[j] = b[j]

Unmet(edges, taken, node) ==
    {e \in edges : e[2] = node /\ e[1] \notin taken}

\* The first of the ready nodes
Smallest(ready, key) ==
    CHOOSE n \in ready : \A m \in ready \ {n} : KeyBefore(key[n] \o <<n>>, key[m] \o <<m>>)

Taken(ordered) == {ordered[i] : i \in DOMAIN ordered}

\* The nodes of a cycle, and those behind one, are left over in their order.
Drained(count, ordered) ==
    LET rest == (1..count) \ Taken(ordered)
        Before(n) == {m \in rest : m < n}
    IN  [ordered |-> ordered,
         left_over |-> [i \in 1..Cardinality(rest) |->
                           CHOOSE n \in rest : Cardinality(Before(n)) = i - 1]]

\* topological_order, nodes counted from 1
TopologicalOrder(count, edges, key) ==
    LET Take[ordered \in Seq(1..count)] ==
            LET ready == {n \in (1..count) \ Taken(ordered) :
                             Unmet(edges, Taken(ordered), n) = {}}
            IN  IF ready = {} THEN ordered ELSE Take[Append(ordered, Smallest(ready, key))]
    IN  Drained(count, Take[<<>>])
===============================================================================
