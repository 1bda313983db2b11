----------------------------- MODULE MCQueryCache -----------------------------
(* Instances of QueryCache for TLC.                                         *)
EXTENDS QueryCache, TLC

CONSTANTS d1, d2, t1, t2, p1, p2, k1

\* Two databases with one table each and a pool on each.
TwoRelations == {<<d1, t1>>, <<d2, t2>>}
TwoPools == p1 :> d1 @@ p2 :> d2

\* One query of the second database, on its own pool, while the first one may
\* attach that database...
Attached == k1 :> {<<d2, t2>>}
OtherQuery == k1 :> p2

\* ... or on the pool that attaches it.
OneQuery == k1 :> p1
===============================================================================
