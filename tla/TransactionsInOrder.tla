-------------------------- MODULE TransactionsInOrder --------------------------
(***************************************************************************)
(* Where scopes run one after the other and no handle outlives its closure,*)
(* the scopes at work in Transactions are the ones on the path of the      *)
(* innermost one, which runs its statement alone, and what their records   *)
(* say fits how far they got; futures may be dropped at every await.       *)
(* TransactionsStack and TransactionsProofs continue the argument.         *)
(***************************************************************************)
EXTENDS Transactions, TLAPS

\* One scope at a time is at work on the connection.
OneAtATime(x) == x.concurrency = "none" /\ ~x.leak

Lev(s) == Len(Path[s])
Busy(s) == pc[s] \notin {"unused", "over"}
On(s) == pc[s] \in {"open", "ending"}
Innermost(c) == On(c) /\ \A t \in Scopes : On(t) => Lev(t) <= Lev(c)

-------------------------------------------------------------------------------
(* The inductive invariant                                                 *)

\* The scopes around one at work are open, and at each level there is one.
OnePath ==
    /\ \A s \in Scopes : Busy(s) => \A i \in 1..(Lev(s) - 1) : pc[Path[s][i]] = "open"
    /\ \A s, t \in Scopes : Busy(s) /\ Busy(t) /\ Lev(s) = Lev(t) => s = t

\* The innermost scope runs its statement alone.
OneStatement ==
    \A s \in Scopes : stmt[s] # "none" =>
        /\ pc[s] = "open"
        /\ \A t \in Scopes : pc[t] \in {"starting", "open", "ending", "ended"} => Lev(t) <= Lev(s)

\* What the records say fits how far their scopes got.
RecordFits(s) ==
    /\ deferred[s] = 0 /\ ~stray[s]
    /\ outcome[s] = "none" <=> pc[s] \notin {"ended", "over"}
    /\ undo[s] # {} => pc[s] \in {"open", "ending", "ended"}
    /\ pc[s] = "ended" /\ outcome[s] = "ok" => undo[s] = {} /\ aborted[s] = "none"
    /\ pc[s] = "ending" => kind[s] \in {"commit", "rollback"}
    /\ pc[s] = "ending" /\ kind[s] = "commit" => aborted[s] = "none"
    /\ pc[s] \in {"waiting", "queued"} => Nested(s)
    /\ pc[s] = "starting" /\ Nested(s) => aborted[Parent(s)] = "none"
    /\ aborted[s] \notin {"Cancelled", "Leaked"}
    /\ stmt[s] = "running" => aborted[s] = "none"
    /\ stmt[s] = "checking" => aborted[s] = "SqliteRollback" /\ backend = "Sqlite"
Records == \A s \in Scopes : RecordFits(s)

-------------------------------------------------------------------------------
(* Sequences                                                               *)

\* The empty sequence is one of any set, and the only one of length 0.
LEMMA EmptySeq ==
    ASSUME NEW S
    PROVE  /\ <<>> \in Seq(S) /\ Len(<<>>) = 0
           /\ \A q \in Seq(S) : q # <<>> => Len(q) \in Nat \ {0}
  OBVIOUS

\* A sequence is a function on the numbers up to its length.
LEMMA LenProperties ==
    ASSUME NEW S, NEW q \in Seq(S)
    PROVE  Len(q) \in Nat /\ q \in [1..Len(q) -> S] /\ DOMAIN q = 1..Len(q)
  OBVIOUS

\* A sequence has its elements in its set.
LEMMA ElementOfSeq ==
    ASSUME NEW S, NEW q \in Seq(S), NEW n \in 1..Len(q) PROVE q[n] \in S
  OBVIOUS

\* A function on the numbers up to n is a sequence of length n.
LEMMA FunctionIsSeq ==
    ASSUME NEW S, NEW n \in Nat, NEW q \in [1..n -> S]
    PROVE  q \in Seq(S) /\ Len(q) = n
  OBVIOUS

\* EXCEPT changes one element and not the length.
LEMMA ExceptSeq ==
    ASSUME NEW S, NEW q \in Seq(S), NEW i \in 1..Len(q), NEW e \in S
    PROVE  /\ [q EXCEPT ![i] = e] \in Seq(S)
           /\ Len([q EXCEPT ![i] = e]) = Len(q)
           /\ \A j \in 1..Len(q) : [q EXCEPT ![i] = e][j] = IF j = i THEN e ELSE q[j]
  OBVIOUS

\* The first n elements of a sequence.
LEMMA PrefixProperties ==
    ASSUME NEW S, NEW q \in Seq(S), NEW n \in 0..Len(q)
    PROVE  /\ SubSeq(q, 1, n) \in Seq(S) /\ Len(SubSeq(q, 1, n)) = n
           /\ \A i \in 1..n : SubSeq(q, 1, n)[i] = q[i]
  OBVIOUS

\* Append adds an element at the end.
LEMMA AppendProperties ==
    ASSUME NEW S, NEW q \in Seq(S), NEW e \in S
    PROVE  /\ Append(q, e) \in Seq(S) /\ Len(Append(q, e)) = Len(q) + 1
           /\ \A i \in 1..Len(q) : Append(q, e)[i] = q[i]
           /\ Append(q, e)[Len(q) + 1] = e
  OBVIOUS

-------------------------------------------------------------------------------
(* The nesting                                                             *)

Tree ==
    /\ Path \in [Scopes -> Seq(Scopes)]
    /\ \A s \in Scopes : Lev(s) \in Nat /\ Lev(s) >= 1 /\ Path[s][Lev(s)] = s
    /\ \A s \in Scopes : \A i \in 1..Lev(s) :
           /\ Path[s][i] \in Scopes /\ Lev(Path[s][i]) = i
           /\ \A j \in 1..i : Path[Path[s][i]][j] = Path[s][j]
    /\ \A s \in Scopes : Nested(s) =>
           /\ Parent(s) \in Scopes /\ Lev(s) > 1
           /\ Parent(s) = Path[s][Lev(s) - 1] /\ Lev(Parent(s)) = Lev(s) - 1
    /\ \A s \in Scopes : ~Nested(s) => Lev(s) = 1 /\ Parent(s) = NoScope

\* The paths of PendingInvalidations::new's records form a forest.
LEMMA TreeHolds == ASSUME setting \in Settings PROVE Tree
<1>1. Path \in [Scopes -> Seq(Scopes)]
  BY ScopesAssumption DEF Path
<1>2. ASSUME NEW s \in Scopes
      PROVE  /\ Path[s] \in Seq(Scopes) /\ Path[s] # <<>> /\ Path[s][Len(Path[s])] = s
             /\ \A i \in 1..Len(Path[s]) : Path[Path[s][i]] = SubSeq(Path[s], 1, i)
  BY <1>1, NestingAssumption DEF Path
<1>3. ASSUME NEW s \in Scopes PROVE Lev(s) \in Nat /\ Lev(s) >= 1 /\ Path[s][Lev(s)] = s
  BY <1>2, EmptySeq, LenProperties DEF Lev
<1>4. ASSUME NEW s \in Scopes, NEW i \in 1..Lev(s)
      PROVE  /\ Path[s][i] \in Scopes /\ Lev(Path[s][i]) = i
             /\ \A j \in 1..i : Path[Path[s][i]][j] = Path[s][j]
  <2>1. Path[s] \in Seq(Scopes) /\ i \in 1..Len(Path[s]) /\ Lev(s) \in Nat
    BY <1>2, <1>3 DEF Lev
  <2>2. Path[s][i] \in Scopes
    BY <2>1, ElementOfSeq
  <2>3. Path[Path[s][i]] = SubSeq(Path[s], 1, i)
    BY <1>2, <2>1
  <2>4. Len(SubSeq(Path[s], 1, i)) = i /\ \A j \in 1..i : SubSeq(Path[s], 1, i)[j] = Path[s][j]
    BY <2>1
  <2>5. QED  BY <2>2, <2>3, <2>4 DEF Lev
<1>5. ASSUME NEW s \in Scopes, Nested(s)
      PROVE  /\ Parent(s) \in Scopes /\ Lev(s) > 1
             /\ Parent(s) = Path[s][Lev(s) - 1] /\ Lev(Parent(s)) = Lev(s) - 1
  <2>1. Lev(s) > 1 /\ Parent(s) = Path[s][Lev(s) - 1]   BY <1>5 DEF Nested, Parent, Lev
  <2>2. Lev(s) - 1 \in 1..Lev(s)   BY <2>1, <1>3
  <2>3. QED  BY <2>1, <2>2, <1>4
<1>6. ASSUME NEW s \in Scopes, ~Nested(s) PROVE Lev(s) = 1 /\ Parent(s) = NoScope
  <2>1. ~(Lev(s) > 1) /\ Parent(s) = NoScope   BY <1>6 DEF Nested, Parent, Lev
  <2>2. QED  BY <2>1, <1>3
<1>7. QED  BY <1>1, <1>3, <1>4, <1>5, <1>6 DEF Tree

-------------------------------------------------------------------------------
(* The server                                                              *)

\* What a rollback of n levels leaves on the server (the driver's queued
\* ROLLBACK or ROLLBACK TO): the levels below, untouched, and nothing durable.
LEMMA RollbackIs ==
    ASSUME stack \in Seq(Levels), depth \in Nat, NEW n \in Nat, RollbackServer(n)
    PROVE  /\ backend' = backend /\ durable' = durable
           /\ depth' \in Nat /\ depth' <= depth
           /\ stack' \in Seq(Levels) /\ Len(stack') <= Len(stack)
           /\ \A i \in 1..Len(stack') : stack'[i] = stack[i]
           /\ n = 0 => depth' = depth /\ stack' = stack
           /\ n > 0 /\ (backend # "Sqlite" \/ Len(stack) = depth) =>
                 /\ depth' = IF depth > n THEN depth - n ELSE 0
                 /\ Len(stack') <= depth'
                 /\ Len(stack) = depth => Len(stack') = depth'
<1>1. backend' = backend /\ durable' = durable   BY DEF RollbackServer
<1>2. CASE n = 0 \/ (backend = "Sqlite" /\ Len(stack) < depth)
  <2>1. depth' = depth /\ stack' = stack   BY <1>2 DEF RollbackServer
  <2>2. ~(n > 0 /\ (backend # "Sqlite" \/ Len(stack) = depth))   BY <1>2
  <2>3. QED  BY <1>1, <2>1, <2>2, LenProperties
<1>3. CASE ~(n = 0 \/ (backend = "Sqlite" /\ Len(stack) < depth))
  <2>1. PICK left : left = IF depth > n THEN depth - n ELSE 0   OBVIOUS
  <2> left \in Nat   BY <2>1
  <2>2. PICK m : m = Smaller(Len(stack), left)   OBVIOUS
  <2>3. depth' = left /\ stack' = SubSeq(stack, 1, m)   BY <1>3, <2>1, <2>2 DEF RollbackServer
  <2>4. m \in 0..Len(stack) /\ m <= left /\ (m = Len(stack) \/ m = left) /\ Len(stack) \in Nat
    BY <2>1, <2>2, LenProperties DEF Smaller
  <2>5. stack' \in Seq(Levels) /\ Len(stack') = m /\ \A i \in 1..m : stack'[i] = stack[i]
    BY <2>3, <2>4, PrefixProperties
  <2>6. Len(stack) = depth => m = left   BY <2>1, <2>2, <2>4 DEF Smaller
  <2>7. QED  BY <1>1, <1>3, <2>1, <2>3, <2>4, <2>5, <2>6
<1>4. QED  BY <1>2, <1>3

\* What a COMMIT leaves: no level, and durable at most what the levels held,
\* all of it unless PostgreSQL had refused the transaction.
LEMMA CommitIs ==
    ASSUME stack \in Seq(Levels), CommitServer
    PROVE  /\ backend' = backend /\ depth' = 0 /\ stack' = <<>>
           /\ durable' \subseteq durable \cup UNION {stack[i].writes : i \in 1..Len(stack)}
           /\ ~TopFailed => /\ durable \subseteq durable'
                            /\ \A i \in 1..Len(stack) : stack[i].writes \subseteq durable'
           /\ durable \subseteq durable'
  BY DEF CommitServer

\* What RELEASE SAVEPOINT leaves: the level below holds the writes of both.
LEMMA ReleaseIs ==
    ASSUME stack \in Seq(Levels), depth \in Nat, depth > 1, ReleaseServer
    PROVE  /\ backend' = backend /\ durable' = durable /\ depth' = depth - 1
           /\ stack' \in Seq(Levels) /\ Len(stack) = depth /\ Len(stack') = depth - 1
           /\ \A i \in 1..(depth - 1) :
                 /\ stack'[i].scope = stack[i].scope /\ stack'[i].failed = stack[i].failed
                 /\ stack'[i].writes = IF i < depth - 1 THEN stack[i].writes
                                       ELSE stack[i].writes \cup stack[depth].writes
<1>1. PICK n : n = depth - 1   OBVIOUS
<1>2. n \in Nat /\ n >= 1 /\ Len(stack) = n + 1 /\ Len(stack) - 1 = n /\ depth = n + 1
  BY <1>1 DEF ReleaseServer, CanRelease
<1>3. stack' = [i \in 1..n |-> IF i < n THEN stack[i]
                               ELSE [stack[i] EXCEPT !.writes = stack[i].writes \cup Top.writes]]
  BY <1>2 DEF ReleaseServer
<1>4. \A i \in 1..(n + 1) : stack[i] \in Levels   BY <1>2, ElementOfSeq
<1>5. Top = stack[n + 1]   BY <1>2 DEF Top
<1>6. ASSUME NEW i \in 1..n
      PROVE  /\ stack'[i] \in Levels
             /\ stack'[i].scope = stack[i].scope /\ stack'[i].failed = stack[i].failed
             /\ stack'[i].writes = IF i < n THEN stack[i].writes
                                   ELSE stack[i].writes \cup stack[n + 1].writes
  <2>1. stack[i] \in Levels /\ stack[n + 1] \in Levels   BY <1>2, <1>4
  <2>2. stack'[i] = IF i < n THEN stack[i]
                    ELSE [stack[i] EXCEPT !.writes = stack[i].writes \cup stack[n + 1].writes]
    BY <1>3, <1>5
  <2>3. CASE i < n   BY <2>1, <2>2, <2>3
  <2>4. CASE ~(i < n)
    <3>1. PICK r : r = stack[i]   OBVIOUS
    <3>2. PICK ws : ws = stack[i].writes \cup stack[n + 1].writes   BY Zenon
    <3>3. r = [scope |-> r.scope, writes |-> r.writes, failed |-> r.failed]   BY <2>1, <3>1 DEF Levels
    <3>4. stack'[i] = [r EXCEPT !.writes = ws]   BY <2>2, <2>4, <3>1, <3>2
    <3>5. stack'[i] = [scope |-> r.scope, writes |-> ws, failed |-> r.failed]   BY <3>3, <3>4
    <3>6. ws \in SUBSET (Scopes \X Nat)   BY <2>1, <3>2 DEF Levels
    <3>7. QED  BY <2>1, <2>4, <3>1, <3>2, <3>5, <3>6 DEF Levels
  <2>5. QED  BY <2>3, <2>4
<1>7. stack' \in [1..n -> Levels]   BY Zenon, <1>3, <1>6
<1>8. stack' \in Seq(Levels)   BY <1>2, <1>7, FunctionIsSeq
<1>9. Len(stack') = n   BY <1>2, <1>7, FunctionIsSeq
<1>10. QED  BY Zenon, <1>1, <1>2, <1>6, <1>8, <1>9 DEF ReleaseServer

\* What SAVEPOINT leaves: one more level, empty and the scope's own.
LEMMA SavepointIs ==
    ASSUME stack \in Seq(Levels), stack # <<>>, NEW s \in Scopes, SavepointServer(s)
    PROVE  /\ backend' = backend /\ durable' = durable /\ depth' = depth + 1
           /\ stack' \in Seq(Levels) /\ Len(stack') = Len(stack) + 1
           /\ \A i \in 1..Len(stack) : stack'[i] = stack[i]
           /\ stack'[Len(stack) + 1] = Level(s)
<1>1. Level(s) \in Levels   BY DEF Level, Levels
<1>2. stack' = Append(stack, Level(s))   BY DEF SavepointServer
<1>3. QED  BY <1>1, <1>2, AppendProperties DEF SavepointServer

\* What BEGIN leaves: one level, empty and the scope's own.
LEMMA BeginIs ==
    ASSUME NEW s \in Scopes, BeginServer(s)
    PROVE  /\ backend' = backend /\ durable' = durable /\ depth' = 1
           /\ stack' \in Seq(Levels) /\ Len(stack') = 1 /\ stack'[1] = Level(s)
<1>1. Level(s) \in Levels   BY DEF Level, Levels
<1>2. stack' = <<Level(s)>>   BY DEF BeginServer
<1>3. PICK l : l = Level(s)   OBVIOUS
<1>4. stack' = <<l>> /\ l \in Levels   BY <1>1, <1>2, <1>3
<1>5. QED  BY <1>3, <1>4 DEF BeginServer

\* What a step keeps of the levels.
LEMMA WriteIs ==
    ASSUME stack \in Seq(Levels), stack # <<>>, NEW w \in Scopes \X Nat, WriteServer(w)
    PROVE  /\ backend' = backend /\ durable' = durable /\ depth' = depth
           /\ stack' \in Seq(Levels) /\ Len(stack') = Len(stack)
           /\ \A i \in 1..Len(stack) :
                 /\ stack'[i].scope = stack[i].scope /\ stack'[i].failed = stack[i].failed
                 /\ stack'[i].writes = IF i = Len(stack) THEN stack[i].writes \cup {w}
                                       ELSE stack[i].writes
<1>1. PICK n : n = Len(stack)   OBVIOUS
<1>2. n \in 1..Len(stack) /\ stack[n] \in Levels /\ Top = stack[n]
  BY <1>1, EmptySeq, LenProperties, ElementOfSeq DEF Top
<1>3. PICK r : r = stack[n]   OBVIOUS
<1>4. PICK ws : ws = r.writes \cup {w}   BY Zenon
<1>5. PICK e : e = [r EXCEPT !.writes = ws]   BY Zenon
<1>6. r = [scope |-> r.scope, writes |-> r.writes, failed |-> r.failed]   BY <1>2, <1>3 DEF Levels
<1>7. e = [scope |-> r.scope, writes |-> ws, failed |-> r.failed]   BY <1>5, <1>6
<1>8. ws \in SUBSET (Scopes \X Nat)   BY <1>2, <1>3, <1>4 DEF Levels
<1>9. e \in Levels /\ e.scope = r.scope /\ e.failed = r.failed /\ e.writes = ws
  BY <1>2, <1>3, <1>7, <1>8 DEF Levels
<1>10. stack' = [stack EXCEPT ![n] = e] /\ backend' = backend /\ durable' = durable /\ depth' = depth
  BY <1>1, <1>2, <1>3, <1>4, <1>5 DEF WriteServer
<1>11. /\ stack' \in Seq(Levels) /\ Len(stack') = Len(stack)
       /\ \A j \in 1..Len(stack) : stack'[j] = IF j = n THEN e ELSE stack[j]
  BY <1>2, <1>9, <1>10, ExceptSeq
<1>12. ASSUME NEW i \in 1..Len(stack)
       PROVE  /\ stack'[i].scope = stack[i].scope /\ stack'[i].failed = stack[i].failed
              /\ stack'[i].writes = IF i = Len(stack) THEN stack[i].writes \cup {w}
                                    ELSE stack[i].writes
  <2>1. CASE i = n   BY <1>1, <1>3, <1>4, <1>9, <1>11, <2>1
  <2>2. CASE i # n   BY <1>1, <1>11, <2>2
  <2>3. QED  BY <2>1, <2>2
<1>13. QED  BY Zenon, <1>10, <1>11, <1>12

\* What a failing statement leaves: at most the top level refusing others,
\* as PostgreSQL does.
LEMMA FailIs ==
    ASSUME stack \in Seq(Levels), FailServer
    PROVE  /\ backend' = backend /\ durable' = durable /\ depth' = depth
           /\ stack' \in Seq(Levels) /\ Len(stack') = Len(stack)
           /\ \A i \in 1..Len(stack) :
                 /\ stack'[i].scope = stack[i].scope /\ stack'[i].writes = stack[i].writes
                 /\ stack'[i].failed => stack[i].failed \/ i = Len(stack)
<1>1. CASE ~(backend = "Postgres" /\ stack # <<>>)   BY <1>1 DEF FailServer
<1>2. CASE backend = "Postgres" /\ stack # <<>>
  <2>1. PICK n : n = Len(stack)   OBVIOUS
  <2>2. n \in 1..Len(stack) /\ stack[n] \in Levels /\ Top = stack[n]
    BY <1>2, <2>1, EmptySeq, LenProperties, ElementOfSeq DEF Top
  <2>3. PICK r : r = stack[n]   OBVIOUS
  <2>4. PICK e : e = [r EXCEPT !.failed = TRUE]   BY Zenon
  <2>5. r = [scope |-> r.scope, writes |-> r.writes, failed |-> r.failed]   BY <2>2, <2>3 DEF Levels
  <2>6. e = [scope |-> r.scope, writes |-> r.writes, failed |-> TRUE]   BY Zenon, <2>4, <2>5
  <2>7. e \in Levels /\ e.scope = r.scope /\ e.writes = r.writes
    BY <2>2, <2>3, <2>6 DEF Levels
  <2>8. stack' = [stack EXCEPT ![n] = e] /\ backend' = backend /\ durable' = durable /\ depth' = depth
    BY <1>2, <2>1, <2>2, <2>3, <2>4 DEF FailServer
  <2>9. /\ stack' \in Seq(Levels) /\ Len(stack') = Len(stack)
        /\ \A j \in 1..Len(stack) : stack'[j] = IF j = n THEN e ELSE stack[j]
    BY <2>2, <2>7, <2>8, ExceptSeq
  <2>10. QED  BY <2>1, <2>3, <2>7, <2>8, <2>9
<1>3. QED  BY <1>1, <1>2

\* The levels a scope's path of open transactions stands for.
LEMMA RebuiltIs ==
    ASSUME Tree, NEW s \in Scopes, NEW n \in 1..Lev(s), Rebuilt(s, n)
    PROVE  /\ stack' \in Seq(Levels) /\ Len(stack') = n
           /\ \A i \in 1..n : stack'[i] = Level(Path[s][i])
<1>1. stack' = [i \in 1..n |-> Level(Path[s][i])]   BY DEF Rebuilt
<1>2. n \in Nat /\ \A i \in 1..n : Path[s][i] \in Scopes   BY DEF Tree
<1>3. \A i \in 1..n : Level(Path[s][i]) \in Levels   BY <1>2 DEF Level, Levels
<1>4. stack' \in [1..n -> Levels]   BY <1>1, <1>3
<1>5. stack' \in Seq(Levels)   BY <1>2, <1>4, FunctionIsSeq
<1>6. Len(stack') = n   BY <1>2, <1>4, FunctionIsSeq
<1>7. QED  BY <1>1, <1>5, <1>6

-------------------------------------------------------------------------------
(* One scope at a time                                                     *)

\* No record is kept by a handle elsewhere.
LEMMA NotHeld == ASSUME Records PROVE \A s \in Scopes : ~Held(s) /\ (Alive(s) <=> Busy(s))
  BY DEF Records, RecordFits, Held, Alive, Busy

\* The other scopes at work enclose the innermost one.
LEMMA Below ==
    ASSUME Tree, OnePath, NEW s \in Scopes, Busy(s), NEW t \in Scopes, Busy(t), t # s,
           Lev(t) <= Lev(s)
    PROVE  pc[t] = "open" /\ Lev(t) < Lev(s) /\ t = Path[s][Lev(t)]
<1>1. Lev(t) \in Nat /\ Lev(s) \in Nat /\ Lev(t) >= 1   BY DEF Tree
<1>2. Lev(t) # Lev(s)   BY DEF OnePath
<1>3. Lev(t) \in 1..(Lev(s) - 1) /\ Lev(t) \in 1..Lev(s)   BY <1>1, <1>2
<1>4. pc[Path[s][Lev(t)]] = "open"   BY <1>3 DEF OnePath
<1>5. Path[s][Lev(t)] \in Scopes /\ Lev(Path[s][Lev(t)]) = Lev(t)   BY <1>3 DEF Tree
<1>6. Busy(Path[s][Lev(t)])   BY <1>4 DEF Busy
<1>7. Path[s][Lev(t)] = t   BY <1>5, <1>6 DEF OnePath
<1>8. QED  BY <1>1, <1>2, <1>4, <1>7

\* One that is not open is the innermost.
LEMMA NotOpenIsInnermost ==
    ASSUME Tree, OnePath, NEW s \in Scopes, Busy(s), pc[s] # "open", NEW t \in Scopes, Busy(t)
    PROVE  Lev(t) <= Lev(s)
<1>1. SUFFICES ASSUME ~(Lev(t) <= Lev(s)) PROVE FALSE   OBVIOUS
<1>2. Lev(t) \in Nat /\ Lev(s) \in Nat /\ Lev(s) >= 1   BY DEF Tree
<1>3. Lev(s) \in 1..(Lev(t) - 1) /\ Lev(s) \in 1..Lev(t)   BY <1>1, <1>2
<1>4. pc[Path[t][Lev(s)]] = "open"   BY <1>3 DEF OnePath
<1>5. Path[t][Lev(s)] \in Scopes /\ Lev(Path[t][Lev(s)]) = Lev(s)   BY <1>3 DEF Tree
<1>6. Path[t][Lev(s)] = s   BY <1>4, <1>5 DEF OnePath, Busy
<1>7. QED  BY <1>4, <1>6

\* A closure without a nested transaction at work is the innermost.
LEMMA LeafIsInnermost ==
    ASSUME Tree, OnePath, Records, NEW s \in Scopes, pc[s] = "open",
           \A c \in Children(s) : ~Alive(c), NEW t \in Scopes, Busy(t)
    PROVE  Lev(t) <= Lev(s) /\ \A i \in 1..(Lev(t) - 1) : Path[t][i] # s
<1>1. Lev(t) \in Nat /\ Lev(s) \in Nat /\ Lev(s) >= 1 /\ Lev(t) >= 1   BY DEF Tree
<1>2. ASSUME NEW i \in 1..(Lev(t) - 1), Path[t][i] = s PROVE FALSE
  <2>1. PICK c : c = Path[t][i + 1]   OBVIOUS
  <2>2. i + 1 \in 1..Lev(t) /\ i \in 1..(i + 1) /\ i \in Nat   BY <1>1
  <2>3. c \in Scopes /\ Lev(c) = i + 1 /\ Path[c][i] = Path[t][i]   BY <2>1, <2>2 DEF Tree
  <2>4. Nested(c) /\ Parent(c) = s
    <3>1. Nested(c)   BY <2>2, <2>3 DEF Nested, Lev
    <3>2. Parent(c) = Path[c][Lev(c) - 1]   BY <2>3, <3>1 DEF Tree
    <3>3. Lev(c) - 1 = i   BY <2>2, <2>3
    <3>4. QED  BY <1>2, <2>3, <3>1, <3>2, <3>3
  <2>5. Busy(c)
    <3>1. CASE i + 1 = Lev(t)   BY <3>1, <2>1 DEF Tree
    <3>2. CASE i + 1 # Lev(t)
      <4>1. i + 1 \in 1..(Lev(t) - 1)   BY <3>2, <2>2, <1>1
      <4>2. QED  BY <4>1, <2>1 DEF OnePath, Busy
    <3>3. QED  BY <3>1, <3>2
  <2>6. QED  BY <2>3, <2>4, <2>5, NotHeld DEF Children
<1>3. ASSUME ~(Lev(t) <= Lev(s)) PROVE FALSE
  <2>1. Lev(s) \in 1..(Lev(t) - 1) /\ Lev(s) \in 1..Lev(t)   BY <1>1, <1>3
  <2>2. pc[Path[t][Lev(s)]] = "open"   BY <2>1 DEF OnePath
  <2>3. Path[t][Lev(s)] \in Scopes /\ Lev(Path[t][Lev(s)]) = Lev(s)   BY <2>1 DEF Tree
  <2>4. Path[t][Lev(s)] = s   BY <2>2, <2>3 DEF OnePath, Busy
  <2>5. QED  BY <2>1, <2>4, <1>2
<1>4. QED  BY <1>2, <1>3

\* Its future is dropped with the connection free.
LEMMA LeafHasTheGate ==
    ASSUME Tree, OnePath, OneStatement, Records, NEW s \in Scopes, pc[s] = "open",
           stmt[s] = "none", \A c \in Children(s) : ~Alive(c)
    PROVE  GateFree
<1>1. Busy(s)   BY DEF Busy
<1>2. SUFFICES ASSUME NEW t \in Scopes, stmt[t] # "none" \/ pc[t] \in {"starting", "ending"}
               PROVE  FALSE
  BY DEF GateFree
<1>3. Busy(t) /\ t # s   BY <1>2 DEF OneStatement, Busy
<1>4. Lev(t) <= Lev(s)   BY <1>3, LeafIsInnermost
<1>5. pc[t] = "open" /\ Lev(t) < Lev(s)   BY <1>1, <1>3, <1>4, Below
<1>6. stmt[t] # "none"   BY <1>2, <1>5
<1>7. Lev(s) <= Lev(t)   BY <1>6 DEF OneStatement
<1>8. QED  BY <1>5, <1>7 DEF Tree

\* What a step does to pc and how it leaves the path alone.
Moved(s) == \A t \in Scopes : t # s => pc'[t] = pc[t]
Leaf(s) == \A t \in Scopes : Busy(t) => Lev(t) <= Lev(s) /\ \A i \in 1..(Lev(t) - 1) : Path[t][i] # s

\* Which scope is inside which is a matter of the setting only.
LEMMA SamePath ==
    ASSUME setting' = setting
    PROVE  /\ Path' = Path /\ Tree' = Tree
           /\ \A s : (Lev(s))' = Lev(s) /\ (Nested(s))' = Nested(s) /\ (Parent(s))' = Parent(s)
  BY DEF Path, Tree, Lev, Nested, Parent

\* A scope that goes on, and closes only when none is open inside it, leaves
\* the busy scopes on one path.
LEMMA MoveKeepsPath ==
    ASSUME Tree, OnePath, setting' = setting, NEW s \in Scopes, Moved(s), Busy(s),
           pc[s] = "open" /\ pc'[s] # "open" => Leaf(s)
    PROVE  OnePath'
<1>1. Path' = Path /\ \A t : (Lev(t))' = Lev(t)   BY SamePath
<1>2. \A t \in Scopes : (Busy(t))' => Busy(t)   BY DEF Busy, Moved
<1>3. ASSUME NEW t \in Scopes, (Busy(t))', NEW i \in 1..(Lev(t) - 1) PROVE pc'[Path[t][i]] = "open"
  <2>1. pc[Path[t][i]] = "open"   BY <1>2, <1>3 DEF OnePath
  <2>2. Path[t][i] \in Scopes   BY DEF Tree
  <2>3. CASE Path[t][i] # s   BY <2>1, <2>2, <2>3 DEF Moved
  <2>4. CASE Path[t][i] = s   BY <1>2, <1>3, <2>1, <2>4 DEF Leaf
  <2>5. QED  BY <2>3, <2>4
<1>4. ASSUME NEW t \in Scopes, NEW r \in Scopes, (Busy(t))', (Busy(r))', Lev(t) = Lev(r) PROVE t = r
  BY <1>2, <1>4 DEF OnePath
<1>5. QED  BY <1>1, <1>3, <1>4 DEF OnePath

\* A scope that begins inside the innermost one, or alone, leaves the busy
\* scopes on one path.
LEMMA EnterKeepsPath ==
    ASSUME Tree, OnePath, setting' = setting, NEW s \in Scopes, Moved(s), pc[s] = "unused",
           \/ \A t \in Scopes : ~Busy(t) /\ ~Nested(s)
           \/ Nested(s) /\ pc[Parent(s)] = "open" /\ Leaf(Parent(s))
    PROVE  OnePath'
<1>1. Path' = Path /\ \A t : (Lev(t))' = Lev(t)   BY SamePath
<1>2. \A t \in Scopes : t # s => ((Busy(t))' <=> Busy(t))   BY DEF Busy, Moved
<1>3. \A t \in Scopes : pc[t] = "open" => pc'[t] = "open"   BY DEF Moved
<1>4. ASSUME \A t \in Scopes : ~Busy(t) /\ ~Nested(s) PROVE OnePath'
  <2>1. Lev(s) = 1   BY <1>4 DEF Tree
  <2>2. \A t \in Scopes : (Busy(t))' => t = s   BY <1>2, <1>4
  <2>3. QED  BY <1>1, <2>1, <2>2 DEF OnePath
<1>5. ASSUME Nested(s), pc[Parent(s)] = "open", Leaf(Parent(s)) PROVE OnePath'
  <2>1. PICK p : p = Parent(s)   OBVIOUS
  <2>2. /\ p \in Scopes /\ Lev(p) = Lev(s) - 1 /\ p = Path[s][Lev(s) - 1] /\ Lev(s) > 1
        /\ Lev(s) \in Nat /\ Lev(p) \in Nat
    BY <1>5, <2>1 DEF Tree
  <2>3. Busy(p) /\ pc[p] = "open" /\ Leaf(p)   BY <1>5, <2>1 DEF Busy
  <2>4. ASSUME NEW i \in 1..(Lev(s) - 1) PROVE pc'[Path[s][i]] = "open"
    <3>1. Lev(s) - 1 \in 1..Lev(s) /\ i \in 1..Lev(s) /\ i \in 1..Lev(p)   BY <2>2
    <3>2. Path[p][i] = Path[s][i] /\ Path[s][i] \in Scopes   BY SMTT(60), <2>2, <3>1 DEF Tree
    <3>3. CASE i = Lev(p)   BY <3>3, <2>2, <2>3, <1>3
    <3>4. CASE i # Lev(p)
      <4>1. i \in 1..(Lev(p) - 1)   BY <3>1, <3>4, <2>2
      <4>2. QED  BY <4>1, <3>2, <2>2, <2>3, <1>3 DEF OnePath
    <3>5. QED  BY <3>3, <3>4
  <2>5. ASSUME NEW t \in Scopes, t # s, (Busy(t))' PROVE Lev(t) <= Lev(p)
    BY <1>2, <2>3, <2>5 DEF Leaf
  <2>6. ASSUME NEW t \in Scopes, (Busy(t))', NEW i \in 1..(Lev(t) - 1) PROVE pc'[Path[t][i]] = "open"
    <3>1. CASE t = s   BY <3>1, <2>4, <2>6
    <3>2. CASE t # s
      <4>1. pc[Path[t][i]] = "open"   BY <1>2, <2>6, <3>2 DEF OnePath
      <4>2. Path[t][i] \in Scopes   BY DEF Tree
      <4>3. QED  BY <4>1, <4>2, <1>3
    <3>3. QED  BY <3>1, <3>2
  <2>7. ASSUME NEW t \in Scopes, NEW r \in Scopes, (Busy(t))', (Busy(r))', Lev(t) = Lev(r) PROVE t = r
    <3>1. CASE t # s /\ r # s   BY <3>1, <1>2, <2>7 DEF OnePath
    <3>2. CASE t = s /\ r # s   BY <3>2, <2>2, <2>5, <2>7
    <3>3. CASE t # s /\ r = s   BY <3>3, <2>2, <2>5, <2>7
    <3>4. QED  BY <3>1, <3>2, <3>3
  <2>8. QED  BY <1>1, <2>6, <2>7 DEF OnePath
<1>6. QED  BY <1>4, <1>5

-------------------------------------------------------------------------------
(* The steps, as they are when one scope is at work at a time              *)

InOrder == TypeOK /\ OneAtATime(setting) /\ OnePath /\ OneStatement /\ Records

HandedOn(s) == IF aborted[s] # "none" THEN Aborted(aborted, Parent(s), aborted[s]) ELSE aborted

\* The paths of the scopes form a tree.
LEMMA InTree == ASSUME InOrder PROVE Tree
  BY TreeHolds DEF InOrder, TypeOK

\* Rolling back no level changes nothing.
LEMMA RollbackNone ==
    ASSUME RollbackServer(0) PROVE UNCHANGED connection
  BY DEF RollbackServer, connection

\* The end of Database::transaction's body in a run with one future at a
\* time: it decides for COMMIT only when nothing inside was aborted and no
\* statement was refused.
LEMMA EndIs ==
    ASSUME InOrder, NEW s \in Scopes, NEW ok \in BOOLEAN, End(s, ok)
    PROVE  /\ pc[s] = "open" /\ GateFree /\ Leaf(s) /\ UNCHANGED connection
           /\ pc' = [pc EXCEPT ![s] = "ending"]
           /\ kind' \in [Scopes -> {"none", "commit", "rollback", "leak"}]
           /\ \A t \in Scopes : t # s => kind'[t] = kind[t]
           /\ kind'[s] \in {"commit", "rollback"}
           /\ kind'[s] = "commit" => aborted[s] = "none" /\ ~(statement_failed[s] /\ TopFailed)
           /\ UNCHANGED <<outcome, slot, aborted, statement_failed, undo, deferred, stmt, stray, sent, memory>>
<1>1. pc[s] = "open" /\ GateFree /\ \A c \in Children(s) : ~Alive(c)   BY DEF End
<1>2. deferred[s] = 0 /\ ~stray[s]   BY DEF InOrder, Records, RecordFits
<1>3. UNCHANGED connection   BY <1>2, RollbackNone DEF End
<1>4. TopFailed' = TopFailed   BY <1>3 DEF TopFailed, Top, connection
<1>5. Leaf(s)   BY <1>1, InTree, LeafIsInnermost DEF Leaf, InOrder
<1>6. deferred \in [Scopes -> Nat] /\ kind \in [Scopes -> {"none", "commit", "rollback", "leak"}]
  BY DEF InOrder, TypeOK
<1>7. deferred' = deferred
  <2>1. deferred' = [deferred EXCEPT ![s] = 0]   BY DEF End
  <2>2. QED  BY <2>1, <1>2, <1>6
<1>8. PICK k : /\ k = IF stray[s] THEN "leak"
                      ELSE IF ~ok \/ aborted[s] # "none" THEN "rollback"
                      ELSE IF statement_failed[s] /\ TopFailed' THEN "rollback"
                      ELSE "commit"
               /\ kind' = [kind EXCEPT ![s] = k]
  BY Zenon DEF End
<1>9. k \in {"commit", "rollback"}   BY <1>2, <1>8
<1>10. k = "commit" => aborted[s] = "none" /\ ~(statement_failed[s] /\ TopFailed)   BY <1>4, <1>8
<1>11. kind'[s] = k /\ \A t \in Scopes : t # s => kind'[t] = kind[t]   BY <1>6, <1>8
<1>12. kind' \in [Scopes -> {"none", "commit", "rollback", "leak"}]   BY <1>6, <1>8, <1>9
<1>13. QED  BY <1>1, <1>3, <1>5, <1>7, <1>9, <1>10, <1>11, <1>12 DEF End

\* A transaction's future dropped in its body, in such a run: its level is
\* rolled back, its undo steps run, its parent is told.
LEMMA CancelIs ==
    ASSUME InOrder, NEW s \in Scopes, Cancel(s)
    PROVE  /\ pc[s] = "open" /\ GateFree /\ Leaf(s) /\ RollbackServer(1)
           /\ setting.cancel
           /\ pc' = [pc EXCEPT ![s] = "over"] /\ outcome' = [outcome EXCEPT ![s] = "cancelled"]
           /\ slot' = Freed(s)
           /\ memory' = memory \ undo[s] /\ undo' = [undo EXCEPT ![s] = {}]
           /\ aborted' = HandedOn(s)
           /\ UNCHANGED <<kind, statement_failed, deferred, stmt, stray, sent>>
<1>1. pc[s] = "open" /\ stmt[s] = "none" /\ \A c \in Children(s) : ~Alive(c)   BY DEF Cancel
<1>2. GateFree   BY <1>1, InTree, LeafHasTheGate DEF InOrder
<1>3. Leaf(s)   BY <1>1, InTree, LeafIsInnermost DEF Leaf, InOrder
<1>4. deferred[s] = 0 /\ ~stray[s] /\ ~Held(s) /\ aborted[s] # "Cancelled" /\ deferred \in [Scopes -> Nat]
  BY NotHeld DEF InOrder, Records, RecordFits, TypeOK
<1>5. /\ pc' = [pc EXCEPT ![s] = "over"] /\ outcome' = [outcome EXCEPT ![s] = "cancelled"]
      /\ slot' = Freed(s) /\ memory' = memory \ undo[s] /\ undo' = [undo EXCEPT ![s] = {}]
      /\ deferred' = [deferred EXCEPT ![s] = 0] /\ RollbackServer(1 + deferred[s])
      /\ UNCHANGED <<kind, statement_failed, stmt, stray, sent>>
      /\ aborted' = IF EndsTheConnectionTransaction(aborted[s])
                    THEN Aborted(aborted, Parent(s), aborted[s]) ELSE aborted
  BY Zenon, <1>2, <1>4 DEF Cancel
<1>6. deferred' = deferred /\ 1 + deferred[s] = 1   BY <1>4, <1>5
<1>7. aborted' = HandedOn(s)   BY <1>4, <1>5 DEF HandedOn, EndsTheConnectionTransaction
<1>8. QED  BY Zenon, <1>1, <1>2, <1>3, <1>5, <1>6, <1>7 DEF Cancel, MayCancel

\* The record of an ended transaction dropped, in such a run: undo steps it
\* still has run, and its parent is told of an abort.
LEMMA DropRecordIs ==
    ASSUME InOrder, NEW s \in Scopes, DropRecord(s)
    PROVE  /\ pc[s] = "ended" /\ UNCHANGED connection
           /\ pc' = [pc EXCEPT ![s] = "over"]
           /\ memory' = memory \ undo[s] /\ undo' = [undo EXCEPT ![s] = {}]
           /\ aborted' = HandedOn(s)
           /\ UNCHANGED <<outcome, kind, slot, statement_failed, deferred, stmt, stray, sent>>
<1>1. pc[s] = "ended"   BY DEF DropRecord, Returning
<1>2. deferred[s] = 0 /\ aborted[s] # "Cancelled" /\ deferred \in [Scopes -> Nat]
  BY DEF InOrder, Records, RecordFits, TypeOK
<1>3. outcome[s] = "ok" => aborted[s] = "none"   BY <1>1 DEF InOrder, Records, RecordFits
<1>4. ~(deferred[s] > 0)   BY <1>2
<1>5. /\ pc' = [pc EXCEPT ![s] = "over"]
      /\ memory' = memory \ undo[s] /\ undo' = [undo EXCEPT ![s] = {}]
      /\ deferred' = [deferred EXCEPT ![s] = 0] /\ RollbackServer(deferred[s])
      /\ UNCHANGED <<outcome, kind, slot, statement_failed, stmt, stray, sent>>
      /\ aborted' = IF outcome[s] # "ok" /\ EndsTheConnectionTransaction(aborted[s])
                    THEN Aborted(aborted, Parent(s), aborted[s]) ELSE aborted
  BY <1>4 DEF DropRecord
<1>6. deferred' = deferred /\ UNCHANGED connection   BY <1>2, <1>5, RollbackNone
<1>7. aborted' = HandedOn(s)   BY <1>2, <1>3, <1>5 DEF HandedOn, EndsTheConnectionTransaction
<1>8. QED  BY <1>1, <1>5, <1>6, <1>7

\* A transaction's future dropped while COMMIT or ROLLBACK is under way, in
\* such a run: the statement reaches the server or the driver's rollback does.
LEMMA CancelEndingIs ==
    ASSUME InOrder, NEW s \in Scopes, CancelEnding(s)
    PROVE  /\ pc[s] = "ending" /\ setting.cancel
           /\ pc' = [pc EXCEPT ![s] = "over"]
           /\ outcome' = [outcome EXCEPT ![s] = IF kind[s] = "commit" /\ depth = 1
                                                THEN "unknown" ELSE "cancelled"]
           /\ \/ RollbackServer(1)
              \/ Nested(s) /\ RollbackServer(2)
              \/ kind[s] = "commit" /\ depth = 1 /\ CommitServer
           /\ memory' = memory \ undo[s] /\ undo' = [undo EXCEPT ![s] = {}]
           /\ aborted' = Aborted(aborted, Parent(s), "Savepoint")
           /\ slot' = Freed(s)
           /\ UNCHANGED <<kind, statement_failed, deferred, stmt, stray, sent>>
<1>1. PICK a : a = Aborted(aborted, Parent(s), "Savepoint")   OBVIOUS
<1>2. ~Held(s) /\ pc[s] = "ending"   BY Zenon, NotHeld DEF InOrder, CancelEnding
<1>3. aborted' = IF EndsTheConnectionTransaction(aborted[s])
                 THEN Aborted(a, Parent(s), aborted[s]) ELSE a
  BY <1>1, <1>2 DEF CancelEnding
<1>4. Parent(s) \in Scopes => a[Parent(s)] # "none"
  BY <1>1 DEF Aborted, InOrder, TypeOK
<1>5. Aborted(a, Parent(s), aborted[s]) = a   BY <1>4 DEF Aborted
<1>6. QED  BY Zenon, <1>1, <1>2, <1>3, <1>5 DEF CancelEnding, MayCancel

\* The steps of a scope; without stray handles there are no others.
Works(s) ==
    \/ Begin(s)
    \/ Call(s)
    \/ TakeSlot(s)
    \/ BeginSavepoint(s)
    \/ LeaveQueue(s)
    \/ Begun(s)
    \/ \E o \in {"err", "cancelled"} : BeginFails(s, o)
    \/ Statement(s)
    \/ Succeeds(s)
    \/ Fails(s)
    \/ LosesTransaction(s)
    \/ DropStatement(s)
    \/ SqliteCheck(s)
    \/ DropCheck(s)
    \/ \E ok \in BOOLEAN : End(s, ok)
    \/ Committed(s)
    \/ CommitFails(s)
    \/ RolledBack(s)
    \/ DropRecord(s)
    \/ Cancel(s)
    \/ CancelEnding(s)

\* With one future at a time and no handle leaked, the steps of leaked
\* handles cannot be taken.
LEMMA NextWorks ==
    ASSUME InOrder, Next
    PROVE  setting' = setting /\ \E s \in Scopes : Works(s)
<1>1. PICK s \in Scopes : Runs(s) \/ Dropped(s)   BY DEF Next, Progress
<1>2. ~stray[s] /\ ~setting.leak /\ (pc[s] = "ending" => kind[s] # "leak")
  BY DEF InOrder, Records, RecordFits, OneAtATime
<1>3. ~Leak(s) /\ ~DropStray(s) /\ ~LeakEnded(s) /\ ~CancelLeakEnding(s)
  BY Zenon, <1>2 DEF Leak, MayLeak, DropStray, LeakEnded, CancelLeakEnding
<1>4. Works(s)   BY <1>1, <1>3 DEF Works, Runs, Dropped
<1>5. QED  BY <1>4 DEF Next

\* OnePath is kept.
LEMMA PathStep ==
    ASSUME InOrder, setting' = setting, NEW s \in Scopes, Works(s)
    PROVE  OnePath'
<1>a. /\ Tree /\ OnePath /\ Records /\ OneAtATime(setting)
      /\ pc \in [Scopes -> {"unused", "waiting", "queued", "starting", "open", "ending", "ended", "over"}]
  BY Zenon, InTree DEF InOrder, TypeOK
<1>b. ASSUME pc' = pc PROVE OnePath'
  BY <1>a, <1>b, SamePath DEF OnePath, Busy
<1>1. CASE Begin(s)
  <2>1. Moved(s) /\ pc[s] = "unused"   BY <1>1, <1>a DEF Begin, Moved
  <2>2. \A t \in Scopes : ~Busy(t) /\ ~Nested(s)   BY <1>1, <1>a, NotHeld DEF Begin
  <2>3. QED  BY <2>1, <2>2, <1>a, EnterKeepsPath
<1>2. CASE Call(s)
  <2>1. Moved(s) /\ pc[s] = "unused" /\ Nested(s) /\ Running(Parent(s))   BY <1>2, <1>a DEF Call, Moved
  <2>2. Parent(s) \in Scopes   BY <2>1, <1>a DEF Tree
  <2>3. pc[Parent(s)] = "open" /\ \A c \in Children(Parent(s)) : ~Alive(c)
    BY <2>1, <1>a DEF Running, Concurrency, OneAtATime
  <2>4. Leaf(Parent(s))   BY <2>2, <2>3, <1>a, LeafIsInnermost DEF Leaf
  <2>5. QED  BY <2>1, <2>3, <2>4, <1>a, EnterKeepsPath
<1>3. CASE TakeSlot(s)
  <2>1. Moved(s) /\ Busy(s) /\ pc[s] # "open"   BY <1>3, <1>a DEF TakeSlot, Moved, Busy
  <2>2. QED  BY <2>1, <1>a, MoveKeepsPath
<1>4. CASE BeginSavepoint(s)
  <2>1. Moved(s) /\ Busy(s) /\ pc[s] # "open"   BY <1>4, <1>a DEF BeginSavepoint, Moved, Busy
  <2>2. QED  BY <2>1, <1>a, MoveKeepsPath
<1>5. CASE LeaveQueue(s)
  <2>1. Moved(s) /\ Busy(s) /\ pc[s] # "open"   BY <1>5, <1>a DEF LeaveQueue, Moved, Busy
  <2>2. QED  BY <2>1, <1>a, MoveKeepsPath
<1>6. CASE Begun(s)
  <2>1. Moved(s) /\ Busy(s) /\ pc[s] # "open"   BY <1>6, <1>a DEF Begun, Moved, Busy
  <2>2. QED  BY <2>1, <1>a, MoveKeepsPath
<1>7. CASE \E o \in {"err", "cancelled"} : BeginFails(s, o)
  <2>1. Moved(s) /\ Busy(s) /\ pc[s] # "open"   BY <1>7, <1>a DEF BeginFails, Moved, Busy
  <2>2. QED  BY <2>1, <1>a, MoveKeepsPath
<1>8. CASE Statement(s)
  BY <1>8, <1>b DEF Statement, Noted
<1>9. CASE Succeeds(s)
  BY <1>9, <1>b DEF Succeeds, Noted
<1>10. CASE Fails(s)
  BY <1>10, <1>b DEF Fails, Noted
<1>11. CASE LosesTransaction(s)
  BY <1>11, <1>b DEF LosesTransaction, Noted
<1>12. CASE DropStatement(s)
  BY <1>12, <1>b DEF DropStatement, Noted
<1>13. CASE SqliteCheck(s)
  BY <1>13, <1>b DEF SqliteCheck, Noted
<1>14. CASE DropCheck(s)
  BY <1>14, <1>b DEF DropCheck, Noted
<1>15. CASE \E ok \in BOOLEAN : End(s, ok)
  <2>1. Moved(s) /\ Busy(s) /\ (pc[s] = "open" => Leaf(s))   BY <1>15, <1>a, EndIs DEF Moved, Busy
  <2>2. QED  BY <2>1, <1>a, MoveKeepsPath
<1>16. CASE Committed(s)
  <2>1. Moved(s) /\ Busy(s) /\ pc[s] # "open"   BY Zenon, <1>16, <1>a DEF Committed, Finish, Moved, Busy
  <2>2. QED  BY <2>1, <1>a, MoveKeepsPath
<1>17. CASE CommitFails(s)
  <2>1. Moved(s) /\ Busy(s) /\ pc[s] # "open"   BY <1>17, <1>a DEF CommitFails, Finish, Moved, Busy
  <2>2. QED  BY <2>1, <1>a, MoveKeepsPath
<1>18. CASE RolledBack(s)
  <2>1. Moved(s) /\ Busy(s) /\ pc[s] # "open"   BY <1>18, <1>a DEF RolledBack, Finish, Moved, Busy
  <2>2. QED  BY <2>1, <1>a, MoveKeepsPath
<1>19. CASE DropRecord(s)
  <2>1. Moved(s) /\ Busy(s) /\ (pc[s] = "open" => Leaf(s))   BY <1>19, <1>a, DropRecordIs DEF Moved, Busy
  <2>2. QED  BY <2>1, <1>a, MoveKeepsPath
<1>20. CASE Cancel(s)
  <2>1. Moved(s) /\ Busy(s) /\ (pc[s] = "open" => Leaf(s))   BY <1>20, <1>a, CancelIs DEF Moved, Busy
  <2>2. QED  BY <2>1, <1>a, MoveKeepsPath
<1>21. CASE CancelEnding(s)
  <2>1. Moved(s) /\ Busy(s) /\ (pc[s] = "open" => Leaf(s))   BY <1>21, <1>a, CancelEndingIs DEF Moved, Busy
  <2>2. QED  BY <2>1, <1>a, MoveKeepsPath
<1>22. QED  BY <1>1, <1>2, <1>3, <1>4, <1>5, <1>6, <1>7, <1>8, <1>9, <1>10, <1>11, <1>12, <1>13, <1>14, <1>15, <1>16, <1>17, <1>18, <1>19, <1>20, <1>21 DEF Works

\* PendingInvalidations::abort keeps the first reason.
LEMMA AbortedIs ==
    ASSUME aborted \in [Scopes -> Reasons], NEW p, NEW why
    PROVE  \A t \in Scopes : Aborted(aborted, p, why)[t] =
                              IF t = p /\ aborted[t] = "none" THEN why ELSE aborted[t]
<1>1. CASE p \in Scopes /\ aborted[p] = "none"   BY <1>1 DEF Aborted
<1>2. CASE ~(p \in Scopes /\ aborted[p] = "none")   BY <1>2 DEF Aborted
<1>3. QED  BY <1>1, <1>2

\* A scope without a statement under way may go on: there is still at most
\* one statement, and it is the innermost scope's.
LEMMA MoveKeepsStatement ==
    ASSUME OneStatement, setting' = setting, NEW s \in Scopes, Moved(s), stmt' = stmt, stmt[s] = "none",
           \/ \A t \in Scopes : stmt[t] = "none"
           \/ pc'[s] \notin {"starting", "open", "ending", "ended"}
           \/ pc[s] \in {"starting", "open", "ending", "ended"}
    PROVE  OneStatement'
<1>1. \A t : (Lev(t))' = Lev(t)   BY SamePath
<1>2. QED  BY <1>1 DEF OneStatement, Moved

\* The scope around one at work: it is open, runs no statement of its own and
\* starts no other savepoint.
LEMMA Around ==
    ASSUME InOrder, NEW s \in Scopes, Nested(s), pc[s] \in {"starting", "open", "ending", "ended"}
    PROVE  /\ Parent(s) \in Scopes /\ Parent(s) # s
           /\ pc[Parent(s)] = "open" /\ stmt[Parent(s)] = "none"
           /\ \A t \in Scopes : t # s /\ Busy(t) => ~Nested(t) \/ Parent(t) # Parent(s)
<1>a. Tree /\ OnePath /\ OneStatement   BY InTree DEF InOrder
<1>1. PICK p : p = Parent(s)   OBVIOUS
<1>2. /\ p \in Scopes /\ Lev(s) > 1 /\ p = Path[s][Lev(s) - 1] /\ Lev(p) = Lev(s) - 1 /\ Lev(s) \in Nat
  BY <1>a, <1>1 DEF Tree
<1>3. Busy(s) /\ Lev(s) - 1 \in 1..(Lev(s) - 1)   BY <1>2 DEF Busy
<1>4. pc[p] = "open"   BY <1>2, <1>3, <1>a DEF OnePath
<1>5. stmt[p] = "none"   BY <1>2, <1>a DEF OneStatement
<1>6. ASSUME NEW t \in Scopes, t # s, Busy(t), Nested(t), Parent(t) = p PROVE FALSE
  <2>1. Lev(t) \in Nat /\ Lev(p) = Lev(t) - 1   BY <1>a, <1>6 DEF Tree
  <2>2. QED  BY <2>1, <1>2, <1>3, <1>6, <1>a DEF OnePath
<1>7. QED  BY <1>1, <1>2, <1>4, <1>5, <1>6

\* A scope that runs a statement starts no savepoint.
LEMMA Inside ==
    ASSUME InOrder, NEW s \in Scopes, stmt[s] # "none"
    PROVE  /\ pc[s] = "open" /\ \A t \in Scopes : t # s => stmt[t] = "none"
           /\ \A t \in Scopes : pc[t] = "starting" /\ Nested(t) => Parent(t) # s
           /\ \A t \in Scopes : pc[t] \notin {"starting", "ending", "ended"}
           /\ Innermost(s)
<1>a. Tree /\ OnePath /\ OneStatement   BY InTree DEF InOrder
<1>1. pc[s] = "open" /\ \A t \in Scopes : pc[t] \in {"starting", "open", "ending", "ended"} => Lev(t) <= Lev(s)
  BY <1>a DEF OneStatement
<1>2. Busy(s)   BY <1>1 DEF Busy
<1>3. ASSUME NEW t \in Scopes, pc[t] \in {"starting", "ending", "ended"} PROVE FALSE
  <2>1. Lev(t) <= Lev(s) /\ Busy(t) /\ t # s   BY <1>1, <1>3 DEF Busy
  <2>2. pc[t] = "open"   BY <1>a, <1>2, <2>1, Below
  <2>3. QED  BY <1>3, <2>2
<1>4. ASSUME NEW t \in Scopes, t # s, stmt[t] # "none" PROVE FALSE
  <2>1. pc[t] = "open" /\ Lev(s) <= Lev(t)   BY <1>a, <1>1, <1>4 DEF OneStatement
  <2>2. Lev(t) <= Lev(s) /\ Busy(t)   BY <1>1, <2>1 DEF Busy
  <2>3. Lev(t) < Lev(s)   BY <1>a, <1>2, <1>4, <2>2, Below
  <2>4. QED  BY <1>a, <2>1, <2>3 DEF Tree
<1>5. QED  BY <1>1, <1>3, <1>4 DEF Innermost, On

\* OneStatement is kept.
LEMMA StatementStep ==
    ASSUME InOrder, setting' = setting, NEW s \in Scopes, Works(s)
    PROVE  OneStatement'
<1>a. /\ InOrder /\ Tree /\ OnePath /\ OneStatement /\ Records /\ OneAtATime(setting)
      /\ pc \in [Scopes -> {"unused", "waiting", "queued", "starting", "open", "ending", "ended", "over"}]
      /\ stmt \in [Scopes -> {"none", "running", "checking"}]
  BY Zenon, InTree DEF InOrder, TypeOK
<1>1. CASE Begin(s)
  <2>1. Moved(s) /\ stmt' = stmt   BY <1>1, <1>a DEF Begin, Moved
  <2>2. \A t \in Scopes : stmt[t] = "none"   BY <1>1, <1>a, NotHeld DEF Begin, OneStatement, Busy
  <2>3. stmt[s] = "none"   BY <2>2, <1>a DEF OneStatement
  <2>4. QED  BY <2>1, <2>2, <2>3, <1>a, MoveKeepsStatement
<1>2. CASE Call(s)
  <2>1. Moved(s) /\ stmt' = stmt   BY <1>2, <1>a DEF Call, Moved
  <2>2. pc'[s] \notin {"starting", "open", "ending", "ended"} /\ pc[s] # "open"   BY <1>2, <1>a DEF Call
  <2>3. stmt[s] = "none"   BY <2>2, <1>a DEF OneStatement
  <2>4. QED  BY <2>1, <2>2, <2>3, <1>a, MoveKeepsStatement
<1>3. CASE TakeSlot(s)
  <2>1. Moved(s) /\ stmt' = stmt   BY <1>3, <1>a DEF TakeSlot, Moved
  <2>2. pc'[s] \notin {"starting", "open", "ending", "ended"} /\ pc[s] # "open"   BY <1>3, <1>a DEF TakeSlot
  <2>3. stmt[s] = "none"   BY <2>2, <1>a DEF OneStatement
  <2>4. QED  BY <2>1, <2>2, <2>3, <1>a, MoveKeepsStatement
<1>4. CASE BeginSavepoint(s)
  <2>1. Moved(s) /\ stmt' = stmt   BY <1>4, <1>a DEF BeginSavepoint, Moved
  <2>2. \A t \in Scopes : stmt[t] = "none"   BY <1>4 DEF BeginSavepoint, GateFree
  <2>3. stmt[s] = "none"   BY <2>2, <1>a DEF OneStatement
  <2>4. QED  BY <2>1, <2>2, <2>3, <1>a, MoveKeepsStatement
<1>5. CASE LeaveQueue(s)
  <2>1. Moved(s) /\ stmt' = stmt   BY <1>5, <1>a DEF LeaveQueue, Moved
  <2>2. pc'[s] \notin {"starting", "open", "ending", "ended"} /\ pc[s] # "open"   BY <1>5, <1>a DEF LeaveQueue
  <2>3. stmt[s] = "none"   BY <2>2, <1>a DEF OneStatement
  <2>4. QED  BY <2>1, <2>2, <2>3, <1>a, MoveKeepsStatement
<1>6. CASE Begun(s)
  <2>1. Moved(s) /\ stmt' = stmt   BY <1>6, <1>a DEF Begun, Moved
  <2>2. pc[s] \in {"starting", "open", "ending", "ended"} /\ pc[s] # "open"   BY <1>6, <1>a DEF Begun
  <2>3. stmt[s] = "none"   BY <2>2, <1>a DEF OneStatement
  <2>4. QED  BY <2>1, <2>2, <2>3, <1>a, MoveKeepsStatement
<1>7. CASE \E o \in {"err", "cancelled"} : BeginFails(s, o)
  <2>1. Moved(s) /\ stmt' = stmt   BY <1>7, <1>a DEF BeginFails, Moved
  <2>2. pc[s] \in {"starting", "open", "ending", "ended"} /\ pc[s] # "open"   BY <1>7, <1>a DEF BeginFails
  <2>3. stmt[s] = "none"   BY <2>2, <1>a DEF OneStatement
  <2>4. QED  BY <2>1, <2>2, <2>3, <1>a, MoveKeepsStatement
<1>8. CASE Statement(s)
  <2>1. Running(s) /\ GateFree /\ pc' = pc /\ \A t \in Scopes : t # s => stmt'[t] = stmt[t]
    BY Zenon, <1>8, <1>a DEF Statement, Records, RecordFits
  <2>2. pc[s] = "open" /\ \A c \in Children(s) : ~Alive(c)   BY <2>1, <1>a DEF Running, Concurrency, OneAtATime
  <2>3. Leaf(s)   BY <2>2, <1>a, LeafIsInnermost DEF Leaf
  <2>4. \A t : (Lev(t))' = Lev(t)   BY SamePath
  <2>5. QED  BY <2>1, <2>2, <2>3, <2>4 DEF OneStatement, GateFree, Leaf, Busy
<1>9. CASE Succeeds(s)
  <2>1. pc' = pc /\ stmt[s] # "none" /\ \A t \in Scopes : t # s => stmt'[t] = stmt[t]
    BY <1>9, <1>a DEF Succeeds, Noted
  <2>2. \A t : (Lev(t))' = Lev(t)   BY SamePath
  <2>3. QED  BY <2>1, <2>2, <1>a DEF OneStatement
<1>10. CASE Fails(s)
  <2>1. pc' = pc /\ stmt[s] # "none" /\ \A t \in Scopes : t # s => stmt'[t] = stmt[t]
    BY <1>10, <1>a DEF Fails, Noted
  <2>2. \A t : (Lev(t))' = Lev(t)   BY SamePath
  <2>3. QED  BY <2>1, <2>2, <1>a DEF OneStatement
<1>11. CASE LosesTransaction(s)
  <2>1. pc' = pc /\ stmt[s] # "none" /\ \A t \in Scopes : t # s => stmt'[t] = stmt[t]
    BY <1>11, <1>a DEF LosesTransaction, Noted
  <2>2. \A t : (Lev(t))' = Lev(t)   BY SamePath
  <2>3. QED  BY <2>1, <2>2, <1>a DEF OneStatement
<1>12. CASE DropStatement(s)
  <2>1. pc' = pc /\ stmt[s] # "none" /\ \A t \in Scopes : t # s => stmt'[t] = stmt[t]
    BY <1>12, <1>a DEF DropStatement, Noted
  <2>2. \A t : (Lev(t))' = Lev(t)   BY SamePath
  <2>3. QED  BY <2>1, <2>2, <1>a DEF OneStatement
<1>13. CASE SqliteCheck(s)
  <2>1. pc' = pc /\ stmt[s] # "none" /\ \A t \in Scopes : t # s => stmt'[t] = stmt[t]
    BY <1>13, <1>a DEF SqliteCheck, Noted
  <2>2. \A t : (Lev(t))' = Lev(t)   BY SamePath
  <2>3. QED  BY <2>1, <2>2, <1>a DEF OneStatement
<1>14. CASE DropCheck(s)
  <2>1. pc' = pc /\ stmt[s] # "none" /\ \A t \in Scopes : t # s => stmt'[t] = stmt[t]
    BY <1>14, <1>a DEF DropCheck, Noted
  <2>2. \A t : (Lev(t))' = Lev(t)   BY SamePath
  <2>3. QED  BY <2>1, <2>2, <1>a DEF OneStatement
<1>15. CASE \E ok \in BOOLEAN : End(s, ok)
  <2>1. Moved(s) /\ stmt' = stmt   BY <1>15, <1>a, EndIs DEF Moved
  <2>2. \A t \in Scopes : stmt[t] = "none"   BY <1>15, <1>a, EndIs DEF GateFree
  <2>3. stmt[s] = "none"   BY <2>2, <1>a DEF OneStatement
  <2>4. QED  BY <2>1, <2>2, <2>3, <1>a, MoveKeepsStatement
<1>16. CASE Committed(s)
  <2>1. Moved(s) /\ stmt' = stmt   BY <1>16, <1>a DEF Committed, Finish, Moved
  <2>2. pc[s] \in {"starting", "open", "ending", "ended"} /\ pc[s] # "open"   BY <1>16, <1>a DEF Committed
  <2>3. stmt[s] = "none"   BY <2>2, <1>a DEF OneStatement
  <2>4. QED  BY <2>1, <2>2, <2>3, <1>a, MoveKeepsStatement
<1>17. CASE CommitFails(s)
  <2>1. Moved(s) /\ stmt' = stmt   BY <1>17, <1>a DEF CommitFails, Finish, Moved
  <2>2. pc[s] \in {"starting", "open", "ending", "ended"} /\ pc[s] # "open"   BY <1>17, <1>a DEF CommitFails
  <2>3. stmt[s] = "none"   BY <2>2, <1>a DEF OneStatement
  <2>4. QED  BY <2>1, <2>2, <2>3, <1>a, MoveKeepsStatement
<1>18. CASE RolledBack(s)
  <2>1. Moved(s) /\ stmt' = stmt   BY <1>18, <1>a DEF RolledBack, Finish, Moved
  <2>2. pc[s] \in {"starting", "open", "ending", "ended"} /\ pc[s] # "open"   BY <1>18, <1>a DEF RolledBack
  <2>3. stmt[s] = "none"   BY <2>2, <1>a DEF OneStatement
  <2>4. QED  BY <2>1, <2>2, <2>3, <1>a, MoveKeepsStatement
<1>19. CASE DropRecord(s)
  <2>1. Moved(s) /\ stmt' = stmt   BY <1>19, <1>a, DropRecordIs DEF Moved
  <2>2. pc[s] \in {"starting", "open", "ending", "ended"} /\ pc[s] # "open"   BY <1>19, <1>a, DropRecordIs
  <2>3. stmt[s] = "none"   BY <2>2, <1>a DEF OneStatement
  <2>4. QED  BY <2>1, <2>2, <2>3, <1>a, MoveKeepsStatement
<1>20. CASE Cancel(s)
  <2>1. Moved(s) /\ stmt' = stmt   BY <1>20, <1>a, CancelIs DEF Moved
  <2>2. \A t \in Scopes : stmt[t] = "none"   BY <1>20, <1>a, CancelIs DEF GateFree
  <2>3. stmt[s] = "none"   BY <2>2, <1>a DEF OneStatement
  <2>4. QED  BY <2>1, <2>2, <2>3, <1>a, MoveKeepsStatement
<1>21. CASE CancelEnding(s)
  <2>1. Moved(s) /\ stmt' = stmt   BY <1>21, <1>a, CancelEndingIs DEF Moved
  <2>2. pc[s] \in {"starting", "open", "ending", "ended"} /\ pc[s] # "open"   BY <1>21, <1>a, CancelEndingIs
  <2>3. stmt[s] = "none"   BY <2>2, <1>a DEF OneStatement
  <2>4. QED  BY <2>1, <2>2, <2>3, <1>a, MoveKeepsStatement
<1>22. QED  BY <1>1, <1>2, <1>3, <1>4, <1>5, <1>6, <1>7, <1>8, <1>9, <1>10, <1>11, <1>12, <1>13, <1>14, <1>15, <1>16, <1>17, <1>18, <1>19, <1>20, <1>21 DEF Works

\* The scope is over and its record gone.
Departs(s) ==
    /\ pc'[s] = "over" /\ outcome'[s] # "none" /\ undo'[s] = {}
    /\ \A t \in Scopes : t # s => pc'[t] = pc[t] /\ outcome'[t] = outcome[t] /\ undo'[t] = undo[t]
    /\ UNCHANGED <<kind, deferred, stmt, stray>>

\* A scope that is over keeps the records as they should be: its own are
\* empty, and its parent learns of an abort.
LEMMA DepartureKeepsRecords ==
    ASSUME InOrder, setting' = setting, backend' = backend, NEW s \in Scopes, Departs(s),
           pc[s] \in {"starting", "open", "ending", "ended"},
           \A t \in Scopes :
              aborted'[t] = aborted[t] \/ (Nested(s) /\ t = Parent(s) /\ aborted'[t] \notin {"Cancelled", "Leaked"})
    PROVE  Records'
<1>a. Tree /\ Records /\ Busy(s)   BY InTree DEF InOrder, Busy
<1>b. \A t : (Nested(t))' = Nested(t) /\ (Parent(t))' = Parent(t)   BY SamePath
<1>1. Nested(s) => /\ Parent(s) \in Scopes /\ Parent(s) # s
                   /\ pc[Parent(s)] = "open" /\ stmt[Parent(s)] = "none"
                   /\ \A t \in Scopes : t # s /\ Busy(t) => ~Nested(t) \/ Parent(t) # Parent(s)
  BY Around
<1>2. ASSUME NEW t \in Scopes PROVE aborted'[t] \notin {"Cancelled", "Leaked"}
  BY <1>a DEF Records, RecordFits
<1>3. aborted'[s] = aborted[s]   BY <1>1
<1>4. ASSUME NEW t \in Scopes, t # s, pc[t] = "starting", Nested(t) PROVE aborted'[Parent(t)] = "none"
  <2>1. Parent(t) \in Scopes /\ Busy(t)   BY <1>4, <1>a DEF Tree, Busy
  <2>2. aborted[Parent(t)] = "none"   BY <1>4, <1>a DEF Records, RecordFits
  <2>3. QED  BY <1>1, <1>4, <2>1, <2>2
<1>5. ASSUME NEW t \in Scopes, aborted'[t] # aborted[t] PROVE pc[t] = "open" /\ stmt[t] = "none" /\ t # s
  BY <1>1, <1>5
<1>6. ASSUME NEW t \in Scopes, t # s
      PROVE  /\ pc'[t] = pc[t] /\ outcome'[t] = outcome[t] /\ undo'[t] = undo[t]
             /\ pc[t] # "open" \/ stmt[t] # "none" => aborted'[t] = aborted[t]
  BY Zenon, <1>5, <1>6 DEF Departs
<1>7. ASSUME NEW t \in Scopes, t # s PROVE RecordFits(t)'
  <2>1. RecordFits(t) /\ (pc[t] = "starting" /\ Nested(t) => aborted'[Parent(t)] = "none")
    BY <1>a, <1>4, <1>7 DEF Records
  <2>2. /\ pc'[t] = pc[t] /\ outcome'[t] = outcome[t] /\ undo'[t] = undo[t]
        /\ pc[t] # "open" \/ stmt[t] # "none" => aborted'[t] = aborted[t]
        /\ aborted'[t] \notin {"Cancelled", "Leaked"}
    BY Zenon, <1>2, <1>6, <1>7
  <2>3. QED  BY <1>b, <2>1, <2>2 DEF RecordFits, Departs
<1>8. RecordFits(s)'
  <2>1. RecordFits(s) /\ stmt'[s] = stmt[s]   BY <1>a DEF Departs, Records
  <2>2. QED  BY <1>2, <1>3, <2>1 DEF RecordFits, Departs
<1>9. QED  BY <1>7, <1>8 DEF Records

\* The connection is one of its backend for good.
LEMMA BackendStays ==
    ASSUME InOrder, setting' = setting, NEW s \in Scopes, Works(s)
    PROVE  backend' = backend
<1>1. CASE Begin(s)
  BY <1>1 DEF Begin, connection
<1>2. CASE Call(s)
  BY <1>2 DEF Call, connection
<1>3. CASE TakeSlot(s)
  BY <1>3 DEF TakeSlot, connection
<1>4. CASE BeginSavepoint(s)
  BY <1>4 DEF BeginSavepoint, connection
<1>5. CASE LeaveQueue(s)
  BY <1>5 DEF LeaveQueue, connection
<1>6. CASE Begun(s)
  BY <1>6 DEF Begun, connection, SavepointServer, BeginServer
<1>7. CASE \E o \in {"err", "cancelled"} : BeginFails(s, o)
  BY <1>7 DEF BeginFails, connection, RollbackServer
<1>8. CASE Statement(s)
  BY <1>8 DEF Statement, connection
<1>9. CASE Succeeds(s)
  BY <1>9 DEF Succeeds, connection, WriteServer
<1>10. CASE Fails(s)
  BY <1>10 DEF Fails, connection, FailServer
<1>11. CASE LosesTransaction(s)
  BY <1>11 DEF LosesTransaction, connection, FailServer, LoseServer
<1>12. CASE DropStatement(s)
  BY <1>12 DEF DropStatement, connection, WriteServer
<1>13. CASE SqliteCheck(s)
  BY <1>13 DEF SqliteCheck, connection
<1>14. CASE DropCheck(s)
  BY <1>14 DEF DropCheck, connection
<1>15. CASE \E ok \in BOOLEAN : End(s, ok)
  BY Zenon, <1>15, EndIs DEF End, connection
<1>16. CASE Committed(s)
  BY <1>16 DEF Committed, connection, ReleaseServer, CommitServer
<1>17. CASE CommitFails(s)
  BY <1>17 DEF CommitFails, connection, RollbackServer, CommitServer
<1>18. CASE RolledBack(s)
  BY <1>18 DEF RolledBack, connection, RollbackServer
<1>19. CASE DropRecord(s)
  BY Zenon, <1>19, DropRecordIs DEF DropRecord, connection
<1>20. CASE Cancel(s)
  BY Zenon, <1>20, CancelIs DEF Cancel, connection, RollbackServer
<1>21. CASE CancelEnding(s)
  BY Zenon, <1>21, CancelEndingIs DEF CancelEnding, connection, RollbackServer, CommitServer
<1>22. QED  BY <1>1, <1>2, <1>3, <1>4, <1>5, <1>6, <1>7, <1>8, <1>9, <1>10, <1>11, <1>12, <1>13, <1>14, <1>15, <1>16, <1>17, <1>18, <1>19, <1>20, <1>21 DEF Works

\* Records is kept.
LEMMA RecordsStep ==
    ASSUME InOrder, setting' = setting, NEW s \in Scopes, Works(s)
    PROVE  Records'
<1>0. backend' = backend   BY BackendStays
<1>a. /\ InOrder /\ Tree /\ OnePath /\ OneStatement /\ Records /\ OneAtATime(setting) /\ TypeOK
  BY InTree DEF InOrder
<1>b. \A t : (Nested(t))' = Nested(t) /\ (Parent(t))' = Parent(t)   BY SamePath
<1>c. /\ pc \in [Scopes -> {"unused", "waiting", "queued", "starting", "open", "ending", "ended", "over"}]
      /\ outcome \in [Scopes -> {"none", "ok", "err", "cancelled", "unknown"}]
      /\ kind \in [Scopes -> {"none", "commit", "rollback", "leak"}]
      /\ aborted \in [Scopes -> Reasons]
      /\ undo \in [Scopes -> SUBSET (Scopes \X Nat)]
      /\ stmt \in [Scopes -> {"none", "running", "checking"}]
  BY <1>a DEF TypeOK
<1>1. CASE Begin(s)
  BY <1>1, <1>a, <1>b, <1>c, <1>0 DEF Begin, Records, RecordFits, connection, record
<1>2. CASE Call(s)
  BY <1>2, <1>a, <1>b, <1>c, <1>0 DEF Call, Records, RecordFits, connection, record
<1>3. CASE TakeSlot(s)
  BY <1>3, <1>a, <1>b, <1>c, <1>0 DEF TakeSlot, Records, RecordFits, connection, record
<1>4. CASE BeginSavepoint(s)
  BY <1>4, <1>a, <1>b, <1>c, <1>0 DEF BeginSavepoint, Records, RecordFits, connection, record
<1>5. CASE LeaveQueue(s)
  BY <1>5, <1>a, <1>b, <1>c, <1>0 DEF LeaveQueue, Records, RecordFits, connection, record
<1>6. CASE Begun(s)
  BY <1>6, <1>a, <1>b, <1>c, <1>0 DEF Begun, Records, RecordFits, connection, record
<1>7. CASE \E o \in {"err", "cancelled"} : BeginFails(s, o)
  <2>1. pc[s] \in {"starting", "open", "ending", "ended"} /\ Busy(s)
    BY <1>7, <1>a DEF BeginFails, Busy
  <2>2. Nested(s) => /\ Parent(s) \in Scopes /\ Parent(s) # s
                     /\ pc[Parent(s)] = "open" /\ stmt[Parent(s)] = "none"
                     /\ \A t \in Scopes : t # s /\ Busy(t) => ~Nested(t) \/ Parent(t) # Parent(s)
    BY Zenon, <2>1, Around
  <2>3. ~Nested(s) => Parent(s) \notin Scopes   BY <1>a, ScopesAssumption DEF Tree
  <2>4. aborted' = aborted \/ aborted' = Aborted(aborted, Parent(s), "Savepoint")   BY <1>7 DEF BeginFails
  <2>5. \A t \in Scopes :
          aborted'[t] = aborted[t] \/ (Nested(s) /\ t = Parent(s) /\ aborted'[t] \notin {"Cancelled", "Leaked"})
    <3>1. CASE aborted' = aborted   BY <3>1
    <3>2. CASE aborted' = Aborted(aborted, Parent(s), "Savepoint")
      <4>1. \A t \in Scopes : Aborted(aborted, Parent(s), "Savepoint")[t] =
                               IF t = Parent(s) /\ aborted[t] = "none" THEN "Savepoint" ELSE aborted[t]
        BY <1>c, AbortedIs
      <4>2. "Savepoint" \notin {"Cancelled", "Leaked"}   BY <1>a DEF Records, RecordFits, connection, record
      <4>3. QED  BY <2>3, <3>2, <4>1, <4>2
    <3>3. QED  BY <2>4, <3>1, <3>2
  <2>6. (undo[s] # {} => pc[s] # "starting") /\ (pc[s] = "ended" => outcome[s] # "none")   BY <1>a DEF Records, RecordFits, connection, record
  <2>7. Departs(s)   BY <1>7, <2>1, <2>6, <1>a, <1>c DEF BeginFails, Departs
  <2>8. QED  BY Zenon, <2>1, <2>5, <2>7, <1>a, <1>0, DepartureKeepsRecords
<1>8. CASE Statement(s)
  BY <1>8, <1>a, <1>b, <1>c, <1>0 DEF Statement, Records, RecordFits, connection, record
<1>9. CASE Succeeds(s)
  <2>1. pc[s] = "open"   BY <1>9, Inside DEF Succeeds
  <2>2. QED  BY <1>9, <2>1, <1>a, <1>b, <1>c, <1>0 DEF Succeeds, Records, RecordFits, connection, record
<1>10. CASE Fails(s)
  <2>1. stmt[s] # "none"   BY <1>10 DEF Fails
  <2>2. \A t \in Scopes : pc[t] = "starting" /\ Nested(t) => Parent(t) # s   BY <2>1, Inside
  <2>3. QED  BY <1>10, <1>a, <1>b, <1>c, <1>0, <2>2, Inside DEF Fails, Noted, Aborted, Records, RecordFits
<1>11. CASE LosesTransaction(s)
  <2>1. stmt[s] # "none"   BY <1>11 DEF LosesTransaction
  <2>2. \A t \in Scopes : pc[t] = "starting" /\ Nested(t) => Parent(t) # s   BY <2>1, Inside
  <2>3. QED  BY SMTT(60), <1>11, <1>a, <1>b, <1>c, <1>0, <2>2, Inside DEF LosesTransaction, Noted, Aborted, Records, RecordFits
<1>12. CASE DropStatement(s)
  BY <1>12, <1>a, <1>b, <1>c, <1>0 DEF DropStatement, Records, RecordFits, connection, record
<1>13. CASE SqliteCheck(s)
  <2>1. stmt[s] # "none"   BY <1>13 DEF SqliteCheck
  <2>2. \A t \in Scopes : pc[t] = "starting" /\ Nested(t) => Parent(t) # s   BY <2>1, Inside
  <2>3. QED  BY SMTT(60), <1>13, <1>a, <1>b, <1>c, <1>0, <2>2, Inside DEF SqliteCheck, Noted, Aborted, Records, RecordFits
<1>14. CASE DropCheck(s)
  BY ZenonT(60), <1>14, <1>a, <1>b, <1>c, <1>0 DEF DropCheck, Records, RecordFits, connection, record
<1>15. CASE \E ok \in BOOLEAN : End(s, ok)
  BY <1>15, <1>a, <1>b, <1>c, <1>0, EndIs DEF Records, RecordFits, connection, record
<1>16. CASE Committed(s)
  <2>1. pc[s] = "ending" /\ Busy(s) /\ aborted[s] = "none"   BY Zenon, <1>16, <1>a DEF Committed, Busy, Records, RecordFits, connection, record
  <2>2. Nested(s) => Parent(s) \in Scopes /\ pc[Parent(s)] = "open"   BY Zenon, <2>1, Around
  <2>3. ~Nested(s) => Parent(s) \notin Scopes   BY <1>a, ScopesAssumption DEF Tree
  <2>4. \A t \in Scopes : undo'[t] # {} => t # s /\ (undo[t] # {} \/ (Nested(s) /\ t = Parent(s)))
    BY Zenon, <1>16, <2>3 DEF Committed
  <2>5. undo'[s] = {}   BY Zenon, <1>16 DEF Committed
  <2>6. pc' = [pc EXCEPT ![s] = "ended"] /\ outcome' = [outcome EXCEPT ![s] = "ok"]
        /\ UNCHANGED <<kind, deferred, stmt, stray, aborted>>
    BY Zenon, <1>16 DEF Committed, Finish
  <2>7. ASSUME NEW t \in Scopes PROVE RecordFits(t)'
    <3>1. RecordFits(t)   BY Zenon, <1>a DEF Records
    <3>2. CASE t = s
      BY <2>1, <2>5, <2>6, <3>1, <3>2, <1>a, <1>b, <1>c, <1>0 DEF RecordFits
    <3>3. CASE t # s
      BY <2>2, <2>4, <2>6, <3>1, <3>3, <1>a, <1>b, <1>c, <1>0 DEF RecordFits
    <3>4. QED  BY <3>2, <3>3
  <2>8. QED  BY Zenon, <2>7 DEF Records
<1>17. CASE CommitFails(s)
  BY SMTT(60), <1>17, <1>a, <1>b, <1>c, <1>0 DEF CommitFails, Finish, Records, RecordFits, connection, record
<1>18. CASE RolledBack(s)
  BY <1>18, <1>a, <1>b, <1>c, <1>0 DEF RolledBack, Finish, Records, RecordFits, connection, record
<1>19. CASE DropRecord(s)
  <2>1. pc[s] \in {"starting", "open", "ending", "ended"} /\ Busy(s)
    BY Zenon, <1>19, <1>a, DropRecordIs DEF DropRecord, Busy
  <2>2. Nested(s) => /\ Parent(s) \in Scopes /\ Parent(s) # s
                     /\ pc[Parent(s)] = "open" /\ stmt[Parent(s)] = "none"
                     /\ \A t \in Scopes : t # s /\ Busy(t) => ~Nested(t) \/ Parent(t) # Parent(s)
    BY Zenon, <2>1, Around
  <2>3. ~Nested(s) => Parent(s) \notin Scopes   BY <1>a, ScopesAssumption DEF Tree
  <2>4. aborted' = aborted \/ aborted' = Aborted(aborted, Parent(s), aborted[s])   BY <1>19, DropRecordIs DEF HandedOn
  <2>5. \A t \in Scopes :
          aborted'[t] = aborted[t] \/ (Nested(s) /\ t = Parent(s) /\ aborted'[t] \notin {"Cancelled", "Leaked"})
    <3>1. CASE aborted' = aborted   BY <3>1
    <3>2. CASE aborted' = Aborted(aborted, Parent(s), aborted[s])
      <4>1. \A t \in Scopes : Aborted(aborted, Parent(s), aborted[s])[t] =
                               IF t = Parent(s) /\ aborted[t] = "none" THEN aborted[s] ELSE aborted[t]
        BY <1>c, AbortedIs
      <4>2. aborted[s] \notin {"Cancelled", "Leaked"}   BY Zenon, <1>a DEF Records, RecordFits, connection, record
      <4>3. QED  BY <2>3, <3>2, <4>1, <4>2
    <3>3. QED  BY <2>4, <3>1, <3>2
  <2>6. (undo[s] # {} => pc[s] # "starting") /\ (pc[s] = "ended" => outcome[s] # "none")   BY <1>a DEF Records, RecordFits, connection, record
  <2>7. Departs(s)   BY <1>19, <2>1, <2>6, <1>a, <1>c, DropRecordIs DEF Departs
  <2>8. QED  BY Zenon, <2>1, <2>5, <2>7, <1>a, <1>0, DepartureKeepsRecords
<1>20. CASE Cancel(s)
  <2>1. pc[s] \in {"starting", "open", "ending", "ended"} /\ Busy(s)
    BY Zenon, <1>20, <1>a, CancelIs DEF Cancel, Busy
  <2>2. Nested(s) => /\ Parent(s) \in Scopes /\ Parent(s) # s
                     /\ pc[Parent(s)] = "open" /\ stmt[Parent(s)] = "none"
                     /\ \A t \in Scopes : t # s /\ Busy(t) => ~Nested(t) \/ Parent(t) # Parent(s)
    BY Zenon, <2>1, Around
  <2>3. ~Nested(s) => Parent(s) \notin Scopes   BY <1>a, ScopesAssumption DEF Tree
  <2>4. aborted' = aborted \/ aborted' = Aborted(aborted, Parent(s), aborted[s])   BY <1>20, CancelIs DEF HandedOn
  <2>5. \A t \in Scopes :
          aborted'[t] = aborted[t] \/ (Nested(s) /\ t = Parent(s) /\ aborted'[t] \notin {"Cancelled", "Leaked"})
    <3>1. CASE aborted' = aborted   BY <3>1
    <3>2. CASE aborted' = Aborted(aborted, Parent(s), aborted[s])
      <4>1. \A t \in Scopes : Aborted(aborted, Parent(s), aborted[s])[t] =
                               IF t = Parent(s) /\ aborted[t] = "none" THEN aborted[s] ELSE aborted[t]
        BY <1>c, AbortedIs
      <4>2. aborted[s] \notin {"Cancelled", "Leaked"}   BY <1>a DEF Records, RecordFits, connection, record
      <4>3. QED  BY <2>3, <3>2, <4>1, <4>2
    <3>3. QED  BY <2>4, <3>1, <3>2
  <2>6. (undo[s] # {} => pc[s] # "starting") /\ (pc[s] = "ended" => outcome[s] # "none")   BY <1>a DEF Records, RecordFits, connection, record
  <2>7. Departs(s)   BY <1>20, <2>1, <2>6, <1>a, <1>c, CancelIs DEF Departs
  <2>8. QED  BY <2>1, <2>5, <2>7, <1>a, <1>0, DepartureKeepsRecords
<1>21. CASE CancelEnding(s)
  <2>1. pc[s] \in {"starting", "open", "ending", "ended"} /\ Busy(s)
    BY <1>21, <1>a, CancelEndingIs DEF CancelEnding, Busy
  <2>2. Nested(s) => /\ Parent(s) \in Scopes /\ Parent(s) # s
                     /\ pc[Parent(s)] = "open" /\ stmt[Parent(s)] = "none"
                     /\ \A t \in Scopes : t # s /\ Busy(t) => ~Nested(t) \/ Parent(t) # Parent(s)
    BY <2>1, Around
  <2>3. ~Nested(s) => Parent(s) \notin Scopes   BY <1>a, ScopesAssumption DEF Tree
  <2>4. aborted' = aborted \/ aborted' = Aborted(aborted, Parent(s), "Savepoint")   BY <1>21, CancelEndingIs DEF HandedOn
  <2>5. \A t \in Scopes :
          aborted'[t] = aborted[t] \/ (Nested(s) /\ t = Parent(s) /\ aborted'[t] \notin {"Cancelled", "Leaked"})
    <3>1. CASE aborted' = aborted   BY <3>1
    <3>2. CASE aborted' = Aborted(aborted, Parent(s), "Savepoint")
      <4>1. \A t \in Scopes : Aborted(aborted, Parent(s), "Savepoint")[t] =
                               IF t = Parent(s) /\ aborted[t] = "none" THEN "Savepoint" ELSE aborted[t]
        BY <1>c, AbortedIs
      <4>2. "Savepoint" \notin {"Cancelled", "Leaked"}   BY <1>a DEF Records, RecordFits, connection, record
      <4>3. QED  BY <2>3, <3>2, <4>1, <4>2
    <3>3. QED  BY <2>4, <3>1, <3>2
  <2>6. (undo[s] # {} => pc[s] # "starting") /\ (pc[s] = "ended" => outcome[s] # "none")   BY <1>a DEF Records, RecordFits, connection, record
  <2>7. Departs(s)   BY <1>21, <2>1, <2>6, <1>a, <1>c, CancelEndingIs DEF Departs
  <2>8. QED  BY <2>1, <2>5, <2>7, <1>a, <1>0, DepartureKeepsRecords
<1>22. QED  BY <1>1, <1>2, <1>3, <1>4, <1>5, <1>6, <1>7, <1>8, <1>9, <1>10, <1>11, <1>12, <1>13, <1>14, <1>15, <1>16, <1>17, <1>18, <1>19, <1>20, <1>21 DEF Works

\* A scope's last write is one of its writes.
LEMMA LastWriteIs == ASSUME TypeOK, NEW s \in Scopes PROVE LastWrite(s) \in Scopes \X Nat
  BY ScopesAssumption DEF TypeOK, LastWrite

\* A write keeps the server's types.
LEMMA WriteTyped ==
    ASSUME stack \in Seq(Levels), depth \in Nat, durable \subseteq Scopes \X Nat,
           NEW w \in Scopes \X Nat, WriteServer(w)
    PROVE  depth' \in Nat /\ stack' \in Seq(Levels) /\ durable' \subseteq Scopes \X Nat
<1>1. CASE stack = <<>>   BY <1>1 DEF WriteServer
<1>2. CASE stack # <<>>   BY <1>2, WriteIs
<1>3. QED  BY <1>1, <1>2

\* SAVEPOINT keeps the server's types.
LEMMA SavepointTyped ==
    ASSUME stack \in Seq(Levels), depth \in Nat, NEW s \in Scopes, SavepointServer(s)
    PROVE  depth' \in Nat /\ stack' \in Seq(Levels) /\ durable' = durable
<1>1. Level(s) \in Levels   BY DEF Level, Levels
<1>2. QED  BY <1>1, AppendProperties DEF SavepointServer

\* COMMIT keeps the server's types.
LEMMA CommitTyped ==
    ASSUME stack \in Seq(Levels), durable \subseteq Scopes \X Nat, CommitServer
    PROVE  depth' \in Nat /\ stack' \in Seq(Levels) /\ durable' \subseteq Scopes \X Nat
<1>1. \A i \in 1..Len(stack) : stack[i].writes \subseteq Scopes \X Nat
  <2>1. \A i \in 1..Len(stack) : stack[i] \in Levels   BY ElementOfSeq
  <2>2. QED  BY <2>1 DEF Levels
<1>2. depth' = 0 /\ stack' = <<>>   BY CommitIs
<1>3. durable' \subseteq durable \cup UNION {stack[i].writes : i \in 1..Len(stack)}   BY CommitIs
<1>4. QED  BY <1>1, <1>2, <1>3, EmptySeq

\* The connection stays well typed...
LEMMA ServerTyped ==
    ASSUME InOrder, setting' = setting, NEW s \in Scopes, Works(s)
    PROVE  depth' \in Nat /\ stack' \in Seq(Levels) /\ durable' \subseteq Scopes \X Nat
<1>a. /\ InOrder /\ Tree /\ TypeOK   BY InTree DEF InOrder
<1>b. stack \in Seq(Levels) /\ depth \in Nat /\ durable \subseteq Scopes \X Nat   BY <1>a DEF TypeOK
<1>1. CASE Begin(s)
  BY <1>1, <1>b DEF Begin, connection
<1>2. CASE Call(s)
  BY <1>2, <1>b DEF Call, connection
<1>3. CASE TakeSlot(s)
  BY <1>3, <1>b DEF TakeSlot, connection
<1>4. CASE BeginSavepoint(s)
  BY <1>4, <1>b DEF BeginSavepoint, connection
<1>5. CASE LeaveQueue(s)
  BY <1>5, <1>b DEF LeaveQueue, connection
<1>6. CASE Begun(s)
  <2>1. CASE Nested(s)   BY <1>6, <1>b, <2>1, SavepointTyped DEF Begun
  <2>2. CASE ~Nested(s)   BY <1>6, <1>b, <2>2, BeginIs DEF Begun
  <2>3. QED  BY <2>1, <2>2
<1>7. CASE \E o \in {"err", "cancelled"} : BeginFails(s, o)
  <2>1. RollbackServer(1) \/ UNCHANGED connection   BY <1>7 DEF BeginFails
  <2>2. QED  BY <2>1, <1>b, RollbackIs DEF connection
<1>8. CASE Statement(s)
  BY <1>8, <1>b DEF Statement, connection
<1>9. CASE Succeeds(s)
  BY <1>9, <1>a, <1>b, LastWriteIs, WriteTyped DEF Succeeds
<1>10. CASE Fails(s)
  BY <1>10, <1>b, FailIs DEF Fails
<1>11. CASE LosesTransaction(s)
  BY Zenon, <1>11, <1>b, FailIs, EmptySeq DEF LosesTransaction, LoseServer
<1>12. CASE DropStatement(s)
  <2>1. WriteServer(LastWrite(s)) \/ UNCHANGED connection   BY <1>12 DEF DropStatement
  <2>2. QED  BY <2>1, <1>a, <1>b, LastWriteIs, WriteTyped DEF connection
<1>13. CASE SqliteCheck(s)
  <2>1. UNCHANGED stack \/ Rebuilt(s, Len(Path[s]))   BY <1>13 DEF SqliteCheck
  <2>2. Lev(s) \in 1..Lev(s)   BY <1>a DEF Tree
  <2>3. stack' \in Seq(Levels)   BY <2>1, <2>2, <1>a, <1>b, RebuiltIs DEF Lev
  <2>4. QED  BY <1>13, <2>3, <1>b DEF SqliteCheck
<1>14. CASE DropCheck(s)
  <2>1. UNCHANGED stack \/ \E n \in 1..Lev(s) : Rebuilt(s, n)   BY <1>14 DEF DropCheck, Lev
  <2>2. stack' \in Seq(Levels)   BY <2>1, <1>a, <1>b, RebuiltIs
  <2>3. QED  BY <1>14, <2>2, <1>b DEF DropCheck
<1>15. CASE \E ok \in BOOLEAN : End(s, ok)
  BY <1>15, <1>a, <1>b, EndIs DEF connection
<1>16. CASE Committed(s)
  <2>1. CASE depth > 1   BY <1>16, <2>1, <1>b, ReleaseIs DEF Committed
  <2>2. CASE ~(depth > 1)   BY <1>16, <2>2, <1>b, CommitTyped DEF Committed
  <2>3. QED  BY <2>1, <2>2
<1>17. CASE CommitFails(s)
  <2>1. (\E n \in {1, 2} : RollbackServer(n)) \/ CommitServer   BY <1>17 DEF CommitFails
  <2>2. ASSUME NEW n \in {1, 2}, RollbackServer(n) PROVE depth' \in Nat /\ stack' \in Seq(Levels) /\ durable' = durable
    BY <2>2, <1>b, RollbackIs
  <2>3. QED  BY <2>1, <2>2, <1>b, CommitTyped
<1>18. CASE RolledBack(s)
  <2>1. (\E n \in {1, 2} : RollbackServer(n)) \/ CommitServer   BY <1>18 DEF RolledBack
  <2>2. ASSUME NEW n \in {1, 2}, RollbackServer(n) PROVE depth' \in Nat /\ stack' \in Seq(Levels) /\ durable' = durable
    BY <2>2, <1>b, RollbackIs
  <2>3. QED  BY <2>1, <2>2, <1>b, CommitTyped
<1>19. CASE DropRecord(s)
  BY <1>19, <1>a, <1>b, DropRecordIs DEF connection
<1>20. CASE Cancel(s)
  <2>1. (\E n \in {1, 2} : RollbackServer(n)) \/ CommitServer   BY Zenon, <1>20, <1>a, CancelIs DEF Cancel
  <2>2. ASSUME NEW n \in {1, 2}, RollbackServer(n) PROVE depth' \in Nat /\ stack' \in Seq(Levels) /\ durable' = durable
    BY <2>2, <1>b, RollbackIs
  <2>3. QED  BY <2>1, <2>2, <1>b, CommitTyped
<1>21. CASE CancelEnding(s)
  <2>1. (\E n \in {1, 2} : RollbackServer(n)) \/ CommitServer   BY <1>21, <1>a, CancelEndingIs DEF CancelEnding
  <2>2. ASSUME NEW n \in {1, 2}, RollbackServer(n) PROVE depth' \in Nat /\ stack' \in Seq(Levels) /\ durable' = durable
    BY <2>2, <1>b, RollbackIs
  <2>3. QED  BY <2>1, <2>2, <1>b, CommitTyped
<1>22. QED  BY <1>1, <1>2, <1>3, <1>4, <1>5, <1>6, <1>7, <1>8, <1>9, <1>10, <1>11, <1>12, <1>13, <1>14, <1>15, <1>16, <1>17, <1>18, <1>19, <1>20, <1>21 DEF Works

\* Marking a record as aborted keeps its type.
LEMMA AbortedTyped ==
    ASSUME aborted \in [Scopes -> Reasons], NEW p, NEW why \in Reasons
    PROVE  Aborted(aborted, p, why) \in [Scopes -> Reasons]
  BY DEF Aborted

\* ... and so do the records.
LEMMA TypeStep ==
    ASSUME InOrder, setting' = setting, NEW s \in Scopes, Works(s)
    PROVE  TypeOK'
<1>a. /\ InOrder /\ Tree /\ TypeOK   BY InTree DEF InOrder
<1>c. depth' \in Nat /\ stack' \in Seq(Levels) /\ durable' \subseteq Scopes \X Nat /\ backend' = backend
  BY ServerTyped, BackendStays
<1>d. aborted \in [Scopes -> Reasons] /\ MaxStatements \in Nat   BY <1>a, ScopesAssumption DEF TypeOK
<1>e. Parent(s) \in Scopes \/ Parent(s) = NoScope   BY <1>a DEF Tree
<1>1. CASE Begin(s)
  BY SMTT(60), <1>1, <1>a, <1>c, <1>d, <1>e DEF Begin, Noted, Freed, record, connection, TypeOK
<1>2. CASE Call(s)
  BY <1>2, <1>a, <1>c, <1>d, <1>e DEF Call, Noted, Freed, record, connection, TypeOK
<1>3. CASE TakeSlot(s)
  BY Zenon, <1>3, <1>a, <1>c, <1>d, <1>e DEF TakeSlot, Noted, Freed, record, connection, TypeOK
<1>4. CASE BeginSavepoint(s)
  BY Zenon, <1>4, <1>a, <1>c, <1>d, <1>e DEF BeginSavepoint, Noted, Freed, record, connection, TypeOK
<1>5. CASE LeaveQueue(s)
  BY Zenon, <1>5, <1>a, <1>c, <1>d, <1>e DEF LeaveQueue, Noted, Freed, record, connection, TypeOK
<1>6. CASE Begun(s)
  BY Zenon, <1>6, <1>a, <1>c, <1>d, <1>e DEF Begun, Noted, Freed, record, connection, TypeOK
<1>7. CASE \E o \in {"err", "cancelled"} : BeginFails(s, o)
  <2>1. aborted' \in [Scopes -> Reasons]
    <3>1. aborted' = aborted \/ aborted' = Aborted(aborted, Parent(s), "Savepoint")   BY <1>7 DEF BeginFails
    <3>2. ("Savepoint") \in Reasons   BY <1>d DEF Reasons
    <3>3. Aborted(aborted, Parent(s), "Savepoint") \in [Scopes -> Reasons]   BY <1>d, <3>2, AbortedTyped
    <3>4. QED  BY <1>d, <3>1, <3>3
  <2>3. slot' \in [Scopes -> Scopes \cup {NoScope}]   BY ZenonT(60), <1>7, <1>a DEF TypeOK, Freed, BeginFails
  <2>4. /\ pc' \in [Scopes -> {"unused", "waiting", "queued", "starting", "open", "ending", "ended", "over"}]
        /\ outcome' \in [Scopes -> {"none", "ok", "err", "cancelled", "unknown"}]
    <3>1. PICK o \in {"err", "cancelled", "unknown"} : outcome' = [outcome EXCEPT ![s] = o]
      BY Zenon, <1>7, <1>a DEF BeginFails
    <3>2. QED  BY <1>7, <3>1, <1>a DEF TypeOK, BeginFails
  <2>5. UNCHANGED <<kind, statement_failed, deferred, stmt, stray, sent>>   BY <1>7, <1>a DEF BeginFails
  <2>2. UNCHANGED <<undo, memory>>   BY <1>7 DEF BeginFails
  <2>9. QED  BY SMTT(60), <1>a, <1>c, <2>1, <2>3, <2>4, <2>5, <2>2 DEF TypeOK
<1>8. CASE Statement(s)
  <2>1. sent' \in [Scopes -> 0..MaxStatements]
    <3>1. sent \in [Scopes -> 0..MaxStatements] /\ sent[s] < MaxStatements   BY <1>8, <1>a DEF TypeOK, Statement
    <3>2. sent[s] + 1 \in 0..MaxStatements   BY <1>d, <3>1
    <3>3. QED  BY <1>8, <3>1, <3>2 DEF Statement
  <2>9. QED  BY SMTT(60), <1>8, <1>a, <1>c, <2>1 DEF Statement, Noted, Freed, record, connection, TypeOK
<1>9. CASE Succeeds(s)
  <2>1. LastWrite(s) \in Scopes \X Nat   BY <1>a, LastWriteIs
  <2>2. undo' \in [Scopes -> SUBSET (Scopes \X Nat)] /\ memory' \subseteq Scopes \X Nat
    BY SMTT(60), <1>9, <1>a, <2>1 DEF TypeOK, Succeeds
  <2>9. QED  BY Zenon, <1>9, <1>a, <1>c, <2>2 DEF Succeeds, Noted, Freed, record, connection, TypeOK
<1>10. CASE Fails(s)
  <2>1. aborted' \in [Scopes -> Reasons]
    <3>1. aborted' = aborted \/ aborted' = Aborted(aborted, s, "SqliteRollback")   BY <1>10 DEF Fails, Noted
    <3>2. ("SqliteRollback") \in Reasons   BY <1>d DEF Reasons
    <3>3. Aborted(aborted, s, "SqliteRollback") \in [Scopes -> Reasons]   BY <1>d, <3>2, AbortedTyped
    <3>4. QED  BY <1>d, <3>1, <3>3
  <2>9. QED  BY ZenonT(60), <1>10, <1>a, <1>c, <2>1 DEF Fails, Noted, Freed, record, connection, TypeOK
<1>11. CASE LosesTransaction(s)
  <2>1. aborted' \in [Scopes -> Reasons]
    <3>1. aborted' = aborted \/ aborted' = Aborted(aborted, s, IF backend = "Sqlite" THEN "SqliteRollback" ELSE "Deadlock")   BY <1>11 DEF LosesTransaction, Noted
    <3>2. (IF backend = "Sqlite" THEN "SqliteRollback" ELSE "Deadlock") \in Reasons   BY <1>d DEF Reasons
    <3>3. Aborted(aborted, s, IF backend = "Sqlite" THEN "SqliteRollback" ELSE "Deadlock") \in [Scopes -> Reasons]   BY <1>d, <3>2, AbortedTyped
    <3>4. QED  BY <1>d, <3>1, <3>3
  <2>9. QED  BY Zenon, <1>11, <1>a, <1>c, <2>1 DEF LosesTransaction, Noted, Freed, record, connection, TypeOK
<1>12. CASE DropStatement(s)
  BY Zenon, <1>12, <1>a, <1>c, <1>d, <1>e DEF DropStatement, Noted, Freed, record, connection, TypeOK
<1>13. CASE SqliteCheck(s)
  <2>1. aborted' \in [Scopes -> Reasons]
    <3>1. "none" \in Reasons   BY DEF Reasons
    <3>2. QED  BY <1>13, <1>d, <3>1 DEF SqliteCheck
  <2>9. QED  BY Zenon, <1>13, <1>a, <1>c, <2>1 DEF SqliteCheck, Noted, Freed, record, connection, TypeOK
<1>14. CASE DropCheck(s)
  BY Zenon, <1>14, <1>a, <1>c, <1>d, <1>e DEF DropCheck, Noted, Freed, record, connection, TypeOK
<1>15. CASE \E ok \in BOOLEAN : End(s, ok)
  <2>1. PICK ok \in BOOLEAN : End(s, ok)   BY <1>15
  <2>2. /\ pc' = [pc EXCEPT ![s] = "ending"]
        /\ kind' \in [Scopes -> {"none", "commit", "rollback", "leak"}]
        /\ UNCHANGED <<outcome, slot, aborted, statement_failed, undo, deferred, stmt, stray, sent, memory>>
    BY <2>1, <1>a, EndIs
  <2>3. QED  BY Zenon, <2>2, <1>a, <1>c DEF TypeOK
<1>16. CASE Committed(s)
  BY Zenon, <1>16, <1>a, <1>c, <1>d, <1>e DEF Committed, Finish, Noted, Freed, record, connection, TypeOK
<1>17. CASE CommitFails(s)
  BY Zenon, <1>17, <1>a, <1>c, <1>d, <1>e DEF CommitFails, Finish, Noted, Freed, record, connection, TypeOK
<1>18. CASE RolledBack(s)
  BY Zenon, <1>18, <1>a, <1>c, <1>d, <1>e DEF RolledBack, Finish, Noted, Freed, record, connection, TypeOK
<1>19. CASE DropRecord(s)
  <2>1. aborted' \in [Scopes -> Reasons]
    <3>1. aborted' = aborted \/ aborted' = Aborted(aborted, Parent(s), aborted[s])   BY <1>19, <1>a, DropRecordIs DEF HandedOn
    <3>2. (aborted[s]) \in Reasons   BY <1>d DEF Reasons
    <3>3. Aborted(aborted, Parent(s), aborted[s]) \in [Scopes -> Reasons]   BY <1>d, <3>2, AbortedTyped
    <3>4. QED  BY <1>d, <3>1, <3>3
  <2>2. undo' \in [Scopes -> SUBSET (Scopes \X Nat)] /\ memory' \subseteq Scopes \X Nat
    BY ZenonT(60), <1>19, <1>a, DropRecordIs DEF TypeOK
  <2>3. (pc \in [Scopes -> {"unused", "waiting", "queued", "starting", "open", "ending", "ended", "over"}])'
    <3>1. pc' = [pc EXCEPT ![s] = "over"]   BY Zenon, <1>19, <1>a, DropRecordIs
    <3>2. pc \in [Scopes -> {"unused", "waiting", "queued", "starting", "open", "ending", "ended", "over"}]
      BY Zenon, <1>a DEF TypeOK
    <3>3. QED  BY <3>1, <3>2
  <2>4. UNCHANGED <<outcome, kind, slot, statement_failed, deferred, stmt, stray, sent>>
    BY Zenon, <1>19, <1>a, DropRecordIs
  <2>9. QED  BY Zenon, <1>a, <1>c, <2>1, <2>2, <2>3, <2>4 DEF TypeOK
<1>20. CASE Cancel(s)
  <2>1. aborted' \in [Scopes -> Reasons]
    <3>1. aborted' = aborted \/ aborted' = Aborted(aborted, Parent(s), aborted[s])   BY <1>20, <1>a, CancelIs DEF HandedOn
    <3>2. (aborted[s]) \in Reasons   BY <1>d DEF Reasons
    <3>3. Aborted(aborted, Parent(s), aborted[s]) \in [Scopes -> Reasons]   BY <1>d, <3>2, AbortedTyped
    <3>4. QED  BY <1>d, <3>1, <3>3
  <2>2. undo' \in [Scopes -> SUBSET (Scopes \X Nat)] /\ memory' \subseteq Scopes \X Nat
    BY ZenonT(60), <1>20, <1>a, CancelIs DEF TypeOK
  <2>3. slot' \in [Scopes -> Scopes \cup {NoScope}]   BY <1>20, <1>a, CancelIs DEF TypeOK, Freed
  <2>4. /\ pc' \in [Scopes -> {"unused", "waiting", "queued", "starting", "open", "ending", "ended", "over"}]
        /\ outcome' \in [Scopes -> {"none", "ok", "err", "cancelled", "unknown"}]
    <3>1. PICK o \in {"err", "cancelled", "unknown"} : outcome' = [outcome EXCEPT ![s] = o]
      BY Zenon, <1>20, <1>a, CancelIs DEF Cancel
    <3>2. pc' = [pc EXCEPT ![s] = "over"]   BY Zenon, <1>20, <1>a, CancelIs
    <3>3. /\ pc \in [Scopes -> {"unused", "waiting", "queued", "starting", "open", "ending", "ended", "over"}]
          /\ outcome \in [Scopes -> {"none", "ok", "err", "cancelled", "unknown"}]
      BY Zenon, <1>a DEF TypeOK
    <3>4. QED  BY <3>1, <3>2, <3>3
  <2>5. UNCHANGED <<kind, statement_failed, deferred, stmt, stray, sent>>   BY Zenon, <1>20, <1>a, CancelIs DEF Cancel
  <2>9. QED  BY Zenon, <1>a, <1>c, <2>1, <2>2, <2>3, <2>4, <2>5 DEF TypeOK
<1>21. CASE CancelEnding(s)
  <2>1. aborted' \in [Scopes -> Reasons]
    <3>1. aborted' = aborted \/ aborted' = Aborted(aborted, Parent(s), "Savepoint")   BY <1>21, <1>a, CancelEndingIs
    <3>2. ("Savepoint") \in Reasons   BY <1>d DEF Reasons
    <3>3. Aborted(aborted, Parent(s), "Savepoint") \in [Scopes -> Reasons]   BY <1>d, <3>2, AbortedTyped
    <3>4. QED  BY <1>d, <3>1, <3>3
  <2>2. undo' \in [Scopes -> SUBSET (Scopes \X Nat)] /\ memory' \subseteq Scopes \X Nat
    BY ZenonT(60), <1>21, <1>a, CancelEndingIs DEF TypeOK
  <2>3. slot' \in [Scopes -> Scopes \cup {NoScope}]   BY <1>21, <1>a, CancelEndingIs DEF TypeOK, Freed
  <2>4. /\ pc' \in [Scopes -> {"unused", "waiting", "queued", "starting", "open", "ending", "ended", "over"}]
        /\ outcome' \in [Scopes -> {"none", "ok", "err", "cancelled", "unknown"}]
    <3>1. PICK o \in {"err", "cancelled", "unknown"} : outcome' = [outcome EXCEPT ![s] = o]
      BY Zenon, <1>21, <1>a, CancelEndingIs DEF CancelEnding
    <3>2. pc' = [pc EXCEPT ![s] = "over"]   BY Zenon, <1>21, <1>a, CancelEndingIs
    <3>3. /\ pc \in [Scopes -> {"unused", "waiting", "queued", "starting", "open", "ending", "ended", "over"}]
          /\ outcome \in [Scopes -> {"none", "ok", "err", "cancelled", "unknown"}]
      BY Zenon, <1>a DEF TypeOK
    <3>4. QED  BY <3>1, <3>2, <3>3
  <2>5. UNCHANGED <<kind, statement_failed, deferred, stmt, stray, sent>>   BY Zenon, <1>21, <1>a, CancelEndingIs DEF CancelEnding
  <2>9. QED  BY Zenon, <1>a, <1>c, <2>1, <2>2, <2>3, <2>4, <2>5 DEF TypeOK
<1>22. QED  BY <1>1, <1>2, <1>3, <1>4, <1>5, <1>6, <1>7, <1>8, <1>9, <1>10, <1>11, <1>12, <1>13, <1>14, <1>15, <1>16, <1>17, <1>18, <1>19, <1>20, <1>21 DEF Works

\* InOrder holds at the start.
LEMMA InOrderInit ==
    ASSUME \A x \in Settings : OneAtATime(x), Init
    PROVE  InOrder
<1>1. TypeOK
  <2>1. stack \in Seq(Levels)   BY EmptySeq DEF Init, InitConnection
  <2>2. "none" \in Reasons   BY DEF Reasons
  <2>3. QED  BY <2>1, <2>2, ScopesAssumption DEF Init, InitConnection, TypeOK
<1>2. OneAtATime(setting)   BY DEF Init
<1>3. \A s \in Scopes : ~Busy(s)   BY DEF Init, Busy
<1>4. OnePath   BY <1>3 DEF OnePath
<1>5. OneStatement   BY DEF Init, OneStatement
<1>6. Records   BY DEF Init, Records, RecordFits
<1>7. QED  BY <1>1, <1>2, <1>4, <1>5, <1>6 DEF InOrder

\* Every step preserves InOrder.
LEMMA InOrderStep ==
    ASSUME InOrder, [Next]_vars
    PROVE  InOrder'
<1>1. CASE Next
  <2>1. setting' = setting /\ \E s \in Scopes : Works(s)   BY <1>1, NextWorks
  <2>2. PICK s \in Scopes : Works(s)   BY <2>1
  <2>3. OneAtATime(setting)'   BY <2>1 DEF InOrder, OneAtATime
  <2>4. TypeOK'   BY <2>1, <2>2, TypeStep
  <2>5. OnePath'   BY <2>1, <2>2, PathStep
  <2>6. OneStatement'   BY <2>1, <2>2, StatementStep
  <2>7. Records'   BY <2>1, <2>2, RecordsStep
  <2>8. QED  BY <2>3, <2>4, <2>5, <2>6, <2>7 DEF InOrder
<1>2. CASE UNCHANGED vars
  <2>1. /\ UNCHANGED <<setting, pc, outcome, kind, slot, stmt, stray, sent, memory>>
        /\ UNCHANGED <<backend, depth, stack, durable>> /\ UNCHANGED <<aborted, statement_failed, undo, deferred>>
    BY Zenon, <1>2 DEF vars, connection, record
  <2>2. \A s : (Lev(s))' = Lev(s) /\ (Nested(s))' = Nested(s) /\ (Parent(s))' = Parent(s) /\ (Busy(s))' = Busy(s)
    BY Zenon, <2>1 DEF Lev, Path, Nested, Parent, Busy
  <2>3. TypeOK' /\ OneAtATime(setting)'   BY Zenon, <2>1 DEF InOrder, TypeOK, OneAtATime
  <2>4. OnePath' /\ OneStatement'   BY Zenon, <2>1, <2>2 DEF InOrder, OnePath, OneStatement, Path
  <2>5. Records'   BY Zenon, <2>1, <2>2 DEF InOrder, Records, RecordFits
  <2>6. QED  BY Zenon, <2>3, <2>4, <2>5 DEF InOrder
<1>3. QED  BY <1>1, <1>2
================================================================================
