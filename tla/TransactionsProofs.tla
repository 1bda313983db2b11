-------------------------- MODULE TransactionsProofs --------------------------
(***************************************************************************)
(* What Transactions promises, for every nesting and number of scopes and  *)
(* statements, where scopes run one after the other and no handle outlives *)
(* its closure; futures may be dropped at every await.                     *)
(*                                                                         *)
(* The argument: TransactionsStack shows that the server's stack mirrors   *)
(* the path of the innermost scope.  So every write, wherever it is, has   *)
(* been committed by the scopes it has left (Accounted), and the driver    *)
(* counts the levels there are (Counted).                                  *)
(***************************************************************************)
EXTENDS TransactionsStack

-------------------------------------------------------------------------------
(* The inductive invariant                                                 *)

\* Whether the scopes that enclose w below level i have committed.
CommittedBelow(w, i) == \A j \in (i + 1)..Lev(w[1]) : outcome[Path[w[1]][j]] = "ok"

\* Where a write is, on the server and in memory, its scopes have committed so far.
StackAccounted ==
    \A i \in 1..Len(stack) : \A w \in stack[i].writes :
        i <= Lev(w[1]) /\ Path[w[1]][i] = stack[i].scope /\ CommittedBelow(w, i)
DurableAccounted ==
    \A w \in durable : CommittedBelow(w, 1) /\ outcome[Path[w[1]][1]] \in {"ok", "unknown"}
UndoAccounted ==
    \A h \in Scopes : \A w \in undo[h] :
        Lev(h) <= Lev(w[1]) /\ Path[w[1]][Lev(h)] = h /\ CommittedBelow(w, Lev(h))
MemoryAccounted ==
    \A w \in memory : (\E h \in Scopes : w \in undo[h]) \/ (w \in durable /\ CommittedBelow(w, 0))
Accounted == StackAccounted /\ DurableAccounted /\ UndoAccounted /\ MemoryAccounted

\* The driver counts no more transactions than scopes are open, the server has no more.
Counted ==
    /\ Len(stack) <= depth
    /\ depth > 0 => \E s \in Scopes : On(s) /\ depth <= Lev(s)
    /\ backend = "Sqlite" => Len(stack) = depth \/ \E s \in Scopes : stmt[s] = "checking" /\ stack = <<>>
    /\ backend = "Sqlite" => ~setting.cancel

-------------------------------------------------------------------------------
(* Accounted is inductive                                                  *)

\* Outcomes are final.
OutcomesStay == \A t \in Scopes : outcome[t] # "none" => outcome'[t] = outcome[t]

\* No step changes an outcome.
LEMMA OutcomesStep ==
    ASSUME InOrder, setting' = setting, NEW s \in Scopes, Works(s)
    PROVE  OutcomesStay
<1>a. /\ Records /\ pc \in [Scopes -> {"unused", "waiting", "queued", "starting", "open", "ending", "ended", "over"}]
      /\ outcome \in [Scopes -> {"none", "ok", "err", "cancelled", "unknown"}]
  BY DEF InOrder, TypeOK
<1>b. pc[s] \notin {"ended", "over"} => outcome[s] = "none"   BY <1>a DEF Records, RecordFits
<1>1. CASE Begin(s)
  <2>1. outcome' = outcome   BY <1>1 DEF Begin, Noted
  <2>2. QED  BY <2>1 DEF OutcomesStay
<1>2. CASE Call(s)
  <2>1. outcome' = outcome   BY <1>2 DEF Call, Noted
  <2>2. QED  BY <2>1 DEF OutcomesStay
<1>3. CASE TakeSlot(s)
  <2>1. outcome' = outcome   BY <1>3 DEF TakeSlot, Noted
  <2>2. QED  BY <2>1 DEF OutcomesStay
<1>4. CASE BeginSavepoint(s)
  <2>1. pc[s] \notin {"ended", "over"} /\ \A t \in Scopes : t # s => outcome'[t] = outcome[t]
    BY <1>4, <1>a DEF BeginSavepoint, Finish
  <2>2. QED  BY <1>b, <2>1 DEF OutcomesStay
<1>5. CASE LeaveQueue(s)
  <2>1. pc[s] \notin {"ended", "over"} /\ \A t \in Scopes : t # s => outcome'[t] = outcome[t]
    BY <1>5, <1>a DEF LeaveQueue, Finish
  <2>2. QED  BY <1>b, <2>1 DEF OutcomesStay
<1>6. CASE Begun(s)
  <2>1. outcome' = outcome   BY <1>6 DEF Begun, Noted
  <2>2. QED  BY <2>1 DEF OutcomesStay
<1>7. CASE \E o \in {"err", "cancelled"} : BeginFails(s, o)
  <2>1. pc[s] \notin {"ended", "over"} /\ \A t \in Scopes : t # s => outcome'[t] = outcome[t]
    BY <1>7, <1>a DEF BeginFails, Finish
  <2>2. QED  BY <1>b, <2>1 DEF OutcomesStay
<1>8. CASE Statement(s)
  <2>1. outcome' = outcome   BY <1>8 DEF Statement, Noted
  <2>2. QED  BY <2>1 DEF OutcomesStay
<1>9. CASE Succeeds(s)
  <2>1. outcome' = outcome   BY <1>9 DEF Succeeds, Noted
  <2>2. QED  BY <2>1 DEF OutcomesStay
<1>10. CASE Fails(s)
  <2>1. outcome' = outcome   BY <1>10 DEF Fails, Noted
  <2>2. QED  BY <2>1 DEF OutcomesStay
<1>11. CASE LosesTransaction(s)
  <2>1. outcome' = outcome   BY <1>11 DEF LosesTransaction, Noted
  <2>2. QED  BY <2>1 DEF OutcomesStay
<1>12. CASE DropStatement(s)
  <2>1. outcome' = outcome   BY <1>12 DEF DropStatement, Noted
  <2>2. QED  BY <2>1 DEF OutcomesStay
<1>13. CASE SqliteCheck(s)
  <2>1. outcome' = outcome   BY <1>13 DEF SqliteCheck, Noted
  <2>2. QED  BY <2>1 DEF OutcomesStay
<1>14. CASE DropCheck(s)
  <2>1. outcome' = outcome   BY <1>14 DEF DropCheck, Noted
  <2>2. QED  BY <2>1 DEF OutcomesStay
<1>15. CASE \E ok \in BOOLEAN : End(s, ok)
  <2>1. outcome' = outcome   BY <1>15 DEF End
  <2>2. QED  BY <2>1 DEF OutcomesStay
<1>16. CASE Committed(s)
  <2>1. pc[s] \notin {"ended", "over"} /\ \A t \in Scopes : t # s => outcome'[t] = outcome[t]
    BY <1>16, <1>a DEF Committed, Finish
  <2>2. QED  BY <1>b, <2>1 DEF OutcomesStay
<1>17. CASE CommitFails(s)
  <2>1. pc[s] \notin {"ended", "over"} /\ \A t \in Scopes : t # s => outcome'[t] = outcome[t]
    BY <1>17, <1>a DEF CommitFails, Finish
  <2>2. QED  BY <1>b, <2>1 DEF OutcomesStay
<1>18. CASE RolledBack(s)
  <2>1. pc[s] \notin {"ended", "over"} /\ \A t \in Scopes : t # s => outcome'[t] = outcome[t]
    BY <1>18, <1>a DEF RolledBack, Finish
  <2>2. QED  BY <1>b, <2>1 DEF OutcomesStay
<1>19. CASE DropRecord(s)
  <2>1. outcome' = outcome   BY <1>19 DEF DropRecord, Noted
  <2>2. QED  BY <2>1 DEF OutcomesStay
<1>20. CASE Cancel(s)
  <2>1. pc[s] \notin {"ended", "over"} /\ \A t \in Scopes : t # s => outcome'[t] = outcome[t]
    BY <1>20, <1>a, CancelIs DEF Cancel, Finish
  <2>2. QED  BY <1>b, <2>1 DEF OutcomesStay
<1>21. CASE CancelEnding(s)
  <2>1. pc[s] \notin {"ended", "over"} /\ \A t \in Scopes : t # s => outcome'[t] = outcome[t]
    BY <1>21, <1>a, CancelEndingIs DEF CancelEnding, Finish
  <2>2. QED  BY <1>b, <2>1 DEF OutcomesStay
<1>22. QED  BY <1>1, <1>2, <1>3, <1>4, <1>5, <1>6, <1>7, <1>8, <1>9, <1>10, <1>11, <1>12, <1>13, <1>14, <1>15, <1>16, <1>17, <1>18, <1>19, <1>20, <1>21 DEF Works

\* What was committed up to a level stays so while no outcome changes.
LEMMA StillCommitted ==
    ASSUME Tree, setting' = setting, OutcomesStay, NEW w \in Scopes \X Nat, NEW i \in Nat, CommittedBelow(w, i)
    PROVE  (CommittedBelow(w, i))'
<1>1. Path' = Path /\ \A t : (Lev(t))' = Lev(t)   BY SamePath
<1>2. w[1] \in Scopes   OBVIOUS
<1>3. ASSUME NEW j \in (i + 1)..Lev(w[1]) PROVE outcome'[Path[w[1]][j]] = "ok"
  <2>1. j \in 1..Lev(w[1])   BY <1>2 DEF Tree
  <2>2. Path[w[1]][j] \in Scopes   BY <1>2, <2>1 DEF Tree
  <2>3. outcome[Path[w[1]][j]] = "ok"   BY DEF CommittedBelow
  <2>4. QED  BY <2>2, <2>3 DEF OutcomesStay
<1>4. QED  BY <1>1, <1>3 DEF CommittedBelow

\* The write of a committed scope belongs to the scope around it.
LEMMA HandedUp ==
    ASSUME Tree, setting' = setting, OutcomesStay, NEW w \in Scopes \X Nat,
           NEW s \in Scopes, outcome'[s] = "ok",
           Lev(s) <= Lev(w[1]), Path[w[1]][Lev(s)] = s, CommittedBelow(w, Lev(s))
    PROVE  /\ \A j \in 1..Lev(s) : Path[w[1]][j] = Path[s][j]
           /\ (CommittedBelow(w, Lev(s) - 1))'
<1>1. Path' = Path /\ \A t : (Lev(t))' = Lev(t)   BY SamePath
<1>2. w[1] \in Scopes /\ Lev(s) \in Nat /\ Lev(s) >= 1 /\ Lev(w[1]) \in Nat   BY DEF Tree
<1>3. Lev(s) \in 1..Lev(w[1])   BY <1>2
<1>4. \A j \in 1..Lev(s) : Path[w[1]][j] = Path[s][j]   BY <1>2, <1>3 DEF Tree
<1>5. (CommittedBelow(w, Lev(s)))'
  <2>1. PICK n : n = Lev(s)   OBVIOUS
  <2>2. (CommittedBelow(w, n))'   BY <1>2, <2>1, StillCommitted
  <2>3. QED  BY <1>1, <2>1, <2>2 DEF CommittedBelow
<1>6. \A j \in (Lev(s) + 1)..Lev(w[1]) : outcome'[Path[w[1]][j]] = "ok"   BY <1>1, <1>5 DEF CommittedBelow
<1>7. ASSUME NEW j \in Lev(s)..Lev(w[1]) PROVE outcome'[Path[w[1]][j]] = "ok"
  <2>1. CASE j = Lev(s)   BY <2>1
  <2>2. CASE j # Lev(s)
    <3>1. j \in (Lev(s) + 1)..Lev(w[1])   BY <1>2, <2>2
    <3>2. QED  BY <1>6, <3>1
  <2>3. QED  BY <2>1, <2>2
<1>8. (Lev(s) - 1) + 1 = Lev(s)   BY <1>2
<1>9. QED  BY <1>1, <1>4, <1>7, <1>8 DEF CommittedBelow

\* A step that adds no write to the server, and in memory drops at most the
\* writes of a record with that record's undo, keeps the accounts.
Lighter ==
    \A i \in 1..Len(stack') :
        \/ stack'[i].writes = {}
        \/ i <= Len(stack) /\ stack'[i].scope = stack[i].scope /\ stack'[i].writes \subseteq stack[i].writes

SameRecords(s) ==
    \/ undo' = undo /\ memory' = memory
    \/ undo' = [undo EXCEPT ![s] = {}] /\ memory' = memory \ undo[s]

\* Levels that only lose writes stay accounted for.
LEMMA StackLighter ==
    ASSUME InOrder, StackAccounted, setting' = setting, OutcomesStay, stack' \in Seq(Levels), Lighter
    PROVE  StackAccounted'
<1>a. Tree /\ stack \in Seq(Levels)   BY SMTT(60), InTree DEF InOrder, TypeOK
<1>b. Path' = Path /\ \A t : (Lev(t))' = Lev(t)   BY SamePath
<1>1. SUFFICES ASSUME NEW i \in 1..Len(stack'), NEW w \in stack'[i].writes
               PROVE  i <= Lev(w[1]) /\ Path[w[1]][i] = stack'[i].scope /\ (CommittedBelow(w, i))'
  BY <1>b DEF StackAccounted
<1>2. i \in 1..Len(stack) /\ stack'[i].scope = stack[i].scope /\ w \in stack[i].writes   BY <1>1, <1>a DEF Lighter
<1>c. stack[i] \in Levels   BY <1>a, <1>2
<1>3. w \in Scopes \X Nat /\ i \in Nat   BY <1>c, <1>2 DEF Levels
<1>4. i <= Lev(w[1]) /\ Path[w[1]][i] = stack[i].scope /\ CommittedBelow(w, i)   BY <1>2 DEF StackAccounted
<1>5. QED  BY <1>a, <1>2, <1>3, <1>4, StillCommitted

\* A durable write stays accounted for while no outcome changes.
LEMMA DurableStays ==
    ASSUME InOrder, DurableAccounted, setting' = setting, OutcomesStay, NEW w \in durable
    PROVE  (CommittedBelow(w, 1))' /\ outcome'[Path'[w[1]][1]] \in {"ok", "unknown"}
<1>a. Tree /\ durable \subseteq Scopes \X Nat   BY SMTT(60), InTree DEF InOrder, TypeOK
<1>b. Path' = Path   BY SamePath
<1>1. w \in Scopes \X Nat /\ w[1] \in Scopes /\ 1 \in Nat   BY <1>a
<1>2. Path[w[1]][1] \in Scopes   BY <1>a, <1>1 DEF Tree
<1>3. CommittedBelow(w, 1) /\ outcome[Path[w[1]][1]] \in {"ok", "unknown"}   BY DEF DurableAccounted
<1>4. (CommittedBelow(w, 1))'   BY <1>a, <1>1, <1>3, StillCommitted
<1>5. outcome'[Path[w[1]][1]] = outcome[Path[w[1]][1]]   BY <1>2, <1>3 DEF OutcomesStay
<1>6. QED  BY <1>b, <1>3, <1>4, <1>5

\* An undo step stays accounted for while no outcome changes.
LEMMA UndoStays ==
    ASSUME InOrder, UndoAccounted, setting' = setting, OutcomesStay, NEW h \in Scopes, NEW w \in undo[h]
    PROVE  (Lev(h) <= Lev(w[1]) /\ Path[w[1]][Lev(h)] = h /\ CommittedBelow(w, Lev(h)))'
<1>a. Tree /\ undo \in [Scopes -> SUBSET (Scopes \X Nat)]   BY Zenon, InTree DEF InOrder, TypeOK
<1>b. Path' = Path /\ \A t : (Lev(t))' = Lev(t)   BY SamePath
<1>1. PICK n : n = Lev(h)   OBVIOUS
<1>2. w \in Scopes \X Nat /\ n \in Nat   BY <1>a, <1>1 DEF Tree
<1>3. n <= Lev(w[1]) /\ Path[w[1]][n] = h /\ CommittedBelow(w, n)   BY <1>1 DEF UndoAccounted
<1>4. (CommittedBelow(w, n))'   BY <1>a, <1>2, <1>3, StillCommitted
<1>5. QED  BY <1>b, <1>1, <1>3, <1>4

\* What stands in memory for good stays accounted for.
LEMMA MemoryStays ==
    ASSUME InOrder, setting' = setting, OutcomesStay, durable \subseteq durable',
           NEW w \in memory, w \in durable, CommittedBelow(w, 0)
    PROVE  (w \in durable /\ CommittedBelow(w, 0))'
<1>a. Tree /\ memory \subseteq Scopes \X Nat   BY SMTT(60), InTree DEF InOrder, TypeOK
<1>1. w \in Scopes \X Nat /\ 0 \in Nat   BY <1>a
<1>2. (CommittedBelow(w, 0))'   BY <1>a, <1>1, StillCommitted
<1>3. QED  BY <1>2

\* Undo steps that stay or are run stay accounted for.
LEMMA RecordsStay ==
    ASSUME InOrder, UndoAccounted, MemoryAccounted, setting' = setting, OutcomesStay,
           NEW s \in Scopes, durable \subseteq durable', SameRecords(s)
    PROVE  UndoAccounted' /\ MemoryAccounted'
<1>a. undo \in [Scopes -> SUBSET (Scopes \X Nat)]   BY DEF InOrder, TypeOK
<1>1. \A h \in Scopes : undo'[h] \subseteq undo[h]   BY <1>a DEF SameRecords
<1>2. UndoAccounted'
  <2>1. SUFFICES ASSUME NEW h \in Scopes, NEW w \in undo'[h]
                 PROVE  (Lev(h) <= Lev(w[1]) /\ Path[w[1]][Lev(h)] = h /\ CommittedBelow(w, Lev(h)))'
    BY DEF UndoAccounted
  <2>2. w \in undo[h]   BY <1>1
  <2>3. QED  BY <2>2, UndoStays
<1>3. MemoryAccounted'
  <2>1. SUFFICES ASSUME NEW w \in memory'
                 PROVE  (\E h \in Scopes : w \in undo'[h]) \/ (w \in durable /\ CommittedBelow(w, 0))'
    BY DEF MemoryAccounted
  <2>2. w \in memory   BY DEF SameRecords
  <2>3. CASE w \in durable /\ CommittedBelow(w, 0)   BY <2>2, <2>3, MemoryStays
  <2>4. CASE \E h \in Scopes : w \in undo[h]   BY <1>a, <2>4 DEF SameRecords
  <2>5. QED  BY <2>2, <2>3, <2>4 DEF MemoryAccounted
<1>4. QED  BY <1>2, <1>3

\* A step that only takes writes away from levels and records leaves all
\* accounts in order.
LEMMA AccountsStay ==
    ASSUME InOrder, InOrder', Accounted, setting' = setting, OutcomesStay, NEW s \in Scopes,
           Lighter, durable' = durable, SameRecords(s)
    PROVE  Accounted'
<1>1. stack' \in Seq(Levels)   BY DEF InOrder, TypeOK
<1>2. StackAccounted'   BY <1>1, StackLighter DEF Accounted
<1>3. DurableAccounted'   BY DurableStays DEF Accounted, DurableAccounted
<1>4. UndoAccounted' /\ MemoryAccounted'   BY RecordsStay DEF Accounted
<1>5. QED  BY <1>2, <1>3, <1>4 DEF Accounted

\* A write of the scope whose path the server holds goes to its level.
LEMMA WriteAccounted ==
    ASSUME InOrder, StackAccounted, setting' = setting, OutcomesStay, stack' \in Seq(Levels),
           NEW s \in Scopes, Mirrors(s), stack # <<>>, WriteServer(LastWrite(s))
    PROVE  StackAccounted' /\ durable' = durable
<1>a. Tree /\ stack \in Seq(Levels) /\ depth \in Nat   BY Zenon, InTree DEF InOrder, TypeOK
<1>b. Path' = Path /\ \A t : (Lev(t))' = Lev(t)   BY SamePath
<1>1. LastWrite(s) \in Scopes \X Nat /\ LastWrite(s)[1] = s
  <2>1. LastWrite(s) \in Scopes \X Nat   BY LastWriteIs DEF InOrder
  <2>2. LastWrite(s)[1] = s   BY DEF LastWrite
  <2>3. QED  BY <2>1, <2>2
<1>2. /\ durable' = durable /\ Len(stack') = Len(stack)
      /\ \A i \in 1..Len(stack) :
            /\ stack'[i].scope = stack[i].scope
            /\ stack'[i].writes = IF i = Len(stack) THEN stack[i].writes \cup {LastWrite(s)} ELSE stack[i].writes
  BY ZenonT(60), <1>a, <1>1, WriteIs
<1>3. SUFFICES ASSUME NEW i \in 1..Len(stack'), NEW w \in stack'[i].writes
               PROVE  i <= Lev(w[1]) /\ Path[w[1]][i] = stack'[i].scope /\ (CommittedBelow(w, i))'
  BY <1>b, <1>2 DEF StackAccounted
<1>4. CASE w \in stack[i].writes
  <2>1. stack[i] \in Levels /\ i \in Nat   BY <1>a, <1>2
  <2>2. w \in Scopes \X Nat   BY <1>4, <2>1 DEF Levels
  <2>3. i <= Lev(w[1]) /\ Path[w[1]][i] = stack[i].scope /\ CommittedBelow(w, i)   BY <1>2, <1>4 DEF StackAccounted
  <2>4. (CommittedBelow(w, i))'   BY <1>a, <2>1, <2>2, <2>3, StillCommitted
  <2>5. QED  BY Zenon, <1>2, <2>3, <2>4
<1>5. CASE w \notin stack[i].writes
  <2>1. w = LastWrite(s) /\ i = Len(stack)   BY Zenon, <1>2, <1>5
  <2>2. w[1] = s /\ i = Lev(s) /\ i \in 1..depth   BY <1>1, <1>2, <2>1 DEF Mirrors
  <2>3. stack'[i].scope = Path[s][i]   BY Zenon, <1>2, <2>2 DEF Mirrors
  <2>4. (CommittedBelow(w, i))'
    <3>1. (i + 1)..Lev(w[1]) = {}   BY <2>2, <1>a
    <3>2. QED  BY <1>b, <3>1 DEF CommittedBelow
  <2>5. QED  BY <1>a, <2>2, <2>3, <2>4
<1>6. QED  BY <1>4, <1>5

\* COMMIT by the outermost scope, known or not to have succeeded.
LEMMA CommitAccounted ==
    ASSUME InOrder, StackAccounted, DurableAccounted, setting' = setting, OutcomesStay,
           NEW s \in Scopes, Mirrors(s), depth = 1, CommitServer, outcome'[s] \in {"ok", "unknown"}
    PROVE  StackAccounted' /\ DurableAccounted'
<1>a. Tree /\ stack \in Seq(Levels) /\ depth \in Nat   BY Zenon, InTree DEF InOrder, TypeOK
<1>b. Path' = Path /\ \A t : (Lev(t))' = Lev(t)   BY SamePath
<1>1. stack' = <<>> /\ durable' \subseteq durable \cup UNION {stack[i].writes : i \in 1..Len(stack)}   BY <1>a, CommitIs
<1>2. StackAccounted'   BY <1>1 DEF StackAccounted
<1>3. Len(stack) = 1 /\ stack[1].scope = Path[s][1] /\ Lev(s) = 1 /\ Path[s][1] = s
  <2>1. depth = Lev(s) /\ Len(stack) = depth /\ \A i \in 1..depth : stack[i].scope = Path[s][i]   BY DEF Mirrors
  <2>2. 1 \in 1..depth   OBVIOUS
  <2>3. Path[s][Lev(s)] = s   BY <1>a DEF Tree
  <2>4. QED  BY <2>1, <2>2, <2>3
<1>4. SUFFICES ASSUME NEW w \in durable'
               PROVE  (CommittedBelow(w, 1))' /\ outcome'[Path'[w[1]][1]] \in {"ok", "unknown"}
  BY <1>2 DEF DurableAccounted
<1>5. CASE w \in durable   BY <1>5, DurableStays
<1>6. CASE w \notin durable
  <2>1. w \in stack[1].writes   BY <1>1, <1>3, <1>6
  <2>2. stack[1] \in Levels /\ 1 \in Nat /\ 1 \in 1..Len(stack)
    <3>1. 1 \in 1..Len(stack)   BY <1>3
    <3>2. QED  BY <1>a, <3>1
  <2>3. w \in Scopes \X Nat   BY <2>1, <2>2 DEF Levels
  <2>4. Path[w[1]][1] = s /\ CommittedBelow(w, 1)   BY <1>3, <2>1, <2>2 DEF StackAccounted
  <2>5. (CommittedBelow(w, 1))'   BY <1>a, <2>2, <2>3, <2>4, StillCommitted
  <2>6. QED  BY <1>b, <2>4, <2>5
<1>7. QED  BY <1>5, <1>6

\* Accounted is kept.
LEMMA AccountedStep ==
    ASSUME InOrder, InOrder', Mirrored, Accounted, setting' = setting, NEW s \in Scopes, Works(s)
    PROVE  Accounted'
<1>a. /\ Tree /\ Records /\ stack \in Seq(Levels) /\ stack' \in Seq(Levels) /\ depth \in Nat
      /\ undo \in [Scopes -> SUBSET (Scopes \X Nat)] /\ memory \subseteq Scopes \X Nat
  BY Zenon, InTree DEF InOrder, TypeOK
<1>b. Path' = Path /\ \A t : (Lev(t))' = Lev(t)   BY SamePath
<1>c. OutcomesStay   BY OutcomesStep
<1>d. UNCHANGED stack => Lighter   BY <1>a DEF Lighter
<1>e. UNCHANGED <<undo, memory>> => SameRecords(s)   BY DEF SameRecords
<1>f. \A n \in Nat : RollbackServer(n) => Lighter /\ durable' = durable   BY <1>a, RollbackIs DEF Lighter
<1>g. FailServer => Lighter /\ durable' = durable   BY <1>a, FailIs DEF Lighter
<1>h. \A c \in Scopes : Level(c).writes = {}   BY DEF Level
<1>1. CASE Begin(s)
  <2>1. Lighter /\ durable' = durable   BY <1>1, <1>d DEF Begin, connection
  <2>2. SameRecords(s)   BY <1>1, <1>e DEF Begin, record
  <2>9. QED  BY <1>c, <2>1, <2>2, AccountsStay
<1>2. CASE Call(s)
  <2>1. Lighter /\ durable' = durable   BY <1>2, <1>d DEF Call, connection
  <2>2. SameRecords(s)   BY <1>2, <1>e DEF Call, record
  <2>9. QED  BY <1>c, <2>1, <2>2, AccountsStay
<1>3. CASE TakeSlot(s)
  <2>1. Lighter /\ durable' = durable   BY <1>3, <1>d DEF TakeSlot, connection
  <2>2. SameRecords(s)   BY <1>3, <1>e DEF TakeSlot, record
  <2>9. QED  BY <1>c, <2>1, <2>2, AccountsStay
<1>4. CASE BeginSavepoint(s)
  <2>1. Lighter /\ durable' = durable   BY <1>4, <1>d DEF BeginSavepoint, connection
  <2>2. SameRecords(s)   BY <1>4, <1>e DEF BeginSavepoint, record
  <2>9. QED  BY <1>c, <2>1, <2>2, AccountsStay
<1>5. CASE LeaveQueue(s)
  <2>1. Lighter /\ durable' = durable   BY <1>5, <1>d DEF LeaveQueue, connection
  <2>2. SameRecords(s)   BY <1>5, <1>e DEF LeaveQueue, record
  <2>9. QED  BY <1>c, <2>1, <2>2, AccountsStay
<1>6. CASE Begun(s)
  <2>1. Lighter /\ durable' = durable
    <3>1. CASE ~Nested(s)
      <4>1. durable' = durable /\ Len(stack') = 1 /\ stack'[1] = Level(s)   BY <1>6, <3>1, BeginIs DEF Begun
      <4>2. QED  BY <1>h, <4>1 DEF Lighter
    <3>2. CASE Nested(s) /\ stack # <<>>
      <4>1. /\ durable' = durable /\ Len(stack') = Len(stack) + 1
            /\ \A i \in 1..Len(stack) : stack'[i] = stack[i]
            /\ stack'[Len(stack) + 1] = Level(s)
        BY <1>6, <1>a, <3>2, SavepointIs DEF Begun
      <4>2. Len(stack) \in Nat   BY <1>a
      <4>3. \A i \in 1..Len(stack') : i \in 1..Len(stack) \/ i = Len(stack) + 1   BY <4>1, <4>2
      <4>4. QED  BY <1>h, <4>1, <4>2, <4>3 DEF Lighter
    <3>3. CASE Nested(s) /\ stack = <<>>
      <4>1. durable' = durable /\ (stack' = stack \/ stack' = Append(stack, Level(s)))
        BY <1>6, <3>3 DEF Begun, SavepointServer
      <4>2. CASE stack' = stack   BY <1>d, <4>1, <4>2
      <4>3. CASE stack' = Append(stack, Level(s))
        <5>1. Len(stack') = 1 /\ stack'[1] = Level(s)   BY <3>3, <4>3
        <5>2. QED  BY <1>h, <4>1, <5>1 DEF Lighter
      <4>4. QED  BY <4>1, <4>2, <4>3
    <3>4. QED  BY <3>1, <3>2, <3>3
  <2>2. SameRecords(s)   BY <1>6, <1>e DEF Begun, record
  <2>9. QED  BY <1>c, <2>1, <2>2, AccountsStay
<1>7. CASE \E o \in {"err", "cancelled"} : BeginFails(s, o)
  <2>1. Lighter /\ durable' = durable
    <3>1. RollbackServer(1) \/ UNCHANGED connection   BY <1>7 DEF BeginFails
    <3>2. QED  BY <1>d, <1>f, <3>1 DEF connection
  <2>2. SameRecords(s)   BY <1>7, <1>e DEF BeginFails
  <2>9. QED  BY <1>c, <2>1, <2>2, AccountsStay
<1>8. CASE Statement(s)
  <2>1. Lighter /\ durable' = durable   BY <1>8, <1>d DEF Statement, connection
  <2>2. SameRecords(s)   BY <1>8, <1>e DEF Statement, record
  <2>9. QED  BY <1>c, <2>1, <2>2, AccountsStay
<1>9. CASE Succeeds(s)
  <2>1. Mirrors(s) /\ stack # <<>>   BY <1>9, MirrorsNow DEF Succeeds
  <2>2. StackAccounted' /\ durable' = durable   BY <1>9, <1>a, <1>c, <2>1, WriteAccounted DEF Accounted, Succeeds
  <2>3. DurableAccounted'   BY <1>c, <2>2, DurableStays DEF Accounted, DurableAccounted
  <2>4. /\ undo'[s] = undo[s] \cup {LastWrite(s)} /\ \A t \in Scopes : t # s => undo'[t] = undo[t]
        /\ memory' = memory \cup {LastWrite(s)}
    BY <1>9, <1>a DEF Succeeds
  <2>5. UndoAccounted'
    <3>1. SUFFICES ASSUME NEW h \in Scopes, NEW w \in undo'[h]
                   PROVE  (Lev(h) <= Lev(w[1]) /\ Path[w[1]][Lev(h)] = h /\ CommittedBelow(w, Lev(h)))'
      BY DEF UndoAccounted
    <3>2. CASE w \in undo[h]   BY <1>c, <3>2, UndoStays DEF Accounted
    <3>3. CASE w \notin undo[h]
      <4>1. h = s /\ w = LastWrite(s)   BY <2>4, <3>3
      <4>2. w[1] = s /\ Lev(s) \in Nat /\ Path[s][Lev(s)] = s   BY <4>1, <1>a DEF LastWrite, Tree
      <4>3. (Lev(s) + 1)..Lev(s) = {}   BY <4>2
      <4>4. QED  BY <1>b, <4>1, <4>2, <4>3 DEF CommittedBelow
    <3>4. QED  BY <3>2, <3>3
  <2>6. MemoryAccounted'
    <3>1. SUFFICES ASSUME NEW w \in memory'
                   PROVE  (\E h \in Scopes : w \in undo'[h]) \/ (w \in durable /\ CommittedBelow(w, 0))'
      BY DEF MemoryAccounted
    <3>2. CASE w = LastWrite(s)   BY <2>4, <3>2
    <3>3. CASE w # LastWrite(s)
      <4>1. w \in memory   BY <2>4, <3>3
      <4>2. CASE w \in durable /\ CommittedBelow(w, 0)   BY <1>c, <2>2, <4>1, <4>2, MemoryStays
      <4>3. CASE \E h \in Scopes : w \in undo[h]   BY <2>4, <4>3
      <4>4. QED  BY <4>1, <4>2, <4>3 DEF Accounted, MemoryAccounted
    <3>4. QED  BY <3>2, <3>3
  <2>7. QED  BY <2>2, <2>3, <2>5, <2>6 DEF Accounted
<1>10. CASE Fails(s)
  <2>1. Lighter /\ durable' = durable
    <3>1. FailServer \/ LoseServer   BY <1>10 DEF Fails
    <3>2. LoseServer => Lighter /\ durable' = durable   BY DEF LoseServer, Lighter
    <3>3. QED  BY <1>g, <3>1, <3>2
  <2>2. SameRecords(s)   BY <1>10, <1>e DEF Fails, Noted
  <2>9. QED  BY <1>c, <2>1, <2>2, AccountsStay
<1>11. CASE LosesTransaction(s)
  <2>1. Lighter /\ durable' = durable
    <3>1. FailServer \/ LoseServer   BY <1>11 DEF LosesTransaction
    <3>2. LoseServer => Lighter /\ durable' = durable   BY DEF LoseServer, Lighter
    <3>3. QED  BY <1>g, <3>1, <3>2
  <2>2. SameRecords(s)   BY <1>11, <1>e DEF LosesTransaction, Noted
  <2>9. QED  BY <1>c, <2>1, <2>2, AccountsStay
<1>12. CASE DropStatement(s)
  <2>1. SameRecords(s)   BY <1>12, <1>e DEF DropStatement, record
  <2>2. CASE UNCHANGED connection
    <3>1. Lighter /\ durable' = durable   BY <1>d, <2>2 DEF connection
    <3>2. QED  BY <1>c, <2>1, <3>1, AccountsStay
  <2>3. CASE WriteServer(LastWrite(s))
    <3>1. Mirrors(s) /\ stack # <<>>   BY <1>12, MirrorsNow DEF DropStatement
    <3>2. StackAccounted' /\ durable' = durable   BY <1>a, <1>c, <2>3, <3>1, WriteAccounted DEF Accounted
    <3>3. DurableAccounted'   BY <1>c, <3>2, DurableStays DEF Accounted, DurableAccounted
    <3>4. UndoAccounted' /\ MemoryAccounted'   BY <1>c, <2>1, <3>2, RecordsStay DEF Accounted
    <3>5. QED  BY <3>2, <3>3, <3>4 DEF Accounted
  <2>4. QED  BY <1>12, <2>2, <2>3 DEF DropStatement
<1>13. CASE SqliteCheck(s)
  <2>1. Lighter /\ durable' = durable
    <3>1. /\ durable' = durable
          /\ UNCHANGED stack \/ \E n \in 1..Lev(s) : Rebuilt(s, n)
      BY <1>13, <1>a DEF SqliteCheck, Lev, Tree
    <3>2. ASSUME NEW n \in 1..Lev(s), Rebuilt(s, n) PROVE Lighter
      <4>1. Len(stack') = n /\ \A i \in 1..n : stack'[i] = Level(Path[s][i])   BY <1>a, <3>2, RebuiltIs
      <4>2. \A i \in 1..n : Path[s][i] \in Scopes   BY <1>a DEF Tree
      <4>3. QED  BY <1>h, <4>1, <4>2 DEF Lighter
    <3>3. QED  BY <1>d, <3>1, <3>2
  <2>2. SameRecords(s)   BY <1>13, <1>e DEF SqliteCheck, record
  <2>9. QED  BY <1>c, <2>1, <2>2, AccountsStay
<1>14. CASE DropCheck(s)
  <2>1. Lighter /\ durable' = durable
    <3>1. /\ durable' = durable
          /\ UNCHANGED stack \/ \E n \in 1..Lev(s) : Rebuilt(s, n)
      BY <1>14, <1>a DEF DropCheck, Lev, Tree
    <3>2. ASSUME NEW n \in 1..Lev(s), Rebuilt(s, n) PROVE Lighter
      <4>1. Len(stack') = n /\ \A i \in 1..n : stack'[i] = Level(Path[s][i])   BY <1>a, <3>2, RebuiltIs
      <4>2. \A i \in 1..n : Path[s][i] \in Scopes   BY <1>a DEF Tree
      <4>3. QED  BY <1>h, <4>1, <4>2 DEF Lighter
    <3>3. QED  BY <1>d, <3>1, <3>2
  <2>2. SameRecords(s)   BY <1>14, <1>e DEF DropCheck, record
  <2>9. QED  BY <1>c, <2>1, <2>2, AccountsStay
<1>15. CASE \E ok \in BOOLEAN : End(s, ok)
  <2>0. PICK ok \in BOOLEAN : End(s, ok)   BY <1>15
  <2>1. Lighter /\ durable' = durable
    <3>1. UNCHANGED connection   BY <2>0, EndIs
    <3>2. QED  BY <1>d, <3>1 DEF connection
  <2>2. SameRecords(s)   BY <2>0, <1>e DEF End
  <2>9. QED  BY <1>c, <2>1, <2>2, AccountsStay
<1>16. CASE Committed(s)
  <2>1. /\ pc[s] = "ending" /\ aborted[s] = "none" /\ outcome'[s] = "ok" /\ memory' = memory
        /\ undo' = [t \in Scopes |-> IF t = s THEN {} ELSE IF t = Parent(s) THEN undo[t] \cup undo[s] ELSE undo[t]]
    BY SMTT(60), <1>16 DEF Committed, Finish, InOrder, TypeOK, Records, RecordFits
  <2>2. Mirrors(s) /\ ~TopFailed   BY Zenon, <1>16, <2>1, MirrorsNow DEF Mirrored, Committed
  <2>3. /\ depth = Lev(s) /\ Len(stack) = depth /\ Lev(s) \in Nat /\ Lev(s) >= 1 /\ Path[s][Lev(s)] = s
        /\ \A i \in 1..depth : stack[i].scope = Path[s][i] /\ undo[Path[s][i]] \subseteq stack[i].writes
    BY Zenon, <1>a, <2>2 DEF Mirrors, Tree
  <2>4. ASSUME NEW w \in undo[s]
        PROVE  /\ w \in Scopes \X Nat /\ Lev(s) <= Lev(w[1]) /\ (CommittedBelow(w, Lev(s) - 1))'
               /\ \A j \in 1..Lev(s) : Path[w[1]][j] = Path[s][j]
    <3>1. w \in Scopes \X Nat   BY <1>a
    <3>2. Lev(s) <= Lev(w[1]) /\ Path[w[1]][Lev(s)] = s /\ CommittedBelow(w, Lev(s))   BY Zenon DEF Accounted, UndoAccounted
    <3>3. QED  BY Zenon, <1>a, <1>c, <2>1, <3>1, <3>2, HandedUp
  <2>5. CASE ~(depth > 1)
    <3>a. depth = Lev(s) /\ Lev(s) \in Nat /\ Lev(s) >= 1   BY Zenon, <2>3
    <3>b. depth = 1   BY <2>5, <3>a
    <3>c. CommitServer   BY Zenon, <1>16, <2>5 DEF Committed
    <3>1. depth = 1 /\ CommitServer   BY Zenon, <3>b, <3>c
    <3>2. StackAccounted' /\ DurableAccounted'   BY Zenon, <1>c, <2>1, <2>2, <3>1, CommitAccounted DEF Accounted
    <3>3. durable \subseteq durable' /\ undo[s] \subseteq durable'
      <4>1. durable \subseteq durable' /\ \A i \in 1..Len(stack) : stack[i].writes \subseteq durable'   BY <1>a, <2>2, <3>1, CommitIs
      <4>2. 1 \in 1..Len(stack) /\ undo[s] \subseteq stack[1].writes   BY <2>3, <3>1
      <4>3. QED  BY <4>1, <4>2
    <3>4. ~Nested(s)   BY <2>3, <3>1 DEF Nested, Lev
    <3>5. \A t \in Scopes : undo'[t] = IF t = s THEN {} ELSE undo[t]   BY <1>a, <2>1, <3>4, ScopesAssumption DEF Tree
    <3>6. UndoAccounted'
      <4>1. SUFFICES ASSUME NEW h \in Scopes, NEW w \in undo'[h]
                     PROVE  (Lev(h) <= Lev(w[1]) /\ Path[w[1]][Lev(h)] = h /\ CommittedBelow(w, Lev(h)))'
        BY DEF UndoAccounted
      <4>2. w \in undo[h]   BY <3>5
      <4>3. QED  BY Zenon, <1>c, <4>2, UndoStays DEF Accounted
    <3>7. MemoryAccounted'
      <4>1. SUFFICES ASSUME NEW w \in memory'
                     PROVE  (\E h \in Scopes : w \in undo'[h]) \/ (w \in durable /\ CommittedBelow(w, 0))'
        BY DEF MemoryAccounted
      <4>2. w \in memory   BY <2>1
      <4>3. CASE w \in durable /\ CommittedBelow(w, 0)   BY <1>c, <3>3, <4>2, <4>3, MemoryStays
      <4>4. CASE w \in undo[s]
        <5>1. (CommittedBelow(w, Lev(s) - 1))' /\ Lev(s) - 1 = 0   BY <2>3, <2>4, <3>1, <4>4
        <5>2. (CommittedBelow(w, 0))'   BY <1>b, <5>1 DEF CommittedBelow
        <5>3. QED  BY <3>3, <4>4, <5>2
      <4>5. CASE \E h \in Scopes : h # s /\ w \in undo[h]   BY <3>5, <4>5
      <4>6. QED  BY <4>2, <4>3, <4>4, <4>5 DEF Accounted, MemoryAccounted
    <3>8. QED  BY <3>2, <3>6, <3>7 DEF Accounted
  <2>6. CASE depth > 1
    <3>1. ReleaseServer   BY <1>16, <2>6 DEF Committed
    <3>2. /\ durable' = durable /\ Len(stack') = depth - 1
          /\ \A i \in 1..(depth - 1) :
                /\ stack'[i].scope = stack[i].scope
                /\ stack'[i].writes = IF i < depth - 1 THEN stack[i].writes ELSE stack[i].writes \cup stack[depth].writes
      BY Zenon, <1>a, <2>6, <3>1, ReleaseIs
    <3>3. PICK p : p = Parent(s)   OBVIOUS
    <3>4. /\ Nested(s) /\ p \in Scopes /\ Lev(p) = Lev(s) - 1 /\ Path[p][Lev(p)] = p
          /\ \A i \in 1..(Lev(s) - 1) : Path[p][i] = Path[s][i]
      <4>1. Nested(s)   BY <2>3, <2>6 DEF Nested, Lev
      <4>2. QED  BY SMTT(60), <1>a, <3>3, <4>1, ParentPath DEF Tree
    <3>5. \A t \in Scopes : undo'[t] = IF t = s THEN {} ELSE IF t = p THEN undo[t] \cup undo[s] ELSE undo[t]   BY Zenon, <2>1, <3>3
    <3>6. StackAccounted'
      <4>1. SUFFICES ASSUME NEW i \in 1..Len(stack'), NEW w \in stack'[i].writes
                     PROVE  i <= Lev(w[1]) /\ Path[w[1]][i] = stack'[i].scope /\ (CommittedBelow(w, i))'
        BY <1>b DEF StackAccounted
      <4>a. i \in 1..(depth - 1)   BY <3>2
      <4>c. depth \in Nat /\ Len(stack) = depth   BY Zenon, <2>3
      <4>b. i \in 1..Len(stack) /\ i \in Nat   BY <4>a, <4>c
      <4>2. i \in 1..Len(stack) /\ i \in Nat /\ i \in 1..(depth - 1) /\ stack'[i].scope = stack[i].scope   BY Zenon, <3>2, <4>a, <4>b
      <4>3. CASE w \in stack[i].writes
        <5>1. stack[i] \in Levels   BY <1>a, <4>2
        <5>2. w \in Scopes \X Nat   BY <4>3, <5>1 DEF Levels
        <5>3. i <= Lev(w[1]) /\ Path[w[1]][i] = stack[i].scope /\ CommittedBelow(w, i)   BY <4>2, <4>3 DEF Accounted, StackAccounted
        <5>4. (CommittedBelow(w, i))'   BY <1>a, <1>c, <4>2, <5>2, <5>3, StillCommitted
        <5>5. QED  BY <4>2, <5>3, <5>4
      <4>4. CASE w \notin stack[i].writes
        <5>1. ~(i < depth - 1)   BY Zenon, <3>2, <4>2, <4>4
        <5>2. w \in stack[depth].writes   BY Zenon, <3>2, <4>2, <4>4, <5>1
        <5>3. i = Lev(s) - 1 /\ depth \in 1..Len(stack)   BY <2>3, <4>2, <5>1
        <5>4. stack[depth] \in Levels   BY <1>a, <5>3
        <5>5. w \in Scopes \X Nat   BY <5>2, <5>4 DEF Levels
        <5>6. Lev(s) <= Lev(w[1]) /\ Path[w[1]][Lev(s)] = s /\ CommittedBelow(w, Lev(s))
          <6>1. depth <= Lev(w[1]) /\ Path[w[1]][depth] = stack[depth].scope /\ CommittedBelow(w, depth)
            BY <5>2, <5>3 DEF Accounted, StackAccounted
          <6>2. stack[depth].scope = s   BY <2>3, <5>3
          <6>3. QED  BY <2>3, <6>1, <6>2
        <5>7. (\A j \in 1..Lev(s) : Path[w[1]][j] = Path[s][j]) /\ (CommittedBelow(w, Lev(s) - 1))'
          BY <1>a, <1>c, <2>1, <5>5, <5>6, HandedUp
        <5>8. (CommittedBelow(w, i))'   BY Zenon, <1>b, <5>3, <5>7 DEF CommittedBelow
        <5>9. i \in 1..Lev(s) /\ stack[i].scope = Path[s][i]   BY <2>3, <4>2, <5>3
        <5>10. Lev(w[1]) \in Nat   BY <1>a, <5>5 DEF Tree
        <5>11. QED  BY SMTT(60), <2>3, <4>2, <5>3, <5>6, <5>7, <5>8, <5>9, <5>10
      <4>5. QED  BY Zenon, <4>3, <4>4
    <3>7. DurableAccounted'   BY <1>c, <3>2, DurableStays DEF Accounted, DurableAccounted
    <3>8. UndoAccounted'
      <4>1. SUFFICES ASSUME NEW h \in Scopes, NEW w \in undo'[h]
                     PROVE  (Lev(h) <= Lev(w[1]) /\ Path[w[1]][Lev(h)] = h /\ CommittedBelow(w, Lev(h)))'
        BY DEF UndoAccounted
      <4>2. CASE w \in undo[h]   BY <1>c, <4>2, UndoStays DEF Accounted
      <4>3. CASE w \notin undo[h]
        <5>1. h = p /\ w \in undo[s]   BY Zenon, <3>5, <4>3
        <5>2. /\ w \in Scopes \X Nat /\ Lev(s) <= Lev(w[1]) /\ (CommittedBelow(w, Lev(s) - 1))'
              /\ \A j \in 1..Lev(s) : Path[w[1]][j] = Path[s][j]
          BY <2>4, <5>1
        <5>a. w[1] \in Scopes   BY <5>2
        <5>b. Lev(w[1]) \in Nat   BY <1>a, <5>a DEF Tree
        <5>3. Lev(p) \in 1..Lev(s) /\ Lev(p) \in 1..(Lev(s) - 1) /\ Lev(w[1]) \in Nat   BY <2>3, <2>6, <3>4, <5>b
        <5>4. Lev(p) <= Lev(w[1])   BY <2>3, <3>4, <5>2, <5>3
        <5>5. Path[w[1]][Lev(p)] = p   BY <3>4, <5>2, <5>3
        <5>6. (CommittedBelow(w, Lev(p)))'   BY <1>b, <3>4, <5>2 DEF CommittedBelow
        <5>7. QED  BY <1>b, <5>1, <5>4, <5>5, <5>6
      <4>4. QED  BY <4>2, <4>3
    <3>9. MemoryAccounted'
      <4>1. SUFFICES ASSUME NEW w \in memory'
                     PROVE  (\E h \in Scopes : w \in undo'[h]) \/ (w \in durable /\ CommittedBelow(w, 0))'
        BY DEF MemoryAccounted
      <4>2. w \in memory   BY <2>1
      <4>3. CASE w \in durable /\ CommittedBelow(w, 0)   BY <1>c, <3>2, <4>2, <4>3, MemoryStays
      <4>4. p # s   BY <2>3, <3>4
      <4>5. CASE \E h \in Scopes : w \in undo[h]   BY Zenon, <3>4, <3>5, <4>4, <4>5
      <4>6. QED  BY <4>2, <4>3, <4>5 DEF Accounted, MemoryAccounted
    <3>10. QED  BY <3>6, <3>7, <3>8, <3>9 DEF Accounted
  <2>7. QED  BY <2>5, <2>6
<1>17. CASE CommitFails(s)
  <2>1. SameRecords(s)   BY <1>17, <1>e DEF CommitFails, Finish
  <2>2. \/ RollbackServer(1)
        \/ depth = 1 /\ CommitServer /\ pc[s] = "ending" /\ aborted[s] = "none" /\ outcome'[s] = "unknown"
    <3>1. /\ pc[s] = "ending" /\ kind[s] = "commit" /\ (RollbackServer(1) \/ (depth = 1 /\ CommitServer))
          /\ outcome' = [outcome EXCEPT ![s] = IF depth = 1 THEN "unknown" ELSE "err"]
      BY <1>17 DEF CommitFails, Finish
    <3>2. aborted[s] = "none"   BY <1>a, <3>1 DEF Records, RecordFits
    <3>3. outcome \in [Scopes -> {"none", "ok", "err", "cancelled", "unknown"}]   BY DEF InOrder, TypeOK
    <3>4. QED  BY <3>1, <3>2, <3>3
  <2>3. CASE RollbackServer(1) \/ RollbackServer(2)
    <3>1. Lighter /\ durable' = durable   BY <1>f, <2>3
    <3>2. QED  BY <1>c, <2>1, <3>1, AccountsStay
  <2>4. CASE depth = 1 /\ CommitServer /\ pc[s] = "ending" /\ aborted[s] = "none" /\ outcome'[s] = "unknown"
    <3>1. Mirrors(s)   BY <2>4, MirrorsNow
    <3>2. StackAccounted' /\ DurableAccounted'   BY <1>c, <2>4, <3>1, CommitAccounted DEF Accounted
    <3>3. durable \subseteq durable'   BY <1>a, <2>4, CommitIs
    <3>4. UndoAccounted' /\ MemoryAccounted'   BY <1>c, <2>1, <3>3, RecordsStay DEF Accounted
    <3>5. QED  BY <3>2, <3>4 DEF Accounted
  <2>5. QED  BY <2>2, <2>3, <2>4
<1>18. CASE RolledBack(s)
  <2>1. Lighter /\ durable' = durable   BY <1>18, <1>f DEF RolledBack
  <2>2. SameRecords(s)   BY <1>18, <1>e DEF RolledBack, Finish
  <2>9. QED  BY <1>c, <2>1, <2>2, AccountsStay
<1>19. CASE DropRecord(s)
  <2>1. Lighter /\ durable' = durable
    <3>1. UNCHANGED connection   BY <1>19, DropRecordIs
    <3>2. QED  BY <1>d, <3>1 DEF connection
  <2>2. SameRecords(s)   BY <1>19, DropRecordIs DEF SameRecords
  <2>9. QED  BY <1>c, <2>1, <2>2, AccountsStay
<1>20. CASE Cancel(s)
  <2>1. Lighter /\ durable' = durable
    <3>1. RollbackServer(1)   BY <1>20, CancelIs
    <3>2. QED  BY <1>f, <3>1
  <2>2. SameRecords(s)   BY <1>20, CancelIs DEF SameRecords
  <2>9. QED  BY <1>c, <2>1, <2>2, AccountsStay
<1>21. CASE CancelEnding(s)
  <2>1. SameRecords(s)   BY <1>21, CancelEndingIs DEF SameRecords
  <2>2. \/ RollbackServer(1) \/ RollbackServer(2)
        \/ depth = 1 /\ CommitServer /\ pc[s] = "ending" /\ aborted[s] = "none" /\ outcome'[s] = "unknown"
    <3>1. /\ pc[s] = "ending"
          /\ RollbackServer(1) \/ RollbackServer(2) \/ (kind[s] = "commit" /\ depth = 1 /\ CommitServer)
          /\ outcome' = [outcome EXCEPT ![s] = IF kind[s] = "commit" /\ depth = 1 THEN "unknown" ELSE "cancelled"]
      BY <1>21, CancelEndingIs
    <3>2. kind[s] = "commit" => aborted[s] = "none"   BY <1>a, <3>1 DEF Records, RecordFits
    <3>3. outcome \in [Scopes -> {"none", "ok", "err", "cancelled", "unknown"}]   BY DEF InOrder, TypeOK
    <3>4. QED  BY <3>1, <3>2, <3>3
  <2>3. CASE RollbackServer(1) \/ RollbackServer(2)
    <3>1. Lighter /\ durable' = durable   BY <1>f, <2>3
    <3>2. QED  BY <1>c, <2>1, <3>1, AccountsStay
  <2>4. CASE depth = 1 /\ CommitServer /\ pc[s] = "ending" /\ aborted[s] = "none" /\ outcome'[s] = "unknown"
    <3>1. Mirrors(s)   BY <2>4, MirrorsNow
    <3>2. StackAccounted' /\ DurableAccounted'   BY Zenon, <1>c, <2>4, <3>1, CommitAccounted DEF Accounted
    <3>3. durable \subseteq durable'   BY <1>a, <2>4, CommitIs
    <3>4. UndoAccounted' /\ MemoryAccounted'   BY <1>c, <2>1, <3>3, RecordsStay DEF Accounted
    <3>5. QED  BY <3>2, <3>4 DEF Accounted
  <2>5. QED  BY <2>2, <2>3, <2>4
<1>22. QED  BY <1>1, <1>2, <1>3, <1>4, <1>5, <1>6, <1>7, <1>8, <1>9, <1>10, <1>11, <1>12, <1>13, <1>14, <1>15, <1>16, <1>17, <1>18, <1>19, <1>20, <1>21 DEF Works

-------------------------------------------------------------------------------
(* Counted is inductive                                                    *)

\* Nothing that Counted speaks of changes.
LEMMA CountedStays ==
    ASSUME Counted, setting' = setting, backend' = backend, depth' = depth, Len(stack') = Len(stack),
           \A t \in Scopes : On(t) => (On(t))',
           backend = "Sqlite" => Len(stack) = depth
    PROVE  Counted'
<1>1. \A t : (Lev(t))' = Lev(t)   BY SamePath
<1>2. QED  BY <1>1 DEF Counted

\* The innermost scope is gone, and the driver counts one less, or has reached 0.
LEMMA CountedLess ==
    ASSUME InOrder, InOrder', Counted, setting' = setting, backend' = backend,
           NEW s \in Scopes, AtTip(s), Moved(s), Busy(s),
           depth' = 0 \/ (depth' < depth /\ depth > 0),
           Len(stack') <= depth', backend = "Sqlite" => Len(stack') = depth'
    PROVE  Counted'
<1>a. Tree /\ depth \in Nat /\ depth' \in Nat   BY Zenon, InTree DEF InOrder, TypeOK
<1>b. Path' = Path /\ \A t : (Lev(t))' = Lev(t)   BY SamePath
<1>c. \A t \in Scopes : Lev(t) \in Nat /\ Lev(t) >= 1   BY <1>a DEF Tree
<1>1. ASSUME depth' > 0 PROVE \E t \in Scopes : (On(t))' /\ depth' <= Lev(t)
  <2>1. PICK t \in Scopes : On(t) /\ depth <= Lev(t)   BY <1>1, <1>a DEF Counted
  <2>2. CASE t # s
    <3>1. (On(t))'   BY <2>1, <2>2 DEF On, Moved
    <3>2. QED  BY <1>1, <1>a, <1>c, <2>1, <3>1
  <2>3. CASE t = s
    <3>1. depth' <= Lev(s) - 1 /\ Lev(s) > 1   BY <1>1, <1>a, <1>c, <2>1, <2>3
    <3>2. Nested(s)   BY <3>1 DEF Nested, Lev
    <3>3. PICK p : p = Parent(s)   OBVIOUS
    <3>4. p \in Scopes /\ Lev(p) = Lev(s) - 1 /\ p # s   BY <1>a, <1>c, <3>2, <3>3 DEF Tree
    <3>5. pc[p] = "open"   BY Zenon, <2>1, <2>3, <3>2, <3>3, Around DEF On
    <3>6. (On(p))'   BY <3>4, <3>5 DEF On, Moved
    <3>7. QED  BY <3>1, <3>4, <3>6
  <2>4. QED  BY <2>2, <2>3
<1>2. QED  BY <1>1, <1>b DEF Counted

\* Counted is kept.
LEMMA CountedStep ==
    ASSUME InOrder, InOrder', Mirrored, Counted, setting' = setting, NEW s \in Scopes, Works(s)
    PROVE  Counted'
<1>a. /\ Tree /\ Records /\ stack \in Seq(Levels) /\ depth \in Nat /\ depth' \in Nat
      /\ pc \in [Scopes -> {"unused", "waiting", "queued", "starting", "open", "ending", "ended", "over"}]
      /\ stmt \in [Scopes -> {"none", "running", "checking"}]
  BY Zenon, InTree DEF InOrder, TypeOK
<1>h. Len(stack) \in Nat   BY <1>a
<1>b. Path' = Path /\ \A t : (Lev(t))' = Lev(t)   BY SamePath
<1>c. \A t \in Scopes : Lev(t) \in Nat /\ Lev(t) >= 1   BY <1>a DEF Tree
<1>d. Len(stack) <= depth   BY DEF Counted
<1>e. (\A t \in Scopes : stmt[t] # "checking") => (backend = "Sqlite" => Len(stack) = depth)   BY DEF Counted
<1>f. backend = "Sqlite" => ~setting.cancel   BY DEF Counted
<1>g. \A n \in {1, 2} : RollbackServer(n) /\ (backend = "Sqlite" => Len(stack) = depth) =>
         /\ backend' = backend /\ (depth' = 0 \/ (depth' < depth /\ depth > 0))
         /\ Len(stack') <= depth' /\ (backend = "Sqlite" => Len(stack') = depth')
  BY <1>a, RollbackIs, <1>h
<1>1. CASE Begin(s)
  <2>1. UNCHANGED connection   BY <1>1 DEF Begin
  <2>2. \A t \in Scopes : On(t) => (On(t))'   BY <1>1, <1>a DEF Begin, On
  <2>3. \A t \in Scopes : stmt[t] = "checking" => stmt'[t] = stmt[t]   BY <1>1, <1>a DEF Begin
  <2>4. backend' = backend /\ depth' = depth /\ stack' = stack   BY <2>1 DEF connection
  <2>5. QED  BY <1>b, <2>2, <2>3, <2>4 DEF Counted
<1>2. CASE Call(s)
  <2>1. UNCHANGED connection   BY <1>2 DEF Call
  <2>2. \A t \in Scopes : On(t) => (On(t))'   BY <1>2, <1>a DEF Call, On
  <2>3. \A t \in Scopes : stmt[t] = "checking" => stmt'[t] = stmt[t]   BY <1>2, <1>a DEF Call
  <2>4. backend' = backend /\ depth' = depth /\ stack' = stack   BY <2>1 DEF connection
  <2>5. QED  BY <1>b, <2>2, <2>3, <2>4 DEF Counted
<1>3. CASE TakeSlot(s)
  <2>1. UNCHANGED connection   BY <1>3 DEF TakeSlot
  <2>2. \A t \in Scopes : On(t) => (On(t))'   BY <1>3, <1>a DEF TakeSlot, On
  <2>3. \A t \in Scopes : stmt[t] = "checking" => stmt'[t] = stmt[t]   BY <1>3, <1>a DEF TakeSlot
  <2>4. backend' = backend /\ depth' = depth /\ stack' = stack   BY <2>1 DEF connection
  <2>5. QED  BY <1>b, <2>2, <2>3, <2>4 DEF Counted
<1>4. CASE BeginSavepoint(s)
  <2>1. UNCHANGED connection   BY <1>4 DEF BeginSavepoint
  <2>2. \A t \in Scopes : On(t) => (On(t))'   BY <1>4, <1>a DEF BeginSavepoint, On
  <2>3. \A t \in Scopes : stmt[t] = "checking" => stmt'[t] = stmt[t]   BY <1>4, <1>a DEF BeginSavepoint
  <2>4. backend' = backend /\ depth' = depth /\ stack' = stack   BY <2>1 DEF connection
  <2>5. QED  BY <1>b, <2>2, <2>3, <2>4 DEF Counted
<1>5. CASE LeaveQueue(s)
  <2>1. UNCHANGED connection   BY <1>5 DEF LeaveQueue
  <2>2. \A t \in Scopes : On(t) => (On(t))'   BY <1>5, <1>a DEF LeaveQueue, On
  <2>3. \A t \in Scopes : stmt[t] = "checking" => stmt'[t] = stmt[t]   BY <1>5, <1>a DEF LeaveQueue
  <2>4. backend' = backend /\ depth' = depth /\ stack' = stack   BY <2>1 DEF connection
  <2>5. QED  BY <1>b, <2>2, <2>3, <2>4 DEF Counted
<1>6. CASE Begun(s)
  <2>1. Busy(s) /\ (pc[s] # "open" \/ Leaf(s)) /\ Moved(s)   BY <1>6, <1>a DEF Begun, Finish, Busy, Moved
  <2>2. AtTip(s)   BY <2>1, TipIs
  <2>3. \A t \in Scopes : stmt[t] # "checking"
    <3>1. pc[s] = "starting"   BY <1>6 DEF Begun
    <3>2. QED  BY <3>1, Inside
  <2>4. backend = "Sqlite" => Len(stack) = depth   BY <1>e, <2>3
  <2>5. pc'[s] = "open"   BY <1>6, <1>a DEF Begun
  <2>6. /\ backend' = backend /\ depth' <= depth + 1 /\ Len(stack') <= depth' /\ (depth = 0 => depth' <= 1)
        /\ backend = "Sqlite" => Len(stack') = depth'
    <3>1. CASE ~Nested(s)
      <4>1. backend' = backend /\ depth' = 1 /\ Len(stack') = 1   BY <1>6, <3>1, BeginIs DEF Begun
      <4>2. QED  BY <1>a, <4>1
    <3>2. CASE Nested(s)
      <4>1. /\ backend' = backend /\ depth' = depth + 1
            /\ (stack' = stack /\ backend = "MySql") \/ stack' = Append(stack, Level(s))
        BY <1>6, <3>2 DEF Begun, SavepointServer
      <4>2. CASE stack' = stack /\ backend = "MySql"   BY <1>a, <1>d, <4>1, <4>2, <1>h
      <4>3. CASE stack' = Append(stack, Level(s))
        <5>1. Level(s) \in Levels   BY DEF Level, Levels
        <5>2. Len(stack') = Len(stack) + 1   BY <1>a, <4>3, <5>1
        <5>3. QED  BY <1>a, <1>d, <2>4, <4>1, <5>2, <1>h
      <4>4. QED  BY <4>1, <4>2, <4>3
    <3>3. QED  BY <3>1, <3>2
  <2>7. depth' <= Lev(s)
    <3>1. CASE depth = 0   BY <1>a, <1>c, <2>6, <3>1
    <3>2. CASE depth > 0
      <4>1. PICK t \in Scopes : On(t) /\ depth <= Lev(t)   BY <3>2 DEF Counted
      <4>2. t # s   BY <1>6, <4>1 DEF Begun, On
      <4>3. Lev(t) < Lev(s)   BY <2>2, <4>1, <4>2 DEF AtTip, On, Busy
      <4>4. QED  BY <1>a, <1>c, <2>6, <4>1, <4>3
    <3>3. QED  BY <1>a, <3>1, <3>2
  <2>8. (On(s))' /\ depth' <= (Lev(s))'   BY <1>b, <2>5, <2>7 DEF On
  <2>9. QED  BY <1>f, <2>6, <2>8 DEF Counted
<1>7. CASE \E o \in {"err", "cancelled"} : BeginFails(s, o)
  <2>1. Busy(s) /\ (pc[s] # "open" \/ Leaf(s)) /\ Moved(s)   BY <1>7, <1>a DEF BeginFails, Finish, Busy, Moved
  <2>2. AtTip(s)   BY <2>1, TipIs
  <2>3. \A t \in Scopes : stmt[t] # "checking"
    <3>1. pc[s] = "starting"   BY <1>7 DEF BeginFails
    <3>2. QED  BY <3>1, Inside
  <2>4. backend = "Sqlite" => Len(stack) = depth   BY <1>e, <2>3
  <2>5. RollbackServer(1) \/ UNCHANGED connection   BY <1>7 DEF BeginFails
  <2>6. CASE RollbackServer(1)
    <3>1. /\ backend' = backend /\ (depth' = 0 \/ (depth' < depth /\ depth > 0))
          /\ Len(stack') <= depth' /\ (backend = "Sqlite" => Len(stack') = depth')
      BY <1>g, <2>4, <2>6
    <3>2. QED  BY <2>1, <2>2, <3>1, CountedLess
  <2>7. CASE UNCHANGED connection
    <3>1. backend' = backend /\ depth' = depth /\ Len(stack') = Len(stack)   BY <2>7 DEF connection
    <3>2. \A t \in Scopes : On(t) => (On(t))'   BY <1>7, <1>a DEF BeginFails, On
    <3>3. QED  BY <2>4, <3>1, <3>2, CountedStays
  <2>8. QED  BY <2>5, <2>6, <2>7
<1>8. CASE Statement(s)
  <2>1. UNCHANGED connection   BY <1>8 DEF Statement
  <2>2. \A t \in Scopes : On(t) => (On(t))'   BY <1>8, <1>a DEF Statement, On
  <2>3. \A t \in Scopes : stmt[t] = "checking" => stmt'[t] = stmt[t]   BY <1>8, <1>a DEF Statement
  <2>4. backend' = backend /\ depth' = depth /\ stack' = stack   BY <2>1 DEF connection
  <2>5. QED  BY Zenon, <1>b, <2>2, <2>3, <2>4 DEF Counted
<1>9. CASE Succeeds(s)
  <2>1. stmt[s] = "running" /\ pc' = pc   BY <1>9 DEF Succeeds, Noted
  <2>2. \A t \in Scopes : stmt[t] # "checking"   BY <2>1, Inside
  <2>3. \A t \in Scopes : On(t) => (On(t))'   BY <2>1 DEF On
  <2>4. Mirrors(s) /\ stack # <<>>   BY <2>1, MirrorsNow
  <2>5. backend' = backend /\ depth' = depth /\ Len(stack') = Len(stack)   BY <1>9, <1>a, <2>4, LastWriteIs, WriteIs DEF Succeeds, InOrder
  <2>6. QED  BY <1>e, <2>2, <2>3, <2>5, CountedStays
<1>10. CASE Fails(s)
  <2>1. stmt[s] = "running" /\ pc' = pc   BY <1>10 DEF Fails, Noted
  <2>2. \A t \in Scopes : stmt[t] # "checking"   BY <2>1, Inside
  <2>3. \A t \in Scopes : On(t) => (On(t))'   BY <2>1 DEF On
  <2>5. backend' = backend /\ depth' = depth /\ Len(stack') = Len(stack)   BY <1>10, <1>a, FailIs DEF Fails
  <2>6. QED  BY <1>e, <2>2, <2>3, <2>5, CountedStays
<1>11. CASE LosesTransaction(s)
  <2>1. stmt[s] = "running" /\ pc' = pc   BY <1>11 DEF LosesTransaction, Noted
  <2>2. \A t \in Scopes : stmt[t] # "checking"   BY <2>1, Inside
  <2>3. \A t \in Scopes : On(t) => (On(t))'   BY <2>1 DEF On
  <2>4. CASE backend = "Postgres"
    <3>1. backend' = backend /\ depth' = depth /\ Len(stack') = Len(stack)   BY <1>11, <1>a, <2>4, FailIs DEF LosesTransaction
    <3>2. QED  BY <1>e, <2>2, <2>3, <3>1, CountedStays
  <2>5. CASE backend # "Postgres"
    <3>1. backend' = backend /\ depth' = depth /\ stack' = <<>> /\ Len(stack') = 0   BY <1>11, <2>5 DEF LosesTransaction, LoseServer
    <3>2. backend = "Sqlite" => stmt'[s] = "checking"   BY <1>11, <1>a DEF LosesTransaction, Noted
    <3>3. Len(stack') <= depth'   BY <1>a, <3>1
    <3>4. depth' > 0 => \E t \in Scopes : (On(t))' /\ depth' <= (Lev(t))'   BY <1>b, <2>3, <3>1 DEF Counted
    <3>5. QED  BY <1>f, <3>1, <3>2, <3>3, <3>4 DEF Counted
  <2>6. QED  BY <2>4, <2>5
<1>12. CASE DropStatement(s)
  <2>1. stmt[s] = "running" /\ pc' = pc   BY <1>12 DEF DropStatement, Noted
  <2>2. \A t \in Scopes : stmt[t] # "checking"   BY <2>1, Inside
  <2>3. \A t \in Scopes : On(t) => (On(t))'   BY <2>1 DEF On
  <2>4. Mirrors(s) /\ stack # <<>>   BY <2>1, MirrorsNow
  <2>a. LastWrite(s) \in Scopes \X Nat   BY LastWriteIs DEF InOrder
  <2>b. UNCHANGED connection \/ WriteServer(LastWrite(s))   BY <1>12 DEF DropStatement
  <2>5. backend' = backend /\ depth' = depth /\ Len(stack') = Len(stack)   BY <1>a, <2>4, <2>a, <2>b, WriteIs DEF connection
  <2>6. QED  BY <1>e, <2>2, <2>3, <2>5, CountedStays
<1>13. CASE SqliteCheck(s)
  <2>1. stmt[s] = "checking" /\ pc' = pc /\ backend' = backend /\ depth' = depth   BY <1>13 DEF SqliteCheck
  <2>2. \A t \in Scopes : On(t) => (On(t))'   BY <2>1 DEF On
  <2>3. depth = Lev(s)   BY <2>1 DEF Mirrored
  <2>4. backend = "Sqlite"   BY Zenon, <1>a, <2>1 DEF Records, RecordFits
  <2>5. Len(stack') = depth
    <3>1. CASE stack # <<>>
      <4>1. stack' = stack   BY <1>13, <3>1 DEF SqliteCheck
      <4>2. QED  BY <2>4, <3>1, <4>1 DEF Counted
    <3>2. CASE stack = <<>>
      <4>1. Rebuilt(s, Lev(s)) /\ Lev(s) \in 1..Lev(s)   BY <1>13, <1>c, <3>2 DEF SqliteCheck, Lev
      <4>2. QED  BY <1>a, <2>3, <4>1, RebuiltIs
    <3>3. QED  BY <3>1, <3>2
  <2>6. depth' > 0 => \E t \in Scopes : (On(t))' /\ depth' <= (Lev(t))'   BY <1>b, <2>1, <2>2 DEF Counted
  <2>7. Len(stack') <= depth'   BY <1>a, <2>1, <2>5
  <2>8. QED  BY Zenon, <1>f, <2>1, <2>5, <2>6, <2>7 DEF Counted
<1>14. CASE DropCheck(s)
  <2>1. stmt[s] = "checking" /\ setting.cancel   BY <1>14 DEF DropCheck, MayCancel
  <2>2. backend = "Sqlite"   BY <1>a, <2>1 DEF Records, RecordFits
  <2>3. QED  BY <1>f, <2>1, <2>2
<1>15. CASE \E ok \in BOOLEAN : End(s, ok)
  <2>0. PICK ok \in BOOLEAN : End(s, ok)   BY <1>15
  <2>1. UNCHANGED connection   BY <2>0, EndIs
  <2>2. \A t \in Scopes : On(t) => (On(t))'   BY <2>0, <1>a DEF End, On
  <2>3. \A t \in Scopes : stmt'[t] = stmt[t]   BY Zenon, <2>0 DEF End
  <2>4. backend' = backend /\ depth' = depth /\ stack' = stack   BY <2>1 DEF connection
  <2>5. QED  BY <1>b, <2>2, <2>3, <2>4 DEF Counted
<1>16. CASE Committed(s)
  <2>1. Busy(s) /\ (pc[s] # "open" \/ Leaf(s)) /\ Moved(s)   BY <1>16, <1>a DEF Committed, Finish, Busy, Moved
  <2>2. AtTip(s)   BY <2>1, TipIs
  <2>3. \A t \in Scopes : stmt[t] # "checking"
    <3>1. pc[s] = "ending"   BY <1>16 DEF Committed
    <3>2. QED  BY <3>1, Inside
  <2>4. backend = "Sqlite" => Len(stack) = depth   BY <1>e, <2>3
  <2>5. CommitServer \/ (depth > 1 /\ ReleaseServer)   BY <1>16 DEF Committed
  <2>6. /\ backend' = backend /\ (depth' = 0 \/ (depth' < depth /\ depth > 0))
        /\ Len(stack') <= depth' /\ (backend = "Sqlite" => Len(stack') = depth')
    <3>1. CommitServer => backend' = backend /\ depth' = 0 /\ Len(stack') = 0   BY <1>a, CommitIs
    <3>3. depth > 1 /\ ReleaseServer => backend' = backend /\ depth' = depth - 1 /\ Len(stack) = depth /\ Len(stack') = depth - 1
      BY <1>a, ReleaseIs
    <3>4. QED  BY <1>a, <1>g, <2>4, <2>5, <3>1, <3>3
  <2>7. QED  BY <2>1, <2>2, <2>6, CountedLess
<1>17. CASE CommitFails(s)
  <2>1. Busy(s) /\ (pc[s] # "open" \/ Leaf(s)) /\ Moved(s)   BY <1>17, <1>a DEF CommitFails, Finish, Busy, Moved
  <2>2. AtTip(s)   BY <2>1, TipIs
  <2>3. \A t \in Scopes : stmt[t] # "checking"
    <3>1. pc[s] = "ending"   BY <1>17 DEF CommitFails
    <3>2. QED  BY <3>1, Inside
  <2>4. backend = "Sqlite" => Len(stack) = depth   BY <1>e, <2>3
  <2>5. RollbackServer(1) \/ CommitServer   BY <1>17 DEF CommitFails
  <2>6. /\ backend' = backend /\ (depth' = 0 \/ (depth' < depth /\ depth > 0))
        /\ Len(stack') <= depth' /\ (backend = "Sqlite" => Len(stack') = depth')
    <3>1. CommitServer => backend' = backend /\ depth' = 0 /\ Len(stack') = 0   BY <1>a, CommitIs
    <3>4. QED  BY <1>a, <1>g, <2>4, <2>5, <3>1
  <2>7. QED  BY <2>1, <2>2, <2>6, CountedLess
<1>18. CASE RolledBack(s)
  <2>1. Busy(s) /\ (pc[s] # "open" \/ Leaf(s)) /\ Moved(s)   BY <1>18, <1>a DEF RolledBack, Finish, Busy, Moved
  <2>2. AtTip(s)   BY <2>1, TipIs
  <2>3. \A t \in Scopes : stmt[t] # "checking"
    <3>1. pc[s] = "ending"   BY <1>18 DEF RolledBack
    <3>2. QED  BY <3>1, Inside
  <2>4. backend = "Sqlite" => Len(stack) = depth   BY <1>e, <2>3
  <2>5. RollbackServer(1)   BY <1>18 DEF RolledBack
  <2>6. /\ backend' = backend /\ (depth' = 0 \/ (depth' < depth /\ depth > 0))
        /\ Len(stack') <= depth' /\ (backend = "Sqlite" => Len(stack') = depth')
    <3>1. CommitServer => backend' = backend /\ depth' = 0 /\ Len(stack') = 0   BY <1>a, CommitIs
    <3>4. QED  BY <1>a, <1>g, <2>4, <2>5, <3>1
  <2>7. QED  BY <2>1, <2>2, <2>6, CountedLess
<1>19. CASE DropRecord(s)
  <2>1. UNCHANGED connection /\ pc[s] = "ended" /\ pc' = [pc EXCEPT ![s] = "over"] /\ stmt' = stmt   BY <1>19, DropRecordIs
  <2>2. \A t \in Scopes : On(t) => (On(t))'   BY <2>1, <1>a DEF On
  <2>3. \A t \in Scopes : stmt'[t] = stmt[t]   BY <2>1
  <2>4. backend' = backend /\ depth' = depth /\ stack' = stack   BY <2>1 DEF connection
  <2>5. QED  BY <1>b, <2>2, <2>3, <2>4 DEF Counted
<1>20. CASE Cancel(s)
  <2>1. Busy(s) /\ (pc[s] # "open" \/ Leaf(s)) /\ Moved(s)   BY Zenon, <1>20, <1>a, CancelIs DEF Cancel, Finish, Busy, Moved
  <2>2. AtTip(s)   BY <2>1, TipIs
  <2>3. RollbackServer(1) /\ setting.cancel   BY <1>20, CancelIs
  <2>4. /\ backend' = backend /\ (depth' = 0 \/ (depth' < depth /\ depth > 0))
        /\ Len(stack') <= depth' /\ (backend = "Sqlite" => Len(stack') = depth')
    BY <1>f, <1>g, <2>3
  <2>5. QED  BY <2>1, <2>2, <2>4, CountedLess
<1>21. CASE CancelEnding(s)
  <2>1. Busy(s) /\ (pc[s] # "open" \/ Leaf(s)) /\ Moved(s)   BY Zenon, <1>21, <1>a, CancelEndingIs DEF CancelEnding, Finish, Busy, Moved
  <2>2. AtTip(s)   BY <2>1, TipIs
  <2>3. \A t \in Scopes : stmt[t] # "checking"
    <3>1. pc[s] = "ending"   BY Zenon, <1>21, CancelEndingIs DEF CancelEnding
    <3>2. QED  BY <3>1, Inside
  <2>4. backend = "Sqlite" => Len(stack) = depth   BY <1>e, <2>3
  <2>5. RollbackServer(1) \/ RollbackServer(2) \/ CommitServer   BY Zenon, <1>21, CancelEndingIs DEF CancelEnding
  <2>6. /\ backend' = backend /\ (depth' = 0 \/ (depth' < depth /\ depth > 0))
        /\ Len(stack') <= depth' /\ (backend = "Sqlite" => Len(stack') = depth')
    <3>1. CommitServer => backend' = backend /\ depth' = 0 /\ Len(stack') = 0   BY <1>a, CommitIs
    <3>4. QED  BY <1>a, <1>g, <2>4, <2>5, <3>1
  <2>7. QED  BY <2>1, <2>2, <2>6, CountedLess
<1>22. QED  BY <1>1, <1>2, <1>3, <1>4, <1>5, <1>6, <1>7, <1>8, <1>9, <1>10, <1>11, <1>12, <1>13, <1>14, <1>15, <1>16, <1>17, <1>18, <1>19, <1>20, <1>21 DEF Works

-------------------------------------------------------------------------------
(* What holds of every run with one future per connection at a time        *)

\* The inductive invariant holds at the start.
LEMMA InvInit ==
    ASSUME \A x \in Settings : OneAtATime(x), Init
    PROVE  InOrder /\ Mirrored /\ Accounted
<1>1. \A s \in Scopes : ~On(s) /\ stmt[s] = "none" /\ pc[s] # "ending" /\ undo[s] = {}   BY DEF Init, On
<1>2. stack = <<>> /\ durable = {} /\ memory = {}   BY Zenon DEF Init, InitConnection
<1>3. Mirrored   BY <1>1 DEF Mirrored, Innermost
<1>4. Accounted
  <2>1. 1..Len(stack) = {}   BY <1>2
  <2>2. QED  BY <1>1, <1>2, <2>1 DEF Accounted, StackAccounted, DurableAccounted, UndoAccounted, MemoryAccounted
<1>5. QED  BY <1>3, <1>4, InOrderInit

\* Every step preserves the inductive invariant.
LEMMA InvStep ==
    ASSUME InOrder, Mirrored, Accounted, [Next]_vars
    PROVE  (InOrder /\ Mirrored /\ Accounted)'
<1>1. InOrder'   BY InOrderStep
<1>2. CASE Next
  <2>1. setting' = setting /\ \E s \in Scopes : Works(s)   BY <1>2, NextWorks
  <2>2. PICK s \in Scopes : Works(s)   BY <2>1
  <2>3. Mirrored'   BY <2>1, <2>2, MirroredStep
  <2>4. Accounted'   BY <1>1, <2>1, <2>2, AccountedStep
  <2>5. QED  BY <1>1, <2>3, <2>4
<1>3. CASE UNCHANGED vars
  <2>1. Mirrored'
    BY ZenonT(60), <1>3 DEF vars, connection, record, Mirrored, Innermost, Sound, Mirrors, On, Lev, Path, TopFailed, Top
  <2>2. stack' = stack /\ durable' = durable /\ undo' = undo /\ memory' = memory /\ outcome' = outcome /\ setting' = setting
    BY Zenon, <1>3 DEF vars, connection, record
  <2>3. Path' = Path /\ \A x : (Lev(x))' = Lev(x)   BY Zenon, <2>2 DEF Path, Lev
  <2>4. \A w, i : (CommittedBelow(w, i))' <=> CommittedBelow(w, i)   BY Zenon, <2>2, <2>3 DEF CommittedBelow
  <2>5. StackAccounted'   BY Zenon, <2>2, <2>3, <2>4 DEF Accounted, StackAccounted
  <2>6. DurableAccounted'   BY Zenon, <2>2, <2>3, <2>4 DEF Accounted, DurableAccounted
  <2>7. UndoAccounted'   BY Zenon, <2>2, <2>3, <2>4 DEF Accounted, UndoAccounted
  <2>8. MemoryAccounted'   BY Zenon, <2>2, <2>3, <2>4 DEF Accounted, MemoryAccounted
  <2>9. QED  BY <1>1, <2>1, <2>5, <2>6, <2>7, <2>8 DEF Accounted
<1>4. QED  BY <1>2, <1>3

\* The top level of the server is that of the scope it stands for.
LEMMA TopIsItsOwn ==
    ASSUME InOrder, NEW s \in Scopes, Mirrors(s)
    PROVE  Top.scope = s
<1>1. Tree   BY InTree
<1>2. Lev(s) \in Nat /\ Lev(s) >= 1 /\ Path[s][Lev(s)] = s   BY <1>1 DEF Tree
<1>3. depth = Lev(s) /\ Len(stack) = depth /\ \A i \in 1..depth : stack[i].scope = Path[s][i]   BY Zenon DEF Mirrors
<1>4. depth \in 1..depth   BY SMTT(60), <1>2, <1>3
<1>5. QED  BY <1>2, <1>3, <1>4 DEF Top

\* A statement is sent to the server only inside the savepoint or transaction
\* of its own scope, whatever fails, is lost or is cancelled around it: the
\* checks of Executor (ensure_transaction_active, the abort kept by the
\* records) and of TransactionScope are enough, for every number of scopes and
\* statements and every nesting, as long as one future at a time uses the
\* connection and no handle outlives its closure.
THEOREM StatementsAreInside ==
    ASSUME \A x \in Settings : OneAtATime(x)
    PROVE  Spec => []StatementsStayInside
<1>1. Init => InOrder /\ Mirrored /\ Accounted   BY InvInit
<1>2. InOrder /\ Mirrored /\ Accounted /\ [Next]_vars => (InOrder /\ Mirrored /\ Accounted)'   BY InvStep
<1>3. InOrder /\ Mirrored /\ Accounted => StatementsStayInside
  <2>1. SUFFICES ASSUME InOrder, Mirrored, NEW s \in Scopes, stmt[s] = "running"
                 PROVE  stack # <<>> /\ Top.scope = s
    BY DEF StatementsStayInside
  <2>2. Mirrors(s) /\ stack # <<>>   BY <2>1, MirrorsNow
  <2>3. QED  BY <2>1, <2>2, TopIsItsOwn
<1>4. QED  BY <1>1, <1>2, <1>3, PTL DEF Spec

\* A commit releases the savepoint, or commits the transaction, of the scope
\* that commits and never another one, though the driver only counts how many
\* are open (TransactionScope::end, Executor::begin).
THEOREM CommitsAreItsOwn ==
    ASSUME \A x \in Settings : OneAtATime(x)
    PROVE  Spec => []CommitsItsOwn
<1>1. Init => InOrder /\ Mirrored /\ Accounted   BY InvInit
<1>2. InOrder /\ Mirrored /\ Accounted /\ [Next]_vars => (InOrder /\ Mirrored /\ Accounted)'   BY InvStep
<1>3. InOrder /\ Mirrored /\ Accounted => CommitsItsOwn
  <2>1. SUFFICES ASSUME InOrder, Mirrored, NEW s \in Scopes, pc[s] = "ending", kind[s] = "commit"
                 PROVE  stack # <<>> /\ Top.scope = s
    BY DEF CommitsItsOwn
  <2>2. aborted[s] = "none"   BY <2>1 DEF InOrder, Records, RecordFits
  <2>3. Mirrors(s) /\ stack # <<>>   BY <2>1, <2>2, MirrorsNow
  <2>4. QED  BY <2>1, <2>3, TopIsItsOwn
<1>4. QED  BY <1>1, <1>2, <1>3, PTL DEF Spec

\* An undo step is held by a transaction that has not committed; those
\* between it and the write have, those around it are open.
LEMMA UndoIsHeld ==
    ASSUME InOrder, Accounted, NEW h \in Scopes, NEW w \in undo[h], NEW j \in 1..Lev(w[1])
    PROVE  /\ j > Lev(h) => outcome[Path[w[1]][j]] = "ok"
           /\ j < Lev(h) => pc[Path[w[1]][j]] = "open"
           /\ j = Lev(h) => Path[w[1]][j] = h
           /\ pc[h] \in {"open", "ending", "ended"} /\ Lev(h) \in Nat /\ Lev(h) >= 1
           /\ pc[h] = "ended" => outcome[h] # "ok"
<1>a. Tree /\ Records /\ OnePath /\ undo \in [Scopes -> SUBSET (Scopes \X Nat)]   BY Zenon, InTree DEF InOrder, TypeOK
<1>1. w[1] \in Scopes   BY <1>a
<1>2. Lev(h) \in Nat /\ Lev(h) >= 1 /\ Lev(w[1]) \in Nat   BY <1>a, <1>1 DEF Tree
<1>3. Lev(h) <= Lev(w[1]) /\ Path[w[1]][Lev(h)] = h /\ CommittedBelow(w, Lev(h))   BY DEF Accounted, UndoAccounted
<1>4. pc[h] \in {"open", "ending", "ended"} /\ (pc[h] = "ended" => outcome[h] # "ok")   BY <1>a DEF Records, RecordFits
<1>5. ASSUME j > Lev(h) PROVE outcome[Path[w[1]][j]] = "ok"
  <2>1. j \in (Lev(h) + 1)..Lev(w[1])   BY <1>2, <1>5
  <2>2. QED  BY <1>3, <2>1 DEF CommittedBelow
<1>6. ASSUME j < Lev(h) PROVE pc[Path[w[1]][j]] = "open"
  <2>1. j \in 1..(Lev(h) - 1) /\ j \in 1..Lev(h) /\ Lev(h) \in 1..Lev(w[1])   BY <1>2, <1>3, <1>6
  <2>a. \A k \in 1..Lev(h) : Path[Path[w[1]][Lev(h)]][k] = Path[w[1]][k]   BY Zenon, <1>a, <1>1, <2>1 DEF Tree
  <2>2. Path[w[1]][j] = Path[h][j]   BY Zenon, <1>3, <2>1, <2>a
  <2>3. pc[Path[h][j]] = "open"   BY <1>a, <1>4, <2>1 DEF OnePath, Busy
  <2>4. QED  BY <2>2, <2>3
<1>7. QED  BY Zenon, <1>2, <1>3, <1>4, <1>5, <1>6

\* Once the outermost transaction has returned Ok, everything the process kept
\* of what it wrote is in the database.
THEOREM OkIsCommitted ==
    ASSUME \A x \in Settings : OneAtATime(x)
    PROVE  Spec => []OkMeansCommitted
<1>1. Init => InOrder /\ Mirrored /\ Accounted   BY InvInit
<1>2. InOrder /\ Mirrored /\ Accounted /\ [Next]_vars => (InOrder /\ Mirrored /\ Accounted)'   BY InvStep
<1>3. InOrder /\ Mirrored /\ Accounted => OkMeansCommitted
  <2>1. SUFFICES ASSUME InOrder, Accounted, NEW w \in memory, outcome[Path[w[1]][1]] = "ok"
                 PROVE  w \in durable
    BY DEF OkMeansCommitted
  <2>a. Tree /\ Records /\ memory \subseteq Scopes \X Nat   BY SMTT(60), <2>1, InTree DEF InOrder, TypeOK
  <2>2. ASSUME NEW h \in Scopes, w \in undo[h] PROVE FALSE
    <3>1. w[1] \in Scopes   BY <2>a
    <3>2. Lev(w[1]) \in Nat /\ Lev(w[1]) >= 1   BY <2>a, <3>1 DEF Tree
    <3>3. 1 \in 1..Lev(w[1])   BY <3>2
    <3>4. Path[w[1]][1] \in Scopes   BY <2>a, <3>1, <3>3 DEF Tree
    <3>5. pc[Path[w[1]][1]] \in {"ended", "over"}   BY <2>1, <2>a, <3>4 DEF Records, RecordFits
    <3>6. /\ 1 < Lev(h) => pc[Path[w[1]][1]] = "open"
          /\ 1 = Lev(h) => Path[w[1]][1] = h
          /\ pc[h] \in {"open", "ending", "ended"} /\ Lev(h) \in Nat /\ Lev(h) >= 1
          /\ pc[h] = "ended" => outcome[h] # "ok"
      BY <2>1, <2>2, <3>3, UndoIsHeld
    <3>7. QED  BY <2>1, <3>5, <3>6
  <2>3. QED  BY <2>1, <2>2 DEF Accounted, MemoryAccounted
<1>4. QED  BY <1>1, <1>2, <1>3, PTL DEF Spec

\* Nothing is in the database that a scope wrote and did not commit; only the
\* COMMIT of the outermost one may have an outcome nobody was told.
THEOREM DurableIsCommitted ==
    ASSUME \A x \in Settings : OneAtATime(x)
    PROVE  Spec => []OnlyCommittedIsDurable
<1>1. Init => InOrder /\ Mirrored /\ Accounted   BY InvInit
<1>2. InOrder /\ Mirrored /\ Accounted /\ [Next]_vars => (InOrder /\ Mirrored /\ Accounted)'   BY InvStep
<1>3. InOrder /\ Mirrored /\ Accounted => OnlyCommittedIsDurable
  <2>1. SUFFICES ASSUME InOrder, Accounted, NEW w \in durable, NEW t \in Scopes, Within(w[1], t)
                 PROVE  outcome[t] = "ok" \/ (outcome[t] = "unknown" /\ ~Nested(t))
    BY DEF OnlyCommittedIsDurable
  <2>a. Tree /\ durable \subseteq Scopes \X Nat   BY Zenon, <2>1, InTree DEF InOrder, TypeOK
  <2>2. PICK i \in 1..Lev(w[1]) : Path[w[1]][i] = t   BY <2>1 DEF Within, Lev
  <2>3. w[1] \in Scopes   BY <2>a
  <2>4. Lev(t) = i /\ Lev(w[1]) \in Nat   BY <2>a, <2>2, <2>3 DEF Tree
  <2>5. CommittedBelow(w, 1) /\ outcome[Path[w[1]][1]] \in {"ok", "unknown"}   BY Zenon, <2>1 DEF Accounted, DurableAccounted
  <2>6. CASE i = 1
    <3>1. ~Nested(t)   BY <2>4, <2>6 DEF Nested, Lev
    <3>2. QED  BY <2>2, <2>5, <2>6, <3>1
  <2>7. CASE i # 1
    <3>1. i \in (1 + 1)..Lev(w[1])   BY <2>4, <2>7
    <3>2. QED  BY Zenon, <2>2, <2>5, <3>1 DEF CommittedBelow
  <2>8. QED  BY <2>6, <2>7
<1>4. QED  BY <1>1, <1>2, <1>3, PTL DEF Spec

\* What a scope that did not commit changed in memory is undone once it is
\* over, and the connection goes back to the pool with no transaction open.
\* (On SQLite the second part needs that no future is dropped: a check for a
\* lost transaction dropped part way leaves the driver's count up.)
THEOREM NothingIsLeft ==
    ASSUME \A x \in Settings : OneAtATime(x) /\ ("Sqlite" \in x.backends => ~x.cancel)
    PROVE  Spec => []LeavesNothing
<1>1. Init => InOrder /\ Mirrored /\ Accounted /\ Counted
  <2>1. SUFFICES ASSUME Init PROVE InOrder /\ Mirrored /\ Accounted /\ Counted   OBVIOUS
  <2>2. InOrder /\ Mirrored /\ Accounted   BY <2>1, InvInit
  <2>3. depth = 0 /\ Len(stack) = 0 /\ (backend = "Sqlite" => ~setting.cancel)   BY <2>1 DEF Init, InitConnection
  <2>4. QED  BY <2>2, <2>3 DEF Counted
<1>2. InOrder /\ Mirrored /\ Accounted /\ Counted /\ [Next]_vars => (InOrder /\ Mirrored /\ Accounted /\ Counted)'
  <2>1. SUFFICES ASSUME InOrder, Mirrored, Accounted, Counted, [Next]_vars
                 PROVE  (InOrder /\ Mirrored /\ Accounted /\ Counted)'
    OBVIOUS
  <2>2. (InOrder /\ Mirrored /\ Accounted)'   BY <2>1, InvStep
  <2>3. CASE Next
    <3>1. setting' = setting /\ \E s \in Scopes : Works(s)   BY <2>1, <2>3, NextWorks
    <3>2. PICK s \in Scopes : Works(s)   BY <3>1
    <3>3. Counted'   BY <2>1, <2>2, <3>1, <3>2, CountedStep
    <3>4. QED  BY <2>2, <3>3
  <2>4. CASE UNCHANGED vars
    <3>1. Counted'   BY <2>1, <2>4 DEF vars, connection, Counted, On, Lev, Path
    <3>2. QED  BY <2>2, <3>1
  <2>5. QED  BY <2>1, <2>3, <2>4
<1>3. InOrder /\ Mirrored /\ Accounted /\ Counted => LeavesNothing
  <2>1. SUFFICES ASSUME InOrder, Accounted, Counted PROVE LeavesNothing   OBVIOUS
  <2>a. Tree /\ Records /\ memory \subseteq Scopes \X Nat /\ depth \in Nat /\ stack \in Seq(Levels)
    BY Zenon, <2>1, InTree DEF InOrder, TypeOK
  <2>2. ASSUME NEW w \in memory, NEW t \in Scopes, Within(w[1], t), pc[t] = "over"
        PROVE  outcome[t] = "ok"
    <3>1. PICK j \in 1..Lev(w[1]) : Path[w[1]][j] = t   BY <2>2 DEF Within, Lev
    <3>2. CASE CommittedBelow(w, 0)
      <4>1. j \in (0 + 1)..Lev(w[1])   BY <3>1
      <4>2. QED  BY <3>1, <3>2, <4>1 DEF CommittedBelow
    <3>3. ASSUME NEW h \in Scopes, w \in undo[h] PROVE outcome[t] = "ok"
      <4>1. /\ j > Lev(h) => outcome[t] = "ok"
            /\ j < Lev(h) => pc[t] = "open"
            /\ j = Lev(h) => t = h
            /\ pc[h] \in {"open", "ending", "ended"} /\ Lev(h) \in Nat
        BY SMTT(60), <2>1, <3>1, <3>3, UndoIsHeld
      <4>2. QED  BY <2>2, <3>1, <4>1
    <3>4. QED  BY Zenon, <2>1, <2>2, <3>2, <3>3 DEF Accounted, MemoryAccounted
  <2>3. ASSUME \A s \in Scopes : ~Alive(s) PROVE depth = 0 /\ stack = <<>>
    <3>1. \A s \in Scopes : ~On(s)   BY <2>3 DEF Alive, On
    <3>2. depth = 0   BY <2>1, <2>a, <3>1 DEF Counted
    <3>3. Len(stack) = 0   BY <2>1, <2>a, <3>2 DEF Counted
    <3>4. QED  BY <2>a, <3>2, <3>3, EmptySeq
  <2>4. QED  BY <2>2, <2>3 DEF LeavesNothing
<1>4. QED  BY <1>1, <1>2, <1>3, PTL DEF Spec
===============================================================================
