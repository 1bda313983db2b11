--------------------------- MODULE TransactionsStack ---------------------------
(***************************************************************************)
(* The server's stack mirrors the path of the innermost scope, unless that *)
(* scope is aborted, or one that has just ended is about to hand its abort *)
(* on: each level belongs to the scope at that place and holds what its    *)
(* record would undo.                                                      *)
(***************************************************************************)
EXTENDS TransactionsInOrder

\* The stack is the path of c, each level with what the record there would undo.
Mirrors(c) ==
    /\ depth = Lev(c) /\ Len(stack) = depth
    /\ \A i \in 1..depth : /\ stack[i].scope = Path[c][i]
                           /\ undo[Path[c][i]] \subseteq stack[i].writes
                           /\ stack[i].failed => statement_failed[Path[c][i]]

Sound(c) == aborted[c] = "none" /\ \A t \in Scopes : pc[t] = "ended" => aborted[t] = "none"

Mirrored ==
    /\ \A c \in Scopes : Innermost(c) /\ Sound(c) => Mirrors(c)
    /\ \A s \in Scopes : stmt[s] = "checking" => depth = Lev(s) /\ (stack = <<>> \/ Mirrors(s))
    /\ \A s \in Scopes : pc[s] = "ending" /\ kind[s] = "commit" => ~TopFailed

\* All others at work are open and enclose s.
AtTip(s) == Busy(s) /\ \A t \in Scopes : Busy(t) /\ t # s => pc[t] = "open" /\ Lev(t) < Lev(s)

\* A busy scope that is not open, or that has none inside it, is at the tip
\* of the path.
LEMMA TipIs ==
    ASSUME InOrder, NEW s \in Scopes, Busy(s), pc[s] # "open" \/ Leaf(s)
    PROVE  /\ AtTip(s)
           /\ \A t \in Scopes : pc[t] = "ended" => t = s
           /\ On(s) => Innermost(s)
<1>a. Tree /\ OnePath   BY InTree DEF InOrder
<1>1. ASSUME NEW t \in Scopes, Busy(t) PROVE Lev(t) <= Lev(s)
  BY <1>a, <1>1, NotOpenIsInnermost DEF Leaf
<1>2. ASSUME NEW t \in Scopes, Busy(t), t # s PROVE pc[t] = "open" /\ Lev(t) < Lev(s)
  BY <1>a, <1>1, <1>2, Below
<1>3. QED  BY <1>1, <1>2 DEF AtTip, Innermost, On, Busy

\* With s gone, the scope around it is the innermost.
LEMMA NextInnermost ==
    ASSUME InOrder, setting' = setting, NEW s \in Scopes, AtTip(s), Moved(s), ~(On(s))',
           NEW c \in Scopes, (Innermost(c))'
    PROVE  Nested(s) /\ c = Parent(s) /\ Lev(c) = Lev(s) - 1 /\ c # s /\ On(c)
<1>a. Tree /\ OnePath   BY InTree DEF InOrder
<1>b. \A t : (Lev(t))' = Lev(t)   BY SamePath
<1>1. (On(c))' /\ \A t \in Scopes : (On(t))' => Lev(t) <= Lev(c)   BY <1>b DEF Innermost
<1>2. c # s   BY <1>1
<1>3. On(c)   BY <1>1, <1>2 DEF On, Moved
<1>4. Busy(c)   BY <1>3 DEF On, Busy
<1>5. Lev(c) < Lev(s) /\ Lev(c) \in Nat /\ Lev(c) >= 1 /\ Lev(s) \in Nat   BY <1>2, <1>4, <1>a DEF AtTip, Tree
<1>6. Nested(s)   BY <1>5 DEF Nested, Lev
<1>7. PICK p : p = Parent(s)   OBVIOUS
<1>8. p \in Scopes /\ Lev(p) = Lev(s) - 1 /\ p = Path[s][Lev(s) - 1]   BY <1>6, <1>7, <1>a DEF Tree
<1>9. p # s /\ Lev(s) - 1 \in 1..(Lev(s) - 1)   BY <1>5, <1>8
<1>10. pc[p] = "open"   BY <1>8, <1>9, <1>a DEF OnePath, AtTip
<1>11. (On(p))'   BY <1>8, <1>9, <1>10 DEF On, Moved
<1>12. Lev(c) = Lev(p)   BY <1>1, <1>5, <1>8, <1>11
<1>13. Busy(p)   BY <1>10 DEF Busy
<1>14. c = p   BY <1>4, <1>8, <1>12, <1>13, <1>a DEF OnePath
<1>15. QED  BY <1>2, <1>3, <1>6, <1>7, <1>8, <1>14

\* The path of the scope around s is that of s without its end.
LEMMA ParentPath ==
    ASSUME Tree, NEW s \in Scopes, Nested(s)
    PROVE  /\ Parent(s) \in Scopes /\ Lev(Parent(s)) = Lev(s) - 1 /\ Lev(s) > 1 /\ Lev(s) \in Nat
           /\ Path[s][Lev(s)] = s
           /\ \A i \in 1..(Lev(s) - 1) : /\ Path[Parent(s)][i] = Path[s][i]
                                         /\ Path[s][i] \in Scopes /\ Path[s][i] # s
<1>1. /\ Parent(s) \in Scopes /\ Lev(Parent(s)) = Lev(s) - 1 /\ Lev(s) > 1 /\ Lev(s) \in Nat
      /\ Path[s][Lev(s)] = s /\ Parent(s) = Path[s][Lev(s) - 1]
  BY DEF Tree
<1>2. ASSUME NEW i \in 1..(Lev(s) - 1)
      PROVE  Path[Parent(s)][i] = Path[s][i] /\ Path[s][i] \in Scopes /\ Path[s][i] # s
  <2>1. i \in 1..Lev(s) /\ Lev(s) - 1 \in 1..Lev(s)   BY <1>1
  <2>2. Path[s][i] \in Scopes /\ Lev(Path[s][i]) = i   BY <2>1 DEF Tree
  <2>3. Path[Parent(s)][i] = Path[s][i]   BY SMTT(60), <1>1, <2>1 DEF Tree
  <2>4. QED  BY <1>1, <2>1, <2>2, <2>3
<1>3. QED  BY <1>1, <1>2

\* Rolling back its savepoint leaves the stack of the scope around it.
LEMMA RollbackMirrors ==
    ASSUME InOrder, setting' = setting, NEW s \in Scopes, Nested(s), Mirrors(s), RollbackServer(1),
           NEW p \in Scopes, p = Parent(s),
           \A t \in Scopes : t # s => undo'[t] = undo[t], statement_failed' = statement_failed
    PROVE  (Mirrors(p))'
<1>a. Tree /\ stack \in Seq(Levels) /\ depth \in Nat   BY Zenon, InTree DEF InOrder, TypeOK
<1>b. Path' = Path /\ \A t : (Lev(t))' = Lev(t)   BY SamePath
<1>2. /\ Lev(p) = Lev(s) - 1 /\ Lev(s) > 1 /\ Lev(s) \in Nat
      /\ \A i \in 1..(Lev(s) - 1) : Path[p][i] = Path[s][i] /\ Path[s][i] \in Scopes /\ Path[s][i] # s
  BY <1>a, ParentPath
<1>3. depth = Lev(s) /\ Len(stack) = depth   BY DEF Mirrors
<1>4. depth' = depth - 1 /\ Len(stack') = depth' /\ \A i \in 1..Len(stack') : stack'[i] = stack[i]
  BY <1>a, <1>2, <1>3, RollbackIs
<1>5. ASSUME NEW i \in 1..depth'
      PROVE  /\ stack'[i].scope = Path[p][i] /\ undo'[Path[p][i]] \subseteq stack'[i].writes
             /\ stack'[i].failed => statement_failed'[Path[p][i]]
  <2>1. i \in 1..depth /\ i \in 1..(Lev(s) - 1) /\ i \in 1..Len(stack')   BY <1>2, <1>3, <1>4
  <2>2. stack'[i] = stack[i] /\ Path[p][i] = Path[s][i] /\ Path[s][i] # s /\ Path[s][i] \in Scopes
    BY <1>2, <1>4, <2>1
  <2>3. QED  BY <2>1, <2>2 DEF Mirrors
<1>6. QED  BY <1>b, <1>2, <1>3, <1>4, <1>5 DEF Mirrors

\* When a nested transaction is released, the server's levels stand for its
\* parent as they stood for it.
LEMMA ReleaseMirrors ==
    ASSUME InOrder, setting' = setting, NEW s \in Scopes, Nested(s), Mirrors(s), ReleaseServer,
           NEW p \in Scopes, p = Parent(s),
           \A t \in Scopes : t # s => undo'[t] = IF t = p THEN undo[t] \cup undo[s] ELSE undo[t],
           statement_failed' = statement_failed
    PROVE  (Mirrors(p))'
<1>a. Tree /\ stack \in Seq(Levels) /\ depth \in Nat   BY Zenon, InTree DEF InOrder, TypeOK
<1>b. Path' = Path /\ \A t : (Lev(t))' = Lev(t)   BY SamePath
<1>2. /\ Lev(p) = Lev(s) - 1 /\ Lev(s) > 1 /\ Lev(s) \in Nat /\ Path[s][Lev(s)] = s
      /\ \A i \in 1..(Lev(s) - 1) : Path[p][i] = Path[s][i] /\ Path[s][i] \in Scopes /\ Path[s][i] # s
  BY <1>a, ParentPath
<1>3. depth = Lev(s) /\ Len(stack) = depth   BY DEF Mirrors
<1>4. /\ depth' = depth - 1 /\ Len(stack') = depth - 1
      /\ \A i \in 1..(depth - 1) :
            /\ stack'[i].scope = stack[i].scope /\ stack'[i].failed = stack[i].failed
            /\ stack'[i].writes = IF i < depth - 1 THEN stack[i].writes
                                  ELSE stack[i].writes \cup stack[depth].writes
  BY Zenon, <1>a, <1>2, <1>3, ReleaseIs
<1>5. undo[s] \subseteq stack[depth].writes   BY <1>2, <1>3 DEF Mirrors
<1>6. ASSUME NEW i \in 1..depth'
      PROVE  /\ stack'[i].scope = Path[p][i] /\ undo'[Path[p][i]] \subseteq stack'[i].writes
             /\ stack'[i].failed => statement_failed'[Path[p][i]]
  <2>1. i \in 1..depth /\ i \in 1..(Lev(s) - 1) /\ i \in 1..(depth - 1)   BY <1>2, <1>3, <1>4
  <2>2. Path[p][i] = Path[s][i] /\ Path[s][i] # s /\ Path[s][i] \in Scopes   BY <1>2, <2>1
  <2>3. stack[i].scope = Path[p][i] /\ undo[Path[p][i]] \subseteq stack[i].writes
        /\ (stack[i].failed => statement_failed[Path[p][i]])
    BY <2>1, <2>2 DEF Mirrors
  <2>4. i = depth - 1 \/ Path[p][i] # p
    <3>1. Lev(Path[s][i]) = i   BY <1>2, <2>1, <1>a DEF Tree
    <3>2. QED  BY <1>2, <1>3, <2>2, <3>1
  <2>5. undo'[Path[p][i]] = IF Path[p][i] = p THEN undo[Path[p][i]] \cup undo[s] ELSE undo[Path[p][i]]
    BY <2>2
  <2>6. CASE i = depth - 1
    <3>0. ~(i < depth - 1)   BY <2>6, <1>a
    <3>1. stack'[i].writes = stack[i].writes \cup stack[depth].writes   BY Zenon, <1>4, <2>1, <3>0
    <3>2. QED  BY Zenon, <1>4, <1>5, <2>1, <2>3, <2>5, <3>1
  <2>7. CASE i # depth - 1
    <3>1. i < depth - 1   BY <2>1, <2>7, <1>a
    <3>2. QED  BY Zenon, <1>4, <2>1, <2>3, <2>4, <2>5, <2>7, <3>1
  <2>8. QED  BY <2>6, <2>7
<1>7. QED  BY <1>b, <1>2, <1>3, <1>4, <1>6 DEF Mirrors

\* A scope that runs a statement, or commits, finds its own path on the server.
LEMMA MirrorsNow ==
    ASSUME InOrder, Mirrored, NEW s \in Scopes,
           \/ stmt[s] = "running"
           \/ pc[s] = "ending" /\ aborted[s] = "none"
           \/ pc[s] = "open" /\ aborted[s] = "none" /\ Leaf(s)
    PROVE  Mirrors(s) /\ stack # <<>> /\ Innermost(s)
<1>a. Tree /\ Records /\ stack \in Seq(Levels)   BY Zenon, InTree DEF InOrder, TypeOK
<1>1. Innermost(s) /\ Sound(s)
  <2>1. CASE stmt[s] = "running"   BY Zenon, <1>a, <2>1, Inside DEF Sound, Records, RecordFits
  <2>2. CASE pc[s] = "ending" /\ aborted[s] = "none"
    <3>1. Busy(s) /\ On(s)   BY Zenon, <2>2 DEF Busy, On
    <3>2. QED  BY Zenon, <2>2, <3>1, TipIs DEF Sound
  <2>3. CASE pc[s] = "open" /\ aborted[s] = "none" /\ Leaf(s)
    <3>1. Busy(s) /\ On(s)   BY <2>3 DEF Busy, On
    <3>2. QED  BY <2>3, <3>1, TipIs DEF Sound
  <2>4. QED  BY <2>1, <2>2, <2>3
<1>2. Mirrors(s)   BY <1>1 DEF Mirrored
<1>3. Len(stack) # 0   BY <1>2, <1>a DEF Mirrors, Tree
<1>4. QED  BY Zenon, <1>1, <1>2, <1>3, EmptySeq

\* Two innermost scopes are one.
LEMMA OneInnermost ==
    ASSUME InOrder, NEW s \in Scopes, Innermost(s), NEW c \in Scopes, Innermost(c)
    PROVE  c = s
<1>a. Tree /\ OnePath   BY InTree DEF InOrder
<1>1. Busy(s) /\ Busy(c) /\ Lev(s) <= Lev(c) /\ Lev(c) <= Lev(s)   BY DEF Innermost, On, Busy
<1>2. Lev(s) = Lev(c)   BY <1>1, <1>a DEF Tree
<1>3. QED  BY <1>1, <1>2, <1>a DEF OnePath

\* Nothing that Mirrored speaks of changes.
LEMMA MirroredStays ==
    ASSUME Mirrored, setting' = setting, UNCHANGED <<depth, stack, undo, statement_failed, aborted, kind>>,
           \A t \in Scopes : /\ pc'[t] \in {"open", "ending", "ended"} \/ pc[t] \in {"open", "ending", "ended"} => pc'[t] = pc[t]
                             /\ stmt'[t] = "checking" => stmt[t] = "checking"
    PROVE  Mirrored'
<1>1. Path' = Path /\ \A t : (Lev(t))' = Lev(t)   BY SamePath
<1>2. \A c \in Scopes : (Mirrors(c))' <=> Mirrors(c)   BY <1>1 DEF Mirrors
<1>3. \A c \in Scopes : (Innermost(c))' => Innermost(c)   BY <1>1 DEF Innermost, On
<1>4. \A c \in Scopes : (Sound(c))' => Sound(c)   BY DEF Sound
<1>5. TopFailed' = TopFailed   BY DEF TopFailed, Top
<1>6. \A t \in Scopes : pc'[t] = "ending" => pc[t] = "ending"   OBVIOUS
<1>7. QED  BY <1>1, <1>2, <1>3, <1>4, <1>5, <1>6 DEF Mirrored

\* After a step that leaves no statement checked and nothing committing, the
\* innermost scope is what Mirrored is about.
LEMMA MirroredAgain ==
    ASSUME \A c \in Scopes : (Innermost(c))' /\ (Sound(c))' => (Mirrors(c))',
           \A t \in Scopes : stmt'[t] # "checking" /\ pc'[t] # "ending"
    PROVE  Mirrored'
  BY DEF Mirrored

\* Mirrored is kept.
LEMMA MirroredStep ==
    ASSUME InOrder, Mirrored, setting' = setting, NEW s \in Scopes, Works(s)
    PROVE  Mirrored'
<1>a. /\ InOrder /\ Tree /\ Records /\ TypeOK /\ stack \in Seq(Levels) /\ depth \in Nat
      /\ pc \in [Scopes -> {"unused", "waiting", "queued", "starting", "open", "ending", "ended", "over"}]
      /\ stmt \in [Scopes -> {"none", "running", "checking"}] /\ aborted \in [Scopes -> Reasons]
      /\ undo \in [Scopes -> SUBSET (Scopes \X Nat)] /\ statement_failed \in [Scopes -> BOOLEAN]
  BY Zenon, InTree DEF InOrder, TypeOK
<1>b. Path' = Path /\ \A t : (Lev(t))' = Lev(t)   BY SamePath
<1>c. ~Nested(s) => Parent(s) \notin Scopes   BY <1>a, ScopesAssumption DEF Tree
<1>d. \A c \in Scopes : Lev(c) \in Nat /\ Lev(c) >= 1 /\ Path[c][Lev(c)] = c /\ \A i \in 1..Lev(c) : Path[c][i] \in Scopes /\ Lev(Path[c][i]) = i
  BY <1>a DEF Tree
<1>1. CASE Begin(s)
  <2>1. UNCHANGED <<depth, stack, undo, statement_failed, aborted, kind>>   BY <1>1 DEF Begin, connection, record
  <2>2. \A t \in Scopes :
          /\ pc'[t] \in {"open", "ending", "ended"} \/ pc[t] \in {"open", "ending", "ended"} => pc'[t] = pc[t]
          /\ stmt'[t] = "checking" => stmt[t] = "checking"
    BY <1>1, <1>a DEF Begin
  <2>3. QED  BY <2>1, <2>2, MirroredStays
<1>2. CASE Call(s)
  <2>1. UNCHANGED <<depth, stack, undo, statement_failed, aborted, kind>>   BY <1>2 DEF Call, connection, record
  <2>2. \A t \in Scopes :
          /\ pc'[t] \in {"open", "ending", "ended"} \/ pc[t] \in {"open", "ending", "ended"} => pc'[t] = pc[t]
          /\ stmt'[t] = "checking" => stmt[t] = "checking"
    BY <1>2, <1>a DEF Call
  <2>3. QED  BY <2>1, <2>2, MirroredStays
<1>3. CASE TakeSlot(s)
  <2>1. UNCHANGED <<depth, stack, undo, statement_failed, aborted, kind>>   BY <1>3 DEF TakeSlot, connection, record
  <2>2. \A t \in Scopes :
          /\ pc'[t] \in {"open", "ending", "ended"} \/ pc[t] \in {"open", "ending", "ended"} => pc'[t] = pc[t]
          /\ stmt'[t] = "checking" => stmt[t] = "checking"
    BY <1>3, <1>a DEF TakeSlot
  <2>3. QED  BY <2>1, <2>2, MirroredStays
<1>4. CASE BeginSavepoint(s)
  <2>1. UNCHANGED <<depth, stack, undo, statement_failed, aborted, kind>>   BY <1>4 DEF BeginSavepoint, connection, record
  <2>2. \A t \in Scopes :
          /\ pc'[t] \in {"open", "ending", "ended"} \/ pc[t] \in {"open", "ending", "ended"} => pc'[t] = pc[t]
          /\ stmt'[t] = "checking" => stmt[t] = "checking"
    BY <1>4, <1>a DEF BeginSavepoint
  <2>3. QED  BY <2>1, <2>2, MirroredStays
<1>5. CASE LeaveQueue(s)
  <2>1. UNCHANGED <<depth, stack, undo, statement_failed, aborted, kind>>   BY <1>5 DEF LeaveQueue, connection, record
  <2>2. \A t \in Scopes :
          /\ pc'[t] \in {"open", "ending", "ended"} \/ pc[t] \in {"open", "ending", "ended"} => pc'[t] = pc[t]
          /\ stmt'[t] = "checking" => stmt[t] = "checking"
    BY <1>5, <1>a DEF LeaveQueue
  <2>3. QED  BY <2>1, <2>2, MirroredStays
<1>6. CASE Begun(s)
  <2>1. Busy(s) /\ (pc[s] # "open" \/ Leaf(s)) /\ Moved(s)   BY <1>6, <1>a DEF Begun, Finish, Busy, Moved
  <2>2. AtTip(s) /\ (\A t \in Scopes : pc[t] = "ended" => t = s) /\ (On(s) => Innermost(s))   BY <2>1, TipIs
  <2>3. stmt' = stmt /\ \A t \in Scopes : stmt[t] # "checking"
    <3>1. stmt' = stmt   BY <1>6, <1>a DEF Begun, Finish
    <3>2. CASE pc[s] # "open"
      <4>1. pc[s] \in {"starting", "ending", "ended"}   BY <1>6, <1>a, <3>2 DEF Begun
      <4>2. QED  BY <3>1, <4>1, Inside
    <3>3. CASE pc[s] = "open"   BY <1>6, <1>a, <3>1, <3>3 DEF Begun, GateFree
    <3>4. QED  BY <3>2, <3>3
  <2>4. \A t \in Scopes : t # s => pc'[t] # "ending"   BY <2>1, <2>2 DEF AtTip, Moved, Busy
  <2>5. pc[s] = "starting" /\ pc'[s] = "open" /\ undo' = undo /\ statement_failed' = statement_failed
    BY <1>6, <1>a DEF Begun, record
  <2>6. undo[s] = {}   BY Zenon, <2>5, <1>a DEF Records, RecordFits
  <2>7. \A c \in Scopes : (Innermost(c))' => c = s
    <3>1. ASSUME NEW c \in Scopes, (Innermost(c))', c # s PROVE FALSE
      <4>1. Lev(s) <= Lev(c) /\ On(c)   BY Zenon, <3>1, <2>1, <2>5, <1>b DEF Innermost, On, Moved
      <4>2. Lev(c) < Lev(s)   BY <2>2, <3>1, <4>1 DEF AtTip, On, Busy
      <4>3. QED  BY <4>1, <4>2, <1>d
    <3>2. QED  BY <3>1
  <2>8. (Mirrors(s))'
    <3>1. CASE ~Nested(s)
      <4>1. depth' = 1 /\ Len(stack') = 1 /\ stack'[1] = Level(s)   BY <1>6, <3>1, BeginIs DEF Begun
      <4>2. Lev(s) = 1 /\ Path[s][1] = s   BY <1>a, <3>1, <1>d DEF Tree
      <4>3. QED  BY <1>b, <2>5, <2>6, <4>1, <4>2 DEF Mirrors, Level
    <3>2. CASE Nested(s)
      <4>1. PICK p : p = Parent(s)   OBVIOUS
      <4>2. /\ p \in Scopes /\ Lev(p) = Lev(s) - 1 /\ Lev(s) > 1 /\ Lev(s) \in Nat /\ Path[s][Lev(s)] = s
            /\ \A i \in 1..(Lev(s) - 1) : Path[p][i] = Path[s][i] /\ Path[s][i] \in Scopes /\ Path[s][i] # s
        BY <1>a, <3>2, <4>1, ParentPath
      <4>3. pc[p] = "open" /\ p # s   BY <2>5, <3>2, <4>1, Around
      <4>4. aborted[p] = "none"   BY <2>5, <3>2, <4>1, <1>a DEF Records, RecordFits
      <4>5. Innermost(p)
        <5>1. ASSUME NEW t \in Scopes, On(t) PROVE Lev(t) <= Lev(p)
          <6>1. t # s   BY <5>1, <2>5 DEF On
          <6>2. Lev(t) < Lev(s)   BY <2>2, <5>1, <6>1 DEF AtTip, On, Busy
          <6>3. QED  BY <6>2, <4>2, <1>d
        <5>2. QED  BY <5>1, <4>3 DEF Innermost, On
      <4>6. Mirrors(p)   BY <2>2, <2>5, <4>2, <4>4, <4>5 DEF Mirrored, Sound
      <4>7. depth = Lev(s) - 1 /\ Len(stack) = depth /\ stack # <<>>
        <5>1. depth = Lev(s) - 1 /\ Len(stack) = depth   BY <4>2, <4>6 DEF Mirrors
        <5>2. QED  BY <5>1, <4>2, EmptySeq
      <4>8. /\ depth' = depth + 1 /\ Len(stack') = Len(stack) + 1
            /\ \A i \in 1..Len(stack) : stack'[i] = stack[i]
            /\ stack'[Len(stack) + 1] = Level(s)
        BY <1>6, <1>a, <3>2, <4>7, SavepointIs DEF Begun
      <4>9. ASSUME NEW i \in 1..depth'
            PROVE  /\ stack'[i].scope = Path[s][i] /\ undo[Path[s][i]] \subseteq stack'[i].writes
                   /\ stack'[i].failed => statement_failed[Path[s][i]]
        <5>1. CASE i = depth + 1
          <6>1. stack'[i] = Level(s) /\ Path[s][i] = s   BY <4>2, <4>7, <4>8, <5>1
          <6>2. QED  BY <2>6, <6>1 DEF Level
        <5>2. CASE i # depth + 1
          <6>1. i \in 1..depth /\ i \in 1..Len(stack) /\ i \in 1..(Lev(s) - 1)   BY <4>7, <4>8, <5>2, <1>a
          <6>2. stack'[i] = stack[i] /\ Path[p][i] = Path[s][i]   BY Zenon, <4>2, <4>8, <6>1
          <6>3. QED  BY <4>6, <6>1, <6>2 DEF Mirrors
        <5>3. QED  BY Zenon, <5>1, <5>2
      <4>10. depth' = Lev(s) /\ Len(stack') = depth'   BY <4>2, <4>7, <4>8
      <4>11. QED  BY <1>b, <2>5, <4>9, <4>10 DEF Mirrors
    <3>3. QED  BY <3>1, <3>2
  <2>9. QED  BY <2>3, <2>4, <2>5, <2>7, <2>8, MirroredAgain
<1>7. CASE \E o \in {"err", "cancelled"} : BeginFails(s, o)
  <2>1. Busy(s) /\ (pc[s] # "open" \/ Leaf(s)) /\ Moved(s)   BY <1>7, <1>a DEF BeginFails, Finish, Busy, Moved
  <2>2. AtTip(s) /\ (\A t \in Scopes : pc[t] = "ended" => t = s) /\ (On(s) => Innermost(s))   BY <2>1, TipIs
  <2>3. stmt' = stmt /\ \A t \in Scopes : stmt[t] # "checking"
    <3>1. stmt' = stmt   BY <1>7, <1>a DEF BeginFails, Finish
    <3>2. CASE pc[s] # "open"
      <4>1. pc[s] \in {"starting", "ending", "ended"}   BY <1>7, <1>a, <3>2 DEF BeginFails
      <4>2. QED  BY <3>1, <4>1, Inside
    <3>3. CASE pc[s] = "open"   BY <1>7, <1>a, <3>1, <3>3 DEF BeginFails, GateFree
    <3>4. QED  BY <3>2, <3>3
  <2>4. \A t \in Scopes : t # s => pc'[t] # "ending"   BY <2>1, <2>2 DEF AtTip, Moved, Busy
  <2>5. pc'[s] \in {"ended", "over"}   BY <1>7, <1>a DEF BeginFails, Finish
  <2>6. ~(On(s))'   BY <2>5 DEF On
  <2>7. ASSUME NEW c \in Scopes, (Innermost(c))' PROVE ~(Sound(c))'
    <3>1. Nested(s) /\ c = Parent(s)   BY <2>2, <2>1, <2>6, <2>7, NextInnermost
    <3>2. aborted' = Aborted(aborted, Parent(s), "Savepoint")   BY <1>7 DEF BeginFails
    <3>3. aborted'[c] # "none"   BY <1>a, <3>1, <3>2, AbortedIs
    <3>4. QED  BY <3>3 DEF Sound
  <2>8. QED  BY <2>3, <2>4, <2>5, <2>7, MirroredAgain
<1>8. CASE Statement(s)
  <2>1. UNCHANGED <<depth, stack, undo, statement_failed, aborted, kind>>   BY <1>8 DEF Statement, connection, record
  <2>2. \A t \in Scopes :
          /\ pc'[t] \in {"open", "ending", "ended"} \/ pc[t] \in {"open", "ending", "ended"} => pc'[t] = pc[t]
          /\ stmt'[t] = "checking" => stmt[t] = "checking"
    BY <1>8, <1>a DEF Statement
  <2>3. QED  BY Zenon, <2>1, <2>2, MirroredStays
<1>9. CASE Succeeds(s)
  <2>1. stmt[s] = "running"   BY <1>9 DEF Succeeds
  <2>2. /\ Innermost(s) /\ pc' = pc /\ \A t \in Scopes : pc[t] \notin {"starting", "ending", "ended"}
        /\ \A t \in Scopes : t # s => stmt'[t] = "none"
    BY <1>9, <2>1, <1>a, Inside DEF Succeeds, Noted
  <2>3. \A c \in Scopes : (Innermost(c))' => c = s
    <3>1. \A c \in Scopes : (Innermost(c))' => Innermost(c)   BY <2>2, <1>b DEF Innermost, On
    <3>2. QED  BY <2>2, <3>1, OneInnermost
  <2>4. Mirrors(s) /\ stack # <<>>   BY <2>1, MirrorsNow
  <2>5. depth = Lev(s) /\ Len(stack) = depth /\ depth \in 1..depth   BY <2>4, <1>d DEF Mirrors
  <2>6. stmt' = [stmt EXCEPT ![s] = "none"] /\ undo' = [undo EXCEPT ![s] = @ \cup {LastWrite(s)}]
        /\ statement_failed' = statement_failed
    BY <1>9 DEF Succeeds
  <2>7. /\ depth' = depth /\ Len(stack') = Len(stack)
        /\ \A i \in 1..Len(stack) :
              /\ stack'[i].scope = stack[i].scope /\ stack'[i].failed = stack[i].failed
              /\ stack'[i].writes = IF i = Len(stack) THEN stack[i].writes \cup {LastWrite(s)} ELSE stack[i].writes
    BY Zenon, <1>9, <1>a, <2>4, LastWriteIs, WriteIs DEF Succeeds
  <2>8. ASSUME NEW i \in 1..depth
        PROVE  /\ stack'[i].scope = Path[s][i] /\ undo'[Path[s][i]] \subseteq stack'[i].writes
               /\ stack'[i].failed => statement_failed'[Path[s][i]]
    <3>1. /\ stack[i].scope = Path[s][i] /\ undo[Path[s][i]] \subseteq stack[i].writes
          /\ stack[i].failed => statement_failed[Path[s][i]]
      BY <2>4 DEF Mirrors
    <3>2. Path[s][i] \in Scopes /\ Lev(Path[s][i]) = i   BY <1>d, <2>5
    <3>3. CASE i = depth
      <4>1. Path[s][i] = s   BY <1>d, <2>5, <3>3
      <4>2. undo'[s] = undo[s] \cup {LastWrite(s)}   BY <1>a, <2>6
      <4>3. stack'[i].scope = stack[i].scope /\ stack'[i].failed = stack[i].failed
            /\ stack'[i].writes = stack[i].writes \cup {LastWrite(s)}
        BY Zenon, <2>5, <2>7, <3>3
      <4>4. QED  BY <2>6, <3>1, <4>1, <4>2, <4>3
    <3>4. CASE i # depth
      <4>1. Path[s][i] # s   BY <2>5, <3>2, <3>4
      <4>2. QED  BY Zenon, <1>a, <2>5, <2>6, <2>7, <3>1, <3>2, <3>4, <4>1
    <3>5. QED  BY Zenon, <3>3, <3>4
  <2>9. (Mirrors(s))'   BY Zenon, <1>b, <2>5, <2>7, <2>8 DEF Mirrors
  <2>10. QED  BY <1>a, <2>2, <2>3, <2>6, <2>9, MirroredAgain
<1>10. CASE Fails(s)
  <2>1. stmt[s] = "running"   BY <1>10 DEF Fails
  <2>2. /\ Innermost(s) /\ pc' = pc /\ \A t \in Scopes : pc[t] \notin {"starting", "ending", "ended"}
        /\ \A t \in Scopes : t # s => stmt'[t] = "none"
    BY <1>10, <2>1, <1>a, Inside DEF Fails, Noted
  <2>3. \A c \in Scopes : (Innermost(c))' => c = s
    <3>1. \A c \in Scopes : (Innermost(c))' => Innermost(c)   BY <2>2, <1>b DEF Innermost, On
    <3>2. QED  BY <2>2, <3>1, OneInnermost
  <2>4. Mirrors(s) /\ stack # <<>>   BY <2>1, MirrorsNow
  <2>5. depth = Lev(s) /\ Len(stack) = depth /\ depth \in 1..depth   BY <2>4, <1>d DEF Mirrors
  <2>6. undo' = undo /\ statement_failed' = [statement_failed EXCEPT ![s] = TRUE]
    BY <1>10 DEF Fails, Noted
  <2>7. /\ depth' = depth /\ Len(stack') = Len(stack)
        /\ \A i \in 1..Len(stack) :
              /\ stack'[i].scope = stack[i].scope /\ stack'[i].writes = stack[i].writes
              /\ stack'[i].failed => stack[i].failed \/ i = Len(stack)
    BY <1>10, <1>a, FailIs DEF Fails
  <2>8. ASSUME NEW i \in 1..depth
        PROVE  stack'[i].failed => statement_failed'[Path[s][i]]
    <3>1. (stack[i].failed => statement_failed[Path[s][i]]) /\ Path[s][i] \in Scopes
      BY <2>4, <2>5, <1>d DEF Mirrors
    <3>2. i = depth => Path[s][i] = s   BY <1>d, <2>5
    <3>3. QED  BY <1>a, <2>5, <2>6, <2>7, <3>1, <3>2
  <2>9. (Mirrors(s))'   BY <1>b, <2>4, <2>5, <2>6, <2>7, <2>8 DEF Mirrors
  <2>10. \A t \in Scopes : stmt'[t] = "checking" => t = s   BY <2>2
  <2>11. QED  BY Zenon, <1>b, <2>2, <2>3, <2>5, <2>7, <2>9, <2>10 DEF Mirrored
<1>11. CASE LosesTransaction(s)
  <2>1. stmt[s] = "running"   BY <1>11 DEF LosesTransaction
  <2>2. /\ Innermost(s) /\ pc' = pc /\ \A t \in Scopes : pc[t] \notin {"starting", "ending", "ended"}
        /\ \A t \in Scopes : t # s => stmt'[t] = "none"
    BY <1>11, <2>1, <1>a, Inside DEF LosesTransaction, Noted
  <2>3. \A c \in Scopes : (Innermost(c))' => c = s
    <3>1. \A c \in Scopes : (Innermost(c))' => Innermost(c)   BY <2>2, <1>b DEF Innermost, On
    <3>2. QED  BY Zenon, <2>2, <3>1, OneInnermost
  <2>4. Mirrors(s) /\ stack # <<>>   BY <2>1, MirrorsNow
  <2>5. depth = Lev(s) /\ Len(stack) = depth /\ depth \in 1..depth   BY <2>4, <1>d DEF Mirrors
  <2>6. aborted[s] = "none"   BY <2>1, <1>a DEF Records, RecordFits
  <2>7. aborted'[s] # "none"   BY <1>11, <1>a, <2>6 DEF LosesTransaction, Noted, Aborted
  <2>8. \A t \in Scopes : stmt'[t] = "checking" => t = s /\ backend = "Sqlite"
    BY <1>11, <1>a, <2>2 DEF LosesTransaction, Noted
  <2>9. backend = "Sqlite" => depth' = Lev(s) /\ stack' = <<>>   BY <1>11, <2>5 DEF LosesTransaction, LoseServer
  <2>10. \A c \in Scopes : ~((Innermost(c))' /\ (Sound(c))')   BY <2>3, <2>7 DEF Sound
  <2>11. QED  BY Zenon, <1>b, <2>2, <2>8, <2>9, <2>10 DEF Mirrored
<1>12. CASE DropStatement(s)
  <2>1. stmt[s] = "running"   BY <1>12 DEF DropStatement
  <2>2. /\ Innermost(s) /\ pc' = pc /\ \A t \in Scopes : pc[t] \notin {"starting", "ending", "ended"}
        /\ \A t \in Scopes : t # s => stmt'[t] = "none"
    BY <1>12, <2>1, <1>a, Inside DEF DropStatement, Noted
  <2>3. \A c \in Scopes : (Innermost(c))' => c = s
    <3>1. \A c \in Scopes : (Innermost(c))' => Innermost(c)   BY <2>2, <1>b DEF Innermost, On
    <3>2. QED  BY <2>2, <3>1, OneInnermost
  <2>4. Mirrors(s) /\ stack # <<>>   BY Zenon, <2>1, MirrorsNow
  <2>5. depth = Lev(s) /\ Len(stack) = depth /\ depth \in 1..depth   BY <2>4, <1>d DEF Mirrors
  <2>6. stmt' = [stmt EXCEPT ![s] = "none"] /\ undo' = undo /\ statement_failed' = statement_failed
    BY <1>12 DEF DropStatement, record
  <2>7. /\ depth' = depth /\ Len(stack') = Len(stack)
        /\ \A i \in 1..Len(stack) :
              /\ stack'[i].scope = stack[i].scope /\ stack'[i].failed = stack[i].failed
              /\ stack[i].writes \subseteq stack'[i].writes
    <3>1. CASE UNCHANGED connection   BY <3>1 DEF connection
    <3>2. CASE WriteServer(LastWrite(s))   BY Zenon, <3>2, <1>a, <2>4, LastWriteIs, WriteIs
    <3>3. QED  BY <1>12, <3>1, <3>2 DEF DropStatement
  <2>8. (Mirrors(s))'   BY <1>b, <2>4, <2>5, <2>6, <2>7 DEF Mirrors
  <2>9. QED  BY <1>a, <2>2, <2>3, <2>6, <2>8, MirroredAgain
<1>13. CASE SqliteCheck(s)
  <2>1. stmt[s] = "checking"   BY <1>13 DEF SqliteCheck
  <2>2. /\ Innermost(s) /\ pc' = pc /\ \A t \in Scopes : pc[t] \notin {"starting", "ending", "ended"}
        /\ \A t \in Scopes : t # s => stmt'[t] = "none"
    BY <1>13, <2>1, <1>a, Inside DEF SqliteCheck, Noted
  <2>3. \A c \in Scopes : (Innermost(c))' => c = s
    <3>1. \A c \in Scopes : (Innermost(c))' => Innermost(c)   BY <2>2, <1>b DEF Innermost, On
    <3>2. QED  BY <2>2, <3>1, OneInnermost
  <2>4. stmt' = [stmt EXCEPT ![s] = "none"] /\ UNCHANGED <<depth, undo, statement_failed>>   BY <1>13 DEF SqliteCheck
  <2>5. aborted[s] = "SqliteRollback"   BY <2>1, <1>a DEF Records, RecordFits
  <2>6. (Sound(s))' => (Mirrors(s))'
    <3>1. CASE stack # <<>>
      <4>1. stack' = stack   BY <1>13, <3>1 DEF SqliteCheck
      <4>2. Mirrors(s)   BY <2>1, <3>1 DEF Mirrored
      <4>3. QED  BY <1>b, <2>4, <4>1, <4>2 DEF Mirrors
    <3>2. CASE stack = <<>>
      <4>1. aborted' = aborted   BY <1>13, <3>2 DEF SqliteCheck
      <4>2. QED  BY <2>5, <4>1 DEF Sound
    <3>3. QED  BY <3>1, <3>2
  <2>7. QED  BY <1>a, <2>2, <2>3, <2>4, <2>6, MirroredAgain
<1>14. CASE DropCheck(s)
  <2>1. stmt[s] = "checking"   BY <1>14 DEF DropCheck
  <2>2. /\ Innermost(s) /\ pc' = pc /\ \A t \in Scopes : pc[t] \notin {"starting", "ending", "ended"}
        /\ \A t \in Scopes : t # s => stmt'[t] = "none"
    BY <1>14, <2>1, <1>a, Inside DEF DropCheck, Noted
  <2>3. \A c \in Scopes : (Innermost(c))' => c = s
    <3>1. \A c \in Scopes : (Innermost(c))' => Innermost(c)   BY <2>2, <1>b DEF Innermost, On
    <3>2. QED  BY <2>2, <3>1, OneInnermost
  <2>4. stmt' = [stmt EXCEPT ![s] = "none"] /\ aborted' = aborted   BY <1>14 DEF DropCheck, record
  <2>5. aborted[s] = "SqliteRollback"   BY <2>1, <1>a DEF Records, RecordFits
  <2>6. ~(Sound(s))'   BY <2>4, <2>5 DEF Sound
  <2>7. QED  BY <1>a, <2>2, <2>3, <2>4, <2>6, MirroredAgain
<1>15. CASE \E ok \in BOOLEAN : End(s, ok)
  <2>0. PICK ok \in BOOLEAN : End(s, ok)   BY <1>15
  <2>1. /\ pc[s] = "open" /\ GateFree /\ Leaf(s) /\ UNCHANGED connection
        /\ pc' = [pc EXCEPT ![s] = "ending"]
        /\ kind'[s] = "commit" => aborted[s] = "none" /\ ~(statement_failed[s] /\ TopFailed)
        /\ \A t \in Scopes : t # s => kind'[t] = kind[t]
        /\ UNCHANGED <<aborted, statement_failed, undo, stmt>>
    BY <2>0, EndIs
  <2>2. UNCHANGED <<depth, stack>>   BY <2>1 DEF connection
  <2>3. TopFailed' = TopFailed   BY <2>2 DEF TopFailed, Top
  <2>b. \A c \in Scopes : (On(c))' <=> On(c)   BY <1>a, <2>1 DEF On
  <2>c. \A c \in Scopes : pc'[c] = "ended" <=> pc[c] = "ended"   BY <1>a, <2>1
  <2>4. \A c \in Scopes : (Mirrors(c))' <=> Mirrors(c)   BY Zenon, <1>b, <2>1, <2>2 DEF Mirrors
  <2>d. \A c \in Scopes : (Innermost(c))' => Innermost(c)   BY <1>b, <2>b DEF Innermost
  <2>e. \A c \in Scopes : (Sound(c))' => Sound(c)   BY <2>1, <2>c DEF Sound
  <2>5. kind'[s] = "commit" => ~TopFailed
    <3>1. SUFFICES ASSUME kind'[s] = "commit", TopFailed PROVE FALSE   OBVIOUS
    <3>2. Mirrors(s)   BY <2>1, <3>1, MirrorsNow
    <3>3. depth = Lev(s) /\ Len(stack) = depth /\ depth \in 1..depth   BY <3>2, <1>d DEF Mirrors
    <3>4. stack[depth].failed   BY <3>1, <3>3 DEF TopFailed, Top
    <3>5. statement_failed[s]   BY <3>2, <3>3, <3>4, <1>d DEF Mirrors
    <3>6. QED  BY <2>1, <3>1, <3>5
  <2>6. \A t \in Scopes : pc'[t] = "ending" => t = s \/ pc[t] = "ending"   BY <1>a, <2>1
  <2>7. \A t \in Scopes : stmt'[t] # "checking" /\ pc[t] # "ending"   BY <2>1 DEF GateFree
  <2>8. \A t \in Scopes : pc'[t] = "ending" /\ kind'[t] = "commit" => ~TopFailed'   BY <2>3, <2>5, <2>6, <2>7
  <2>9. \A c \in Scopes : (Innermost(c))' /\ (Sound(c))' => (Mirrors(c))'   BY Zenon, <2>4, <2>d, <2>e DEF Mirrored
  <2>10. QED  BY <2>7, <2>8, <2>9 DEF Mirrored
<1>16. CASE Committed(s)
  <2>1. Busy(s) /\ (pc[s] # "open" \/ Leaf(s)) /\ Moved(s)   BY <1>16, <1>a DEF Committed, Finish, Busy, Moved
  <2>2. AtTip(s) /\ (\A t \in Scopes : pc[t] = "ended" => t = s) /\ (On(s) => Innermost(s))   BY <2>1, TipIs
  <2>3. stmt' = stmt /\ \A t \in Scopes : stmt[t] # "checking"
    <3>1. stmt' = stmt   BY <1>16, <1>a DEF Committed, Finish
    <3>2. CASE pc[s] # "open"
      <4>1. pc[s] \in {"starting", "ending", "ended"}   BY <1>16, <1>a, <3>2 DEF Committed
      <4>2. QED  BY <3>1, <4>1, Inside
    <3>3. CASE pc[s] = "open"   BY <1>16, <1>a, <3>1, <3>3 DEF Committed, GateFree
    <3>4. QED  BY <3>2, <3>3
  <2>4. \A t \in Scopes : t # s => pc'[t] # "ending"   BY Zenon, <2>1, <2>2 DEF AtTip, Moved, Busy
  <2>5. pc'[s] \in {"ended", "over"}   BY <1>16, <1>a DEF Committed, Finish
  <2>6. ~(On(s))'   BY <2>5 DEF On
  <2>a. pc[s] = "ending" /\ aborted[s] = "none" /\ statement_failed' = statement_failed
    BY <1>16, <1>a DEF Committed, Finish, Records, RecordFits
  <2>b. Mirrors(s)   BY Zenon, <2>a, MirrorsNow
  <2>7. ASSUME NEW c \in Scopes, (Innermost(c))' PROVE (Mirrors(c))'
    <3>1. Nested(s) /\ c = Parent(s)   BY <2>2, <2>1, <2>6, <2>7, NextInnermost
    <3>2. depth > 1   BY SMTT(60), <2>b, <3>1, <1>a DEF Mirrors, Tree
    <3>3. ReleaseServer   BY <1>16, <3>2 DEF Committed
    <3>4. \A t \in Scopes : t # s => undo'[t] = IF t = c THEN undo[t] \cup undo[s] ELSE undo[t]
      BY Zenon, <1>16, <3>1 DEF Committed
    <3>5. QED  BY <2>a, <2>b, <3>1, <3>3, <3>4, ReleaseMirrors
  <2>8. QED  BY <2>3, <2>4, <2>5, <2>7, MirroredAgain
<1>17. CASE CommitFails(s)
  <2>1. Busy(s) /\ (pc[s] # "open" \/ Leaf(s)) /\ Moved(s)   BY <1>17, <1>a DEF CommitFails, Finish, Busy, Moved
  <2>2. AtTip(s) /\ (\A t \in Scopes : pc[t] = "ended" => t = s) /\ (On(s) => Innermost(s))   BY <2>1, TipIs
  <2>3. stmt' = stmt /\ \A t \in Scopes : stmt[t] # "checking"
    <3>1. stmt' = stmt   BY <1>17, <1>a DEF CommitFails, Finish
    <3>2. CASE pc[s] # "open"
      <4>1. pc[s] \in {"starting", "ending", "ended"}   BY <1>17, <1>a, <3>2 DEF CommitFails
      <4>2. QED  BY <3>1, <4>1, Inside
    <3>3. CASE pc[s] = "open"   BY <1>17, <1>a, <3>1, <3>3 DEF CommitFails, GateFree
    <3>4. QED  BY <3>2, <3>3
  <2>4. \A t \in Scopes : t # s => pc'[t] # "ending"   BY <2>1, <2>2 DEF AtTip, Moved, Busy
  <2>5. pc'[s] \in {"ended", "over"}   BY <1>17, <1>a DEF CommitFails, Finish
  <2>6. ~(On(s))'   BY <2>5 DEF On
  <2>a. pc[s] = "ending" /\ statement_failed' = statement_failed /\ undo' = undo /\ aborted' = aborted /\ pc'[s] = "ended"
    BY <1>17, <1>a DEF CommitFails, Finish
  <2>7. ASSUME NEW c \in Scopes, (Innermost(c))', (Sound(c))' PROVE (Mirrors(c))'
    <3>1. Nested(s) /\ c = Parent(s)   BY <2>2, <2>1, <2>6, <2>7, NextInnermost
    <3>2. aborted[s] = "none"   BY <2>a, <2>7 DEF Sound
    <3>3. Mirrors(s)   BY <2>a, <3>2, MirrorsNow
    <3>4. depth > 1   BY SMTT(60), <3>1, <3>3, <1>a DEF Mirrors, Tree
    <3>5. RollbackServer(1)   BY SMTT(60), <1>17, <3>4 DEF CommitFails
    <3>6. QED  BY <2>a, <3>1, <3>3, <3>5, RollbackMirrors
  <2>8. QED  BY <2>3, <2>4, <2>5, <2>7, MirroredAgain
<1>18. CASE RolledBack(s)
  <2>1. Busy(s) /\ (pc[s] # "open" \/ Leaf(s)) /\ Moved(s)   BY <1>18, <1>a DEF RolledBack, Finish, Busy, Moved
  <2>2. AtTip(s) /\ (\A t \in Scopes : pc[t] = "ended" => t = s) /\ (On(s) => Innermost(s))   BY <2>1, TipIs
  <2>3. stmt' = stmt /\ \A t \in Scopes : stmt[t] # "checking"
    <3>1. stmt' = stmt   BY <1>18, <1>a DEF RolledBack, Finish
    <3>2. CASE pc[s] # "open"
      <4>1. pc[s] \in {"starting", "ending", "ended"}   BY <1>18, <1>a, <3>2 DEF RolledBack
      <4>2. QED  BY <3>1, <4>1, Inside
    <3>3. CASE pc[s] = "open"   BY <1>18, <1>a, <3>1, <3>3 DEF RolledBack, GateFree
    <3>4. QED  BY <3>2, <3>3
  <2>4. \A t \in Scopes : t # s => pc'[t] # "ending"   BY <2>1, <2>2 DEF AtTip, Moved, Busy
  <2>5. pc'[s] \in {"ended", "over"}   BY <1>18, <1>a DEF RolledBack, Finish
  <2>6. ~(On(s))'   BY <2>5 DEF On
  <2>a. pc[s] = "ending" /\ statement_failed' = statement_failed /\ undo' = undo /\ aborted' = aborted /\ pc'[s] = "ended"
    BY <1>18, <1>a DEF RolledBack, Finish
  <2>7. ASSUME NEW c \in Scopes, (Innermost(c))', (Sound(c))' PROVE (Mirrors(c))'
    <3>1. Nested(s) /\ c = Parent(s)   BY <2>2, <2>1, <2>6, <2>7, NextInnermost
    <3>2. aborted[s] = "none"   BY <2>a, <2>7 DEF Sound
    <3>3. Mirrors(s)   BY <2>a, <3>2, MirrorsNow
    <3>4. depth > 1   BY <3>1, <3>3, <1>a DEF Mirrors, Tree
    <3>5. RollbackServer(1)   BY <1>18, <3>4 DEF RolledBack
    <3>6. QED  BY <2>a, <3>1, <3>3, <3>5, RollbackMirrors
  <2>8. QED  BY Zenon, <2>3, <2>4, <2>5, <2>7, MirroredAgain
<1>19. CASE DropRecord(s)
  <2>1. Busy(s) /\ (pc[s] # "open" \/ Leaf(s)) /\ Moved(s)   BY Zenon, <1>19, <1>a, DropRecordIs DEF DropRecord, Finish, Busy, Moved
  <2>2. AtTip(s) /\ (\A t \in Scopes : pc[t] = "ended" => t = s) /\ (On(s) => Innermost(s))   BY <2>1, TipIs
  <2>3. stmt' = stmt /\ \A t \in Scopes : stmt[t] # "checking"
    <3>1. stmt' = stmt   BY <1>19, <1>a, DropRecordIs DEF DropRecord, Finish
    <3>2. CASE pc[s] # "open"
      <4>1. pc[s] \in {"starting", "ending", "ended"}   BY Zenon, <1>19, <1>a, <3>2, DropRecordIs DEF DropRecord
      <4>2. QED  BY <3>1, <4>1, Inside
    <3>3. CASE pc[s] = "open"   BY Zenon, <1>19, <1>a, <3>1, <3>3, DropRecordIs DEF DropRecord, GateFree
    <3>4. QED  BY Zenon, <3>2, <3>3
  <2>4. \A t \in Scopes : t # s => pc'[t] # "ending"   BY Zenon, <2>1, <2>2 DEF AtTip, Moved, Busy
  <2>5. pc'[s] \in {"ended", "over"}   BY Zenon, <1>19, <1>a, DropRecordIs DEF DropRecord, Finish
  <2>6. ~(On(s))'   BY <2>5 DEF On
  <2>a. /\ pc[s] = "ended" /\ UNCHANGED connection /\ statement_failed' = statement_failed
        /\ undo' = [undo EXCEPT ![s] = {}] /\ aborted' = HandedOn(s)
    BY <1>19, DropRecordIs
  <2>7. ASSUME NEW c \in Scopes, (Innermost(c))', (Sound(c))' PROVE (Mirrors(c))'
    <3>1. Nested(s) /\ c = Parent(s) /\ On(c)   BY <2>2, <2>1, <2>6, <2>7, NextInnermost
    <3>2. aborted[s] = "none"
      <4>1. SUFFICES ASSUME aborted[s] # "none" PROVE FALSE   OBVIOUS
      <4>2. aborted' = Aborted(aborted, c, aborted[s])   BY <2>a, <3>1, <4>1 DEF HandedOn
      <4>3. aborted'[c] # "none"   BY <1>a, <4>1, <4>2, AbortedIs
      <4>4. QED  BY <2>7, <4>3 DEF Sound
    <3>3. aborted' = aborted   BY <2>a, <3>2 DEF HandedOn
    <3>4. Sound(c)   BY <2>2, <2>7, <3>2, <3>3 DEF Sound
    <3>5. Innermost(c)
      <4>1. \A t \in Scopes : On(t) => (On(t))'   BY <2>1, <2>a DEF On, Moved
      <4>2. QED  BY <1>b, <2>7, <3>1, <4>1 DEF Innermost
    <3>6. Mirrors(c)   BY <3>4, <3>5 DEF Mirrored
    <3>7. UNCHANGED <<depth, stack>> /\ \A t \in Scopes : undo'[t] \subseteq undo[t]   BY <1>a, <2>a DEF connection
    <3>8. depth = Lev(c) /\ \A i \in 1..depth : Path[c][i] \in Scopes   BY <3>6, <1>d DEF Mirrors
    <3>9. QED  BY <1>b, <2>a, <3>6, <3>7, <3>8 DEF Mirrors
  <2>8. QED  BY <2>3, <2>4, <2>5, <2>7, MirroredAgain
<1>20. CASE Cancel(s)
  <2>1. Busy(s) /\ (pc[s] # "open" \/ Leaf(s)) /\ Moved(s)   BY Zenon, <1>20, <1>a, CancelIs DEF Cancel, Finish, Busy, Moved
  <2>2. AtTip(s) /\ (\A t \in Scopes : pc[t] = "ended" => t = s) /\ (On(s) => Innermost(s))   BY <2>1, TipIs
  <2>3. stmt' = stmt /\ \A t \in Scopes : stmt[t] # "checking"
    <3>1. stmt' = stmt   BY <1>20, <1>a, CancelIs DEF Cancel, Finish
    <3>2. CASE pc[s] # "open"
      <4>1. pc[s] \in {"starting", "ending", "ended"}   BY <1>20, <1>a, <3>2, CancelIs DEF Cancel
      <4>2. QED  BY <3>1, <4>1, Inside
    <3>3. CASE pc[s] = "open"   BY Zenon, <1>20, <1>a, <3>1, <3>3, CancelIs DEF Cancel, GateFree
    <3>4. QED  BY <3>2, <3>3
  <2>4. \A t \in Scopes : t # s => pc'[t] # "ending"   BY <2>1, <2>2 DEF AtTip, Moved, Busy
  <2>5. pc'[s] \in {"ended", "over"}   BY <1>20, <1>a, CancelIs DEF Cancel, Finish
  <2>6. ~(On(s))'   BY <2>5 DEF On
  <2>a. /\ pc[s] = "open" /\ Leaf(s) /\ RollbackServer(1) /\ statement_failed' = statement_failed
        /\ undo' = [undo EXCEPT ![s] = {}] /\ aborted' = HandedOn(s)
    BY <1>20, CancelIs
  <2>7. ASSUME NEW c \in Scopes, (Innermost(c))', (Sound(c))' PROVE (Mirrors(c))'
    <3>1. Nested(s) /\ c = Parent(s)   BY <2>2, <2>1, <2>6, <2>7, NextInnermost
    <3>2. aborted[s] = "none"
      <4>1. SUFFICES ASSUME aborted[s] # "none" PROVE FALSE   OBVIOUS
      <4>2. aborted' = Aborted(aborted, c, aborted[s])   BY <2>a, <3>1, <4>1 DEF HandedOn
      <4>3. aborted'[c] # "none"   BY <1>a, <4>1, <4>2, AbortedIs
      <4>4. QED  BY <2>7, <4>3 DEF Sound
    <3>3. Mirrors(s)   BY <2>a, <3>2, MirrorsNow
    <3>4. \A t \in Scopes : t # s => undo'[t] = undo[t]   BY <1>a, <2>a
    <3>5. QED  BY <2>a, <3>1, <3>3, <3>4, RollbackMirrors
  <2>8. QED  BY <2>3, <2>4, <2>5, <2>7, MirroredAgain
<1>21. CASE CancelEnding(s)
  <2>1. Busy(s) /\ (pc[s] # "open" \/ Leaf(s)) /\ Moved(s)   BY <1>21, <1>a, CancelEndingIs DEF CancelEnding, Finish, Busy, Moved
  <2>2. AtTip(s) /\ (\A t \in Scopes : pc[t] = "ended" => t = s) /\ (On(s) => Innermost(s))   BY <2>1, TipIs
  <2>3. stmt' = stmt /\ \A t \in Scopes : stmt[t] # "checking"
    <3>1. stmt' = stmt   BY <1>21, <1>a, CancelEndingIs DEF CancelEnding, Finish
    <3>2. CASE pc[s] # "open"
      <4>1. pc[s] \in {"starting", "ending", "ended"}   BY <1>21, <1>a, <3>2, CancelEndingIs DEF CancelEnding
      <4>2. QED  BY <3>1, <4>1, Inside
    <3>3. CASE pc[s] = "open"   BY <1>21, <1>a, <3>1, <3>3, CancelEndingIs DEF CancelEnding, GateFree
    <3>4. QED  BY <3>2, <3>3
  <2>4. \A t \in Scopes : t # s => pc'[t] # "ending"   BY <2>1, <2>2 DEF AtTip, Moved, Busy
  <2>5. pc'[s] \in {"ended", "over"}   BY <1>21, <1>a, CancelEndingIs DEF CancelEnding, Finish
  <2>6. ~(On(s))'   BY <2>5 DEF On
  <2>7. ASSUME NEW c \in Scopes, (Innermost(c))' PROVE ~(Sound(c))'
    <3>1. Nested(s) /\ c = Parent(s)   BY <2>2, <2>1, <2>6, <2>7, NextInnermost
    <3>2. aborted' = Aborted(aborted, Parent(s), "Savepoint")   BY Zenon, <1>21, CancelEndingIs DEF CancelEnding
    <3>3. aborted'[c] # "none"   BY <1>a, <3>1, <3>2, AbortedIs
    <3>4. QED  BY <3>3 DEF Sound
  <2>8. QED  BY <2>3, <2>4, <2>5, <2>7, MirroredAgain
<1>22. QED  BY <1>1, <1>2, <1>3, <1>4, <1>5, <1>6, <1>7, <1>8, <1>9, <1>10, <1>11, <1>12, <1>13, <1>14, <1>15, <1>16, <1>17, <1>18, <1>19, <1>20, <1>21 DEF Works
================================================================================
