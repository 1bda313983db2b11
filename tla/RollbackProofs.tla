---------------------------- MODULE RollbackProofs ----------------------------
(***************************************************************************)
(* RollbackRestores of DirtyTracking for every number of rows, pools,      *)
(* tasks and nested transactions, and for every capacity.                  *)
(*                                                                         *)
(* The steps of a task's levels are one sequence, `flat`, and every level  *)
(* has a place in it where it begins.  For a baseline that is still a      *)
(* level's own the steps since then are linked: each found what the one    *)
(* before it left, the first found what the level began with, and the      *)
(* last left what is there now.                                            *)
(***************************************************************************)
EXTENDS DirtyTrackingProofs

SequenceOf(e) == IF e = NoEntry THEN NoSequence ELSE e.sequence
ValuesOfEntry(e) == IF e = NoEntry THEN NoEntry ELSE e.values
Touches(step, p) == \E i \in step.items : i.at = p

\* Baseline p had the values v before steps from + 1 .. to of flat, and is e after them.
Reaches(flat, from, to, p, v, e) ==
    /\ (\A j \in from + 1 .. to : ~Touches(flat[j], p)) => ValuesOfEntry(e) = v
    /\ \A j \in from + 1 .. to : \A i \in flat[j].items :
           i.at = p /\ (\A k \in j + 1 .. to : ~Touches(flat[k], p)) => SequenceOf(e) = i.standing

Linked(flat, from, p, v, e) ==
    /\ Reaches(flat, from, Len(flat), p, v, e)
    /\ \A j \in from + 1 .. Len(flat) : \A i \in flat[j].items :
           i.at = p => Reaches(flat, from, j - 1, p, v, i.previous)

\* What a call does is linked to what there was.
LEMMA LinkedGrows ==
    ASSUME NEW S, NEW flat \in Seq(S), NEW step \in S, NEW from \in Nat, from <= Len(flat),
           NEW p, NEW v, NEW e, NEW f, Linked(flat, from, p, v, e),
           ~Touches(step, p) => f = e,
           \A i \in step.items : i.at = p => i.previous = e /\ i.standing = SequenceOf(f)
    PROVE  Linked(Append(flat, step), from, p, v, f)
<1>1. PICK n : n = Len(flat)
  BY Zenon
<1>2. PICK longer : longer = Append(flat, step)
  BY Zenon
<1>3. /\ n \in Nat /\ Len(longer) = n + 1 /\ longer[n + 1] = step
      /\ \A j \in 1..n : longer[j] = flat[j]
  BY <1>1, <1>2
<1>4. ASSUME NEW m \in Nat, m <= n, NEW g, Reaches(flat, from, m, p, v, g)
      PROVE  Reaches(longer, from, m, p, v, g)
  <2>1. \A j \in from + 1 .. m : longer[j] = flat[j]
    BY <1>3, <1>4
  <2>2. \A j \in from + 1 .. m : \A k \in j + 1 .. m : k \in from + 1 .. m
    BY <1>4
  <2>3. QED
    BY <1>4, <2>1, <2>2 DEF Reaches
<1>5. Reaches(longer, from, n, p, v, e)
  BY <1>1, <1>3, <1>4 DEF Linked
<1>6. Reaches(longer, from, n + 1, p, v, f)
  <2>1. CASE Touches(step, p)
    <3>1. n + 1 \in from + 1 .. n + 1 /\ \A j \in from + 1 .. n : n + 1 \in j + 1 .. n + 1
      BY <1>1, <1>3
    <3>2. \A j \in from + 1 .. n + 1 : j = n + 1 \/ j \in from + 1 .. n
      BY <1>3
    <3>3. QED
      BY <1>3, <2>1, <3>1, <3>2 DEF Reaches
  <2>2. CASE ~Touches(step, p)
    <3>1. \A j \in from + 1 .. n + 1 : j = n + 1 \/ j \in from + 1 .. n
      BY <1>3
    <3>2. \A j \in from + 1 .. n : j \in from + 1 .. n + 1 /\ \A k \in j + 1 .. n + 1 : k = n + 1 \/ k \in j + 1 .. n
      BY <1>3
    <3>3. \A i \in longer[n + 1].items : i.at # p
      BY <1>3, <2>2 DEF Touches
    <3>4. f = e
      BY <2>2
    <3>5. QED
      BY <1>3, <1>5, <2>2, <3>1, <3>2, <3>3, <3>4 DEF Reaches
  <2>3. QED
    BY <2>1, <2>2
<1>7. ASSUME NEW j \in from + 1 .. n + 1, NEW i \in longer[j].items, i.at = p
      PROVE  Reaches(longer, from, j - 1, p, v, i.previous)
  <2>1. CASE j = n + 1
    <3>1. i.previous = e /\ j - 1 = n
      BY <1>3, <1>7, <2>1
    <3>2. QED
      BY <1>5, <3>1
  <2>2. CASE j # n + 1
    <3>1. j \in from + 1 .. n /\ longer[j] = flat[j] /\ j - 1 \in Nat /\ j - 1 <= n
      BY <1>3, <1>7, <2>2
    <3>2. Reaches(flat, from, j - 1, p, v, i.previous)
      BY <1>1, <1>7, <3>1 DEF Linked
    <3>3. QED
      BY <1>4, <3>1, <3>2
  <2>3. QED
    BY <2>1, <2>2
<1>8. QED
  BY <1>2, <1>3, <1>6, <1>7 DEF Linked

\* The last step is undone.
LEMMA LinkedShrinks ==
    ASSUME NEW S, NEW flat \in Seq(S), NEW from \in Nat, from < Len(flat),
           NEW p, NEW v, NEW e, NEW f, Linked(flat, from, p, v, e),
           ~Touches(Last(flat), p) => f = e,
           \A i \in Last(flat).items : i.at = p /\ SequenceOf(e) = i.standing => f = i.previous
    PROVE  Linked(Front(flat), from, p, v, f)
<1>1. PICK n : n = Len(flat) - 1
  BY Zenon
<1>2. PICK shorter : shorter = Front(flat)
  BY Zenon
<1>3. /\ n \in Nat /\ Len(flat) = n + 1 /\ from <= n
      /\ Len(shorter) = n /\ \A j \in 1..n : shorter[j] = flat[j]
  BY <1>1, <1>2 DEF Front
<1>4. ASSUME NEW m \in Nat, m <= n, NEW g, Reaches(flat, from, m, p, v, g)
      PROVE  Reaches(shorter, from, m, p, v, g)
  <2>1. \A j \in from + 1 .. m : shorter[j] = flat[j]
    BY <1>3, <1>4
  <2>2. \A j \in from + 1 .. m : \A k \in j + 1 .. m : k \in from + 1 .. m
    BY <1>4
  <2>3. QED
    BY <1>4, <2>1, <2>2 DEF Reaches
<1>5. PICK step : step = Last(flat)
  BY Zenon
<1>6. step = flat[n + 1]
  BY <1>3, <1>5 DEF Last
<1>7. Reaches(flat, from, n + 1, p, v, e)
  BY <1>3 DEF Linked
<1>8. Reaches(flat, from, n, p, v, f)
  <2>1. CASE Touches(step, p)
    <3>1. PICK i \in step.items : i.at = p
      BY Zenon, <2>1 DEF Touches
    <3>2. n + 1 \in from + 1 .. n + 1 /\ (n + 1) + 1 .. n + 1 = {} /\ (n + 1) - 1 = n
      BY <1>3
    <3>3. SequenceOf(e) = i.standing
      BY <1>6, <1>7, <3>1, <3>2 DEF Reaches
    <3>4. f = i.previous
      BY <1>5, <3>1, <3>3
    <3>5. QED
      BY <1>3, <1>6, <3>1, <3>2, <3>4 DEF Linked
  <2>2. CASE ~Touches(step, p)
    <3>1. \A j \in from + 1 .. n + 1 : j = n + 1 \/ j \in from + 1 .. n
      BY <1>3
    <3>2. \A j \in from + 1 .. n : j \in from + 1 .. n + 1 /\ \A k \in j + 1 .. n + 1 : k = n + 1 \/ k \in j + 1 .. n
      BY <1>3
    <3>3. f = e
      BY <1>5, <2>2
    <3>4. QED
      BY <1>6, <1>7, <2>2, <3>1, <3>2, <3>3 DEF Reaches
  <2>3. QED
    BY <2>1, <2>2
<1>9. ASSUME NEW j \in from + 1 .. n, NEW i \in shorter[j].items, i.at = p
      PROVE  Reaches(shorter, from, j - 1, p, v, i.previous)
  <2>1. j \in from + 1 .. Len(flat) /\ shorter[j] = flat[j] /\ j - 1 \in Nat /\ j - 1 <= n
    BY <1>3, <1>9
  <2>2. Reaches(flat, from, j - 1, p, v, i.previous)
    BY <1>9, <2>1 DEF Linked
  <2>3. QED
    BY <1>4, <2>1, <2>2
<1>10. Reaches(shorter, from, n, p, v, f)
  BY <1>3, <1>4, <1>8
<1>11. QED
  BY Zenon, <1>2, <1>3, <1>9, <1>10 DEF Linked

\* The steps of the levels lv one after the other: level l begins after start[l].
Flat(lv, flat, start) ==
    /\ Len(start) = Len(lv)
    /\ \A l \in 1..Len(lv) : start[l] + Len(lv[l]) = IF l = Len(lv) THEN Len(flat) ELSE start[l + 1]
    /\ \A l, m \in 1..Len(lv) : l <= m => start[l] <= start[m]
    /\ \A l \in 1..Len(lv) : \A i \in 1..Len(lv[l]) : flat[start[l] + i] = lv[l][i]

IsFlat(S, lv, flat, start) ==
    lv \in Seq(Seq(S)) /\ flat \in Seq(S) /\ start \in Seq(Nat) /\ Flat(lv, flat, start)

\* No level begins after the end.
LEMMA FlatBounds ==
    ASSUME NEW S, NEW lv, NEW flat, NEW start, IsFlat(S, lv, flat, start), NEW l \in 1..Len(lv)
    PROVE  start[l] \in Nat /\ Len(flat) \in Nat /\ start[l] <= Len(flat)
<1>1. lv \in Seq(Seq(S)) /\ flat \in Seq(S) /\ start \in Seq(Nat) /\ Flat(lv, flat, start)
  BY DEF IsFlat
<1>2. PICK n : n = Len(lv)
  BY Zenon
<1>3. n \in 1..Len(lv) /\ l <= n /\ Len(flat) \in Nat /\ Len(start) = n
  BY <1>1, <1>2 DEF Flat
<1>4. lv[n] \in Seq(S) /\ Len(lv[n]) \in Nat
  BY <1>1, <1>3
<1>5. start[l] \in Nat /\ start[n] \in Nat
  BY <1>1, <1>2, <1>3
<1>6. start[n] + Len(lv[n]) = Len(flat) /\ start[l] <= start[n]
  BY Zenon, <1>1, <1>2, <1>3 DEF Flat
<1>7. start[n] <= Len(flat)
  BY <1>3, <1>4, <1>5, <1>6
<1>8. QED
  BY <1>3, <1>5, <1>6, <1>7

\* A step is recorded in the last level.
LEMMA FlatGrows ==
    ASSUME NEW S, NEW lv, NEW flat, NEW start, IsFlat(S, lv, flat, start), NEW step \in S,
           NEW n \in 1..Len(lv), n = Len(lv)
    PROVE  IsFlat(S, [lv EXCEPT ![n] = Append(lv[n], step)], Append(flat, step), start)
<1>1. lv \in Seq(Seq(S)) /\ flat \in Seq(S) /\ start \in Seq(Nat) /\ Flat(lv, flat, start)
  BY DEF IsFlat
<1>2. PICK m, k : m = Len(flat) /\ k = Len(lv[n])
  BY Zenon
<1>3. lv[n] \in Seq(S) /\ k \in Nat /\ m \in Nat /\ start[n] \in Nat /\ start[n] + k = m
  BY <1>1, <1>2 DEF Flat
<1>4. PICK longer : longer = Append(flat, step)
  BY Zenon
<1>5. PICK top : top = Append(lv[n], step)
  BY Zenon
<1>6. longer \in Seq(S) /\ Len(longer) = m + 1 /\ longer[m + 1] = step /\ \A j \in 1..m : longer[j] = flat[j]
  BY <1>1, <1>2, <1>4
<1>7. top \in Seq(S) /\ Len(top) = k + 1 /\ top[k + 1] = step /\ \A j \in 1..k : top[j] = lv[n][j]
  BY <1>2, <1>3, <1>5
<1>8. PICK own : own = [lv EXCEPT ![n] = top]
  BY Zenon
<1>9. own \in Seq(Seq(S)) /\ Len(own) = n /\ own[n] = top /\ \A l \in 1..n : l # n => own[l] = lv[l]
  BY <1>1, <1>7, <1>8
<1>10. \A l \in 1..n : start[l] \in Nat /\ start[l] <= m /\ lv[l] \in Seq(S) /\ Len(lv[l]) \in Nat
  BY <1>1, <1>2, FlatBounds
<1>11. \A l \in 1..n : start[l] + Len(own[l]) = IF l = n THEN m + 1 ELSE start[l + 1]
  <2>1. \A l \in 1..n : start[l] + Len(lv[l]) = IF l = n THEN m ELSE start[l + 1]
    BY Zenon, <1>1, <1>2 DEF Flat
  <2>2. start[n] + Len(own[n]) = m + 1
    BY <1>3, <1>7, <1>9
  <2>3. QED
    BY Zenon, <1>9, <2>1, <2>2
<1>12. ASSUME NEW l \in 1..n, NEW i \in 1..Len(own[l]) PROVE longer[start[l] + i] = own[l][i]
  <2>1. CASE l = n /\ i = k + 1
    <3>1. start[n] + (k + 1) = m + 1
      BY <1>3
    <3>2. QED
      BY Zenon, <1>6, <1>7, <1>9, <2>1, <3>1
  <2>2. CASE l = n /\ i # k + 1
    <3>1. i \in 1..k /\ start[n] + i \in 1..m
      BY <1>3, <1>7, <1>9, <1>12, <2>2
    <3>2. flat[start[n] + i] = lv[n][i]
      BY <1>1, <1>2, <3>1 DEF Flat
    <3>3. QED
      BY <1>6, <1>7, <1>9, <2>2, <3>1, <3>2
  <2>3. CASE l # n
    <3>1. own[l] = lv[l] /\ l + 1 \in 1..n
      BY <1>9, <2>3
    <3>2. start[l] + Len(lv[l]) = start[l + 1] /\ flat[start[l] + i] = lv[l][i]
      BY Zenon, <1>1, <1>12, <2>3, <3>1 DEF Flat
    <3>3. start[l + 1] \in Nat /\ start[l + 1] <= m
      BY <1>10, <3>1
    <3>4. start[l] + i \in 1..m
      <4>1. PICK a, b, c : a = start[l] /\ b = Len(lv[l]) /\ c = start[l + 1]
        BY Zenon
      <4>2. a \in Nat /\ b \in Nat /\ c \in Nat /\ c <= m /\ a + b = c /\ i \in 1..b
        BY Zenon, <1>10, <1>12, <3>1, <3>2, <3>3, <4>1
      <4>3. a + i \in 1..m
        BY <1>3, <4>2
      <4>4. QED
        BY Zenon, <4>1, <4>3
    <3>5. QED
      BY <1>6, <3>1, <3>2, <3>4
  <2>4. QED
    BY <2>1, <2>2, <2>3
<1>13. Flat(own, longer, start)
  BY Zenon, <1>1, <1>6, <1>9, <1>11, <1>12 DEF Flat
<1>14. QED
  BY Zenon, <1>1, <1>4, <1>5, <1>6, <1>8, <1>9, <1>13 DEF IsFlat

EndsWith(flat, step) == step = Last(flat)

\* The last level loses its last step.
LEMMA FlatShrinks ==
    ASSUME NEW S, NEW lv, NEW flat, NEW start, IsFlat(S, lv, flat, start),
           NEW n \in 1..Len(lv), n = Len(lv), lv[n] # <<>>, NEW step, step = Last(lv[n])
    PROVE  /\ IsFlat(S, [lv EXCEPT ![n] = Front(lv[n])], Front(flat), start)
           /\ EndsWith(flat, step) /\ \A l \in 1..n : start[l] \in Nat /\ start[l] < Len(flat)
<1>1. lv \in Seq(Seq(S)) /\ flat \in Seq(S) /\ start \in Seq(Nat) /\ Flat(lv, flat, start)
  BY DEF IsFlat
<1>2. PICK m, k : m = Len(flat) /\ k = Len(lv[n])
  BY Zenon
<1>3. lv[n] \in Seq(S) /\ k \in Nat \ {0} /\ m \in Nat /\ start[n] \in Nat /\ start[n] + k = m
  <2>1. lv[n] \in Seq(S) /\ m \in Nat /\ Len(start) = n
    BY <1>1, <1>2 DEF Flat
  <2>2. k \in Nat \ {0}
    BY Zenon, <1>2, <2>1, NonEmptySeq
  <2>3. start[n] \in Nat
    BY <1>1, <2>1
  <2>4. start[n] + k = m
    BY Zenon, <1>1, <1>2 DEF Flat
  <2>5. QED
    BY Zenon, <2>1, <2>2, <2>3, <2>4
<1>4. PICK shorter : shorter = Front(flat)
  BY Zenon
<1>5. PICK top : top = Front(lv[n])
  BY Zenon
<1>6. shorter \in Seq(S) /\ Len(shorter) = m - 1 /\ \A j \in 1..m - 1 : shorter[j] = flat[j]
  <2>1. m - 1 \in Nat /\ m \in Nat
    BY <1>3
  <2>2. QED
    BY <1>1, <1>2, <1>4, <2>1 DEF Front
<1>7. top \in Seq(S) /\ Len(top) = k - 1 /\ \A j \in 1..k - 1 : top[j] = lv[n][j]
  BY <1>2, <1>3, <1>5 DEF Front
<1>8. PICK own : own = [lv EXCEPT ![n] = top]
  BY Zenon
<1>9. own \in Seq(Seq(S)) /\ Len(own) = n /\ own[n] = top /\ \A l \in 1..n : l # n => own[l] = lv[l]
  BY <1>1, <1>7, <1>8
<1>10. \A l \in 1..n : start[l] \in Nat /\ start[l] <= start[n] /\ lv[l] \in Seq(S) /\ Len(lv[l]) \in Nat
  <2>1. \A l \in 1..n : start[l] \in Nat /\ lv[l] \in Seq(S) /\ Len(lv[l]) \in Nat
    BY <1>1, FlatBounds
  <2>2. \A l \in 1..n : l <= n
    OBVIOUS
  <2>3. QED
    BY Zenon, <1>1, <2>1, <2>2 DEF Flat
<1>11. \A l \in 1..n : start[l] + Len(own[l]) = IF l = n THEN m - 1 ELSE start[l + 1]
  <2>1. \A l \in 1..n : start[l] + Len(lv[l]) = IF l = n THEN m ELSE start[l + 1]
    BY Zenon, <1>1, <1>2 DEF Flat
  <2>2. start[n] + Len(own[n]) = m - 1
    BY <1>3, <1>7, <1>9
  <2>3. QED
    BY Zenon, <1>9, <2>1, <2>2
<1>12. ASSUME NEW l \in 1..n, NEW i \in 1..Len(own[l]) PROVE shorter[start[l] + i] = own[l][i]
  <2>1. CASE l = n
    <3>1. i \in 1..k /\ i \in 1..k - 1 /\ start[n] + i \in 1..m - 1
      BY <1>3, <1>7, <1>9, <1>12, <2>1
    <3>2. flat[start[n] + i] = lv[n][i]
      BY Zenon, <1>1, <1>2, <3>1 DEF Flat
    <3>3. QED
      BY Zenon, <1>6, <1>7, <1>9, <2>1, <3>1, <3>2
  <2>2. CASE l # n
    <3>1. own[l] = lv[l] /\ l + 1 \in 1..n
      BY <1>9, <2>2
    <3>2. start[l] + Len(lv[l]) = start[l + 1] /\ flat[start[l] + i] = lv[l][i]
      BY Zenon, <1>1, <1>12, <2>2, <3>1 DEF Flat
    <3>3. start[l + 1] \in Nat /\ start[l + 1] <= start[n]
      BY Zenon, <1>10, <3>1
    <3>4. start[l] + i \in 1..m - 1
      <4>1. PICK a, b, c : a = start[l] /\ b = Len(lv[l]) /\ c = start[l + 1]
        BY Zenon
      <4>2. a \in Nat /\ b \in Nat /\ c \in Nat /\ c <= start[n] /\ a + b = c /\ i \in 1..b
        BY Zenon, <1>10, <1>12, <3>1, <3>2, <3>3, <4>1
      <4>3. a + i \in 1..m - 1
        BY <1>3, <4>2
      <4>4. QED
        BY Zenon, <4>1, <4>3
    <3>5. QED
      BY Zenon, <1>6, <3>1, <3>2, <3>4
  <2>3. QED
    BY <2>1, <2>2
<1>13. Flat(own, shorter, start)
  BY Zenon, <1>1, <1>6, <1>9, <1>11, <1>12 DEF Flat
<1>14. EndsWith(flat, step)
  <2>1. k \in 1..k
    BY <1>3
  <2>2. flat[start[n] + k] = lv[n][k]
    BY Zenon, <1>1, <1>2, <2>1 DEF Flat
  <2>3. QED
    BY Zenon, <1>2, <1>3, <2>2 DEF Last, EndsWith
<1>15. \A l \in 1..n : start[l] \in Nat /\ start[l] < m
  BY <1>3, <1>10
<1>16. QED
  BY Zenon, <1>1, <1>2, <1>4, <1>5, <1>6, <1>8, <1>9, <1>13, <1>14, <1>15 DEF IsFlat

\* A level is opened.
LEMMA FlatOpens ==
    ASSUME NEW S, NEW lv, NEW flat, NEW start, IsFlat(S, lv, flat, start)
    PROVE  IsFlat(S, Append(lv, <<>>), flat, Append(start, Len(flat)))
<1>1. lv \in Seq(Seq(S)) /\ flat \in Seq(S) /\ start \in Seq(Nat) /\ Flat(lv, flat, start)
  BY DEF IsFlat
<1>2. PICK n, m : n = Len(lv) /\ m = Len(flat)
  BY Zenon
<1>3. PICK own : own = Append(lv, <<>>)
  BY Zenon
<1>4. PICK starts : starts = Append(start, m)
  BY Zenon
<1>5. n \in Nat /\ m \in Nat /\ Len(start) = n
  BY <1>1, <1>2 DEF Flat
<1>6. /\ own \in Seq(Seq(S)) /\ Len(own) = n + 1 /\ own[n + 1] = <<>> /\ Len(own[n + 1]) = 0
      /\ \A l \in 1..n : own[l] = lv[l]
  BY <1>1, <1>2, <1>3
<1>7. /\ starts \in Seq(Nat) /\ Len(starts) = n + 1 /\ starts[n + 1] = m
      /\ \A l \in 1..n : starts[l] = start[l]
  BY <1>1, <1>4, <1>5
<1>8. \A l \in 1..n + 1 : l = n + 1 \/ (l \in 1..n /\ l # n + 1 /\ (l = n \/ l + 1 \in 1..n))
  BY <1>5
<1>9. \A l \in 1..n : start[l] + Len(lv[l]) = IF l = n THEN m ELSE start[l + 1]
  BY Zenon, <1>1, <1>2 DEF Flat
<1>10. \A l \in 1..n : start[l] \in Nat /\ start[l] <= m
  BY Zenon, <1>2, FlatBounds
<1>11. ASSUME NEW l \in 1..n + 1
       PROVE  starts[l] + Len(own[l]) = IF l = n + 1 THEN m ELSE starts[l + 1]
  <2>1. CASE l = n + 1
    BY <1>5, <1>6, <1>7, <2>1
  <2>2. CASE l \in 1..n /\ l # n + 1 /\ (l = n \/ l + 1 \in 1..n)
    BY Zenon, <1>6, <1>7, <1>9, <2>2
  <2>3. QED
    BY Zenon, <1>8, <1>11, <2>1, <2>2
<1>12. ASSUME NEW l \in 1..n + 1, NEW k \in 1..n + 1, l <= k PROVE starts[l] <= starts[k]
  <2>1. CASE k = n + 1
    BY <1>5, <1>7, <1>8, <1>10, <1>12, <2>1
  <2>2. CASE k # n + 1
    <3>1. k \in 1..n /\ l \in 1..n
      BY <1>5, <1>12, <2>2
    <3>2. start[l] <= start[k]
      BY Zenon, <1>1, <1>2, <1>12, <3>1 DEF Flat
    <3>3. QED
      BY Zenon, <1>7, <3>1, <3>2
  <2>3. QED
    BY <2>1, <2>2
<1>13. ASSUME NEW l \in 1..n + 1, NEW i \in 1..Len(own[l]) PROVE flat[starts[l] + i] = own[l][i]
  <2>1. l \in 1..n
    BY <1>6, <1>8, <1>13
  <2>2. own[l] = lv[l] /\ starts[l] = start[l] /\ i \in 1..Len(lv[l])
    BY Zenon, <1>6, <1>7, <1>13, <2>1
  <2>3. flat[start[l] + i] = lv[l][i]
    BY Zenon, <1>1, <1>2, <2>1, <2>2 DEF Flat
  <2>4. QED
    BY Zenon, <2>2, <2>3
<1>14. Flat(own, flat, starts)
  BY Zenon, <1>2, <1>6, <1>7, <1>11, <1>12, <1>13 DEF Flat
<1>15. QED
  BY Zenon, <1>1, <1>2, <1>3, <1>4, <1>6, <1>7, <1>14 DEF IsFlat

\* The beginning of a sequence
LEMMA Prefix ==
    ASSUME NEW S, NEW q \in Seq(S), NEW k \in Nat, k <= Len(q)
    PROVE  SubSeq(q, 1, k) \in Seq(S) /\ Len(SubSeq(q, 1, k)) = k /\ \A j \in 1..k : SubSeq(q, 1, k)[j] = q[j]
  OBVIOUS

\* The elements of a sequence
LEMMA Elements ==
    ASSUME NEW S, NEW q \in Seq(S) PROVE \A j \in 1..Len(q) : q[j] \in S
  OBVIOUS

\* A savepoint hands its steps on.
LEMMA FlatMerges ==
    ASSUME NEW S, NEW lv, NEW flat, NEW start, IsFlat(S, lv, flat, start),
           NEW n \in Nat, n = Len(lv), n > 1
    PROVE  IsFlat(S, Append(SubSeq(lv, 1, n - 2), lv[n - 1] \o lv[n]), flat, Front(start))
<1>1. lv \in Seq(Seq(S)) /\ flat \in Seq(S) /\ start \in Seq(Nat) /\ Flat(lv, flat, start)
  BY DEF IsFlat
<1>2. PICK a, b, m : a = lv[n - 1] /\ b = lv[n] /\ m = Len(flat)
  BY Zenon
<1>3. a \in Seq(S) /\ b \in Seq(S) /\ m \in Nat /\ Len(start) = n /\ n - 1 \in 1..n /\ n \in 1..n /\ n - 1 # n
  BY <1>1, <1>2 DEF Flat
<1>4. PICK ab : ab = a \o b
  BY Zenon
<1>5. /\ ab \in Seq(S) /\ Len(a) \in Nat /\ Len(b) \in Nat /\ Len(ab) = Len(a) + Len(b)
      /\ \A i \in 1..Len(ab) : ab[i] = IF i <= Len(a) THEN a[i] ELSE b[i - Len(a)]
  BY <1>3, <1>4
<1>6. PICK low : low = SubSeq(lv, 1, n - 2)
  BY Zenon
<1>7. low \in Seq(Seq(S)) /\ Len(low) = n - 2 /\ \A l \in 1..n - 2 : low[l] = lv[l]
  <2>1. n - 2 \in Nat /\ n - 2 <= Len(lv)
    OBVIOUS
  <2>2. QED
    BY Zenon, <1>1, <1>6, <2>1, Prefix
<1>8. PICK own : own = Append(low, ab)
  BY Zenon
<1>9. own \in Seq(Seq(S)) /\ Len(own) = n - 1 /\ own[n - 1] = ab /\ \A l \in 1..n - 2 : own[l] = lv[l]
  BY <1>5, <1>7, <1>8
<1>10. PICK starts : starts = Front(start)
  BY Zenon
<1>11. starts \in Seq(Nat) /\ Len(starts) = n - 1 /\ \A l \in 1..n - 1 : starts[l] = start[l] /\ start[l] \in Nat
  <2>1. n - 1 \in Nat /\ n - 1 <= Len(start) /\ 1..n - 1 \subseteq 1..n
    BY <1>3
  <2>2. starts = SubSeq(start, 1, n - 1)
    BY Zenon, <1>3, <1>10 DEF Front
  <2>3. QED
    BY Zenon, <1>1, <1>3, <2>1, <2>2, Prefix, Elements
<1>12. \A l \in 1..n - 1 : l = n - 1 \/ (l \in 1..n - 2 /\ l # n - 1 /\ l # n /\ l \in 1..n /\ l + 1 \in 1..n - 1)
  BY <1>3
<1>13. \A l \in 1..n : start[l] + Len(lv[l]) = IF l = n THEN m ELSE start[l + 1]
  BY Zenon, <1>1, <1>2 DEF Flat
<1>14. start[n - 1] + Len(a) = start[n] /\ start[n] + Len(b) = m /\ start[n] \in Nat /\ start[n - 1] \in Nat
  <2>1. (n - 1) + 1 = n
    OBVIOUS
  <2>2. start[n - 1] + Len(a) = start[n] /\ start[n] + Len(b) = m
    BY Zenon, <1>2, <1>3, <1>13, <2>1
  <2>3. start[n] \in Nat /\ start[n - 1] \in Nat
    BY Zenon, <1>1, <1>3, Elements
  <2>4. QED
    BY <2>2, <2>3
<1>15. ASSUME NEW l \in 1..n - 1
       PROVE  starts[l] + Len(own[l]) = IF l = n - 1 THEN m ELSE starts[l + 1]
  <2>1. CASE l = n - 1
    <3>1. start[n - 1] + Len(ab) = m
      BY <1>5, <1>14
    <3>2. QED
      BY Zenon, <1>9, <1>11, <1>15, <2>1, <3>1
  <2>2. CASE l \in 1..n - 2 /\ l # n - 1 /\ l # n /\ l \in 1..n /\ l + 1 \in 1..n - 1
    BY Zenon, <1>9, <1>11, <1>13, <1>15, <2>2
  <2>3. QED
    BY Zenon, <1>12, <1>15, <2>1, <2>2
<1>16. ASSUME NEW l \in 1..n - 1, NEW k \in 1..n - 1, l <= k PROVE starts[l] <= starts[k]
  <2>1. l \in 1..n /\ k \in 1..n
    BY <1>16
  <2>2. QED
    BY Zenon, <1>1, <1>11, <1>16, <2>1 DEF Flat
<1>17. ASSUME NEW l \in 1..n - 1, NEW i \in 1..Len(own[l]) PROVE flat[starts[l] + i] = own[l][i]
  <2>1. CASE l = n - 1
    <3>1. i \in 1..Len(ab) /\ own[l] = ab /\ starts[l] = start[n - 1]
      BY Zenon, <1>9, <1>11, <1>17, <2>1
    <3>2. CASE i <= Len(a)
      <4>1. i \in 1..Len(a) /\ ab[i] = a[i]
        BY <1>5, <3>1, <3>2
      <4>2. flat[start[n - 1] + i] = a[i]
        BY Zenon, <1>1, <1>2, <1>3, <4>1 DEF Flat
      <4>3. QED
        BY Zenon, <3>1, <4>1, <4>2
    <3>3. CASE ~(i <= Len(a))
      <4>1. /\ i - Len(a) \in 1..Len(b) /\ ab[i] = b[i - Len(a)]
            /\ start[n] + (i - Len(a)) = start[n - 1] + i
        BY <1>5, <1>14, <3>1, <3>3
      <4>2. flat[start[n] + (i - Len(a))] = b[i - Len(a)]
        BY Zenon, <1>1, <1>2, <1>3, <4>1 DEF Flat
      <4>3. QED
        BY Zenon, <3>1, <4>1, <4>2
    <3>4. QED
      BY Zenon, <3>2, <3>3
  <2>2. CASE l \in 1..n - 2 /\ l # n - 1 /\ l # n /\ l \in 1..n /\ l + 1 \in 1..n - 1
    <3>1. own[l] = lv[l] /\ starts[l] = start[l] /\ i \in 1..Len(lv[l])
      BY Zenon, <1>9, <1>11, <1>17, <2>2
    <3>2. flat[start[l] + i] = lv[l][i]
      BY Zenon, <1>1, <2>2, <3>1 DEF Flat
    <3>3. QED
      BY Zenon, <3>1, <3>2
  <2>3. QED
    BY Zenon, <1>12, <1>17, <2>1, <2>2
<1>18. Flat(own, flat, starts)
  BY Zenon, <1>2, <1>9, <1>11, <1>15, <1>16, <1>17 DEF Flat
<1>19. QED
  BY Zenon, <1>1, <1>2, <1>4, <1>6, <1>8, <1>9, <1>10, <1>11, <1>18 DEF IsFlat

\* A level without steps begins at the end.
AtEnd(flat, from) == from = Len(flat)

\* A level without steps is closed.
LEMMA FlatCloses ==
    ASSUME NEW S, NEW lv, NEW flat, NEW start, IsFlat(S, lv, flat, start),
           NEW n \in 1..Len(lv), n = Len(lv), lv[n] = <<>>
    PROVE  IsFlat(S, Front(lv), flat, Front(start)) /\ AtEnd(flat, start[n])
<1>1. lv \in Seq(Seq(S)) /\ flat \in Seq(S) /\ start \in Seq(Nat) /\ Flat(lv, flat, start)
  BY DEF IsFlat
<1>2. PICK own, starts, m : own = Front(lv) /\ starts = Front(start) /\ m = Len(flat)
  BY Zenon
<1>3. n \in Nat \ {0} /\ m \in Nat /\ Len(start) = n
  BY <1>1, <1>2 DEF Flat
<1>4. own \in Seq(Seq(S)) /\ Len(own) = n - 1 /\ \A l \in 1..n - 1 : own[l] = lv[l]
  <2>1. n - 1 \in Nat /\ n - 1 <= Len(lv)
    BY <1>3
  <2>2. own = SubSeq(lv, 1, n - 1)
    BY Zenon, <1>2 DEF Front
  <2>3. QED
    BY Zenon, <1>1, <2>1, <2>2, Prefix
<1>5. starts \in Seq(Nat) /\ Len(starts) = n - 1 /\ \A l \in 1..n - 1 : starts[l] = start[l]
  <2>1. n - 1 \in Nat /\ n - 1 <= Len(start)
    BY <1>3
  <2>2. starts = SubSeq(start, 1, n - 1)
    BY Zenon, <1>2, <1>3 DEF Front
  <2>3. QED
    BY Zenon, <1>1, <2>1, <2>2, Prefix
<1>6. \A l \in 1..n : start[l] + Len(lv[l]) = IF l = n THEN m ELSE start[l + 1]
  BY Zenon, <1>1, <1>2 DEF Flat
<1>7. start[n] = m
  <2>1. start[n] \in Nat
    BY <1>1, <1>3
  <2>2. start[n] + 0 = m
    BY <1>6
  <2>3. QED
    BY <2>1, <2>2
<1>8. \A l \in 1..n - 1 : l \in 1..n /\ l # n /\ (l = n - 1 => l + 1 = n) /\ (l # n - 1 => l + 1 \in 1..n - 1)
  BY <1>3
<1>9. ASSUME NEW l \in 1..n - 1
      PROVE  starts[l] + Len(own[l]) = IF l = n - 1 THEN m ELSE starts[l + 1]
  <2>1. starts[l] + Len(own[l]) = start[l + 1]
    BY Zenon, <1>4, <1>5, <1>6, <1>8, <1>9
  <2>2. start[l + 1] = IF l = n - 1 THEN m ELSE starts[l + 1]
    BY Zenon, <1>5, <1>7, <1>8, <1>9
  <2>3. QED
    BY Zenon, <2>1, <2>2
<1>10. \A l, k \in 1..n - 1 : l <= k => starts[l] <= starts[k]
  BY Zenon, <1>1, <1>5, <1>8 DEF Flat
<1>11. ASSUME NEW l \in 1..n - 1, NEW i \in 1..Len(own[l]) PROVE flat[starts[l] + i] = own[l][i]
  <2>1. own[l] = lv[l] /\ starts[l] = start[l] /\ l \in 1..n /\ i \in 1..Len(lv[l])
    BY Zenon, <1>4, <1>5, <1>8, <1>11
  <2>2. flat[start[l] + i] = lv[l][i]
    BY Zenon, <1>1, <2>1 DEF Flat
  <2>3. QED
    BY Zenon, <2>1, <2>2
<1>12. Flat(own, flat, starts)
  BY Zenon, <1>2, <1>4, <1>5, <1>9, <1>10, <1>11 DEF Flat
<1>13. QED
  BY Zenon, <1>1, <1>2, <1>4, <1>5, <1>7, <1>12 DEF IsFlat, AtEnd

\* Steps, with one item for a baseline
OneEach(step) == \A x, y \in step.items : x.at = y.at => x = y
RecordedItems == [at : Baselines, previous : Entries \cup {NoEntry}, standing : Nat \cup {NoSequence}]
RollbackSteps == {s \in [kind : {"set", "invalidate"}, items : SUBSET RecordedItems] : OneEach(s)}

Bases == [Baselines -> Values \cup {Forgotten, NoEntry}]

\* The steps of the levels lv, which began with bs, are linked up to these entries.
Chain(lv, bs, entries, flat, start) ==
    /\ IsFlat(RollbackSteps, lv, flat, start)
    /\ bs \in Seq(Bases) /\ Len(bs) = Len(lv)
    /\ \A l \in 1..Len(lv), p \in Baselines :
           bs[l][p] # Forgotten => Linked(flat, start[l], p, bs[l][p], entries[p])

Chained(t) == \E flat, start : Chain(levels[t], base[t], store.entries, flat, start)

\* What one level began with, where it is still its own, is in other records as well.
StillOwn(bs, bases) ==
    /\ bases \in Seq(Bases) /\ Len(bases) = Len(bs)
    /\ \A l \in 1..Len(bs), p \in Baselines : bases[l][p] \in {Forgotten, bs[l][p]}

\* Entries that are a level's own have not changed.
LEMMA ChainStays ==
    ASSUME NEW lv, NEW bs, NEW entries, NEW flat, NEW start, Chain(lv, bs, entries, flat, start),
           NEW bases, StillOwn(bs, bases), NEW after,
           \A l \in 1..Len(bs), p \in Baselines : bases[l][p] # Forgotten => after[p] = entries[p]
    PROVE  Chain(lv, bases, after, flat, start)
  BY Zenon DEF Chain, StillOwn

\* What a step says it found and left is what was and is there, in the baselines
\* that levels own.
MakesOwn(bases, entries, step, after) ==
    \A l \in 1..Len(bases), p \in Baselines : bases[l][p] # Forgotten =>
        /\ ~Touches(step, p) => after[p] = entries[p]
        /\ \A i \in step.items : i.at = p => i.previous = entries[p] /\ i.standing = SequenceOf(after[p])

\* ... and to undo it puts that back
UnmakesOwn(bases, entries, step, after) ==
    \A l \in 1..Len(bases), p \in Baselines : bases[l][p] # Forgotten =>
        /\ ~Touches(step, p) => after[p] = entries[p]
        /\ \A i \in step.items : i.at = p /\ SequenceOf(entries[p]) = i.standing => after[p] = i.previous

\* A call is recorded in the last level.
LEMMA ChainGrows ==
    ASSUME NEW lv, NEW bs, NEW entries, NEW flat, NEW start, Chain(lv, bs, entries, flat, start),
           NEW bases, StillOwn(bs, bases), NEW after, NEW step \in RollbackSteps,
           NEW n \in 1..Len(lv), n = Len(lv),
           MakesOwn(bases, entries, step, after)
    PROVE  Chain([lv EXCEPT ![n] = Append(lv[n], step)], bases, after, Append(flat, step), start)
<1>1. PICK own, longer : own = [lv EXCEPT ![n] = Append(lv[n], step)] /\ longer = Append(flat, step)
  BY Zenon
<1>2. IsFlat(RollbackSteps, lv, flat, start) /\ flat \in Seq(RollbackSteps) /\ lv \in Seq(Seq(RollbackSteps))
  BY Zenon DEF Chain, IsFlat
<1>3. IsFlat(RollbackSteps, own, longer, start)
  BY Zenon, <1>1, <1>2, FlatGrows
<1>4. Len(own) = Len(lv) /\ Len(lv) = Len(bs) /\ Len(bases) = Len(bs) /\ bases \in Seq(Bases)
  BY <1>1, <1>2 DEF Chain, StillOwn
<1>5. ASSUME NEW l \in 1..Len(lv), NEW p \in Baselines, bases[l][p] # Forgotten
      PROVE  Linked(longer, start[l], p, bases[l][p], after[p])
  <2>1. start[l] \in Nat /\ start[l] <= Len(flat)
    BY Zenon, <1>2, <1>5, FlatBounds
  <2>2. bs[l][p] = bases[l][p] /\ Linked(flat, start[l], p, bs[l][p], entries[p])
    BY Zenon, <1>4, <1>5 DEF Chain, StillOwn
  <2>3. PICK v, e, f, from : v = bases[l][p] /\ e = entries[p] /\ f = after[p] /\ from = start[l]
    BY Zenon
  <2>4. /\ ~Touches(step, p) => f = e
        /\ \A i \in step.items : i.at = p => i.previous = e /\ i.standing = SequenceOf(f)
    BY Zenon, <1>4, <1>5, <2>3 DEF MakesOwn
  <2>5. Linked(flat, from, p, v, e) /\ from \in Nat /\ from <= Len(flat)
    BY Zenon, <2>1, <2>2, <2>3
  <2>6. Linked(longer, from, p, v, f)
    BY Zenon, <1>1, <1>2, <2>4, <2>5, LinkedGrows
  <2>7. QED
    BY Zenon, <2>3, <2>6
<1>6. QED
  BY Zenon, <1>1, <1>3, <1>4, <1>5 DEF Chain

\* The last step of the last level is undone.
LEMMA ChainShrinks ==
    ASSUME NEW lv, NEW bs, NEW entries, NEW flat, NEW start, Chain(lv, bs, entries, flat, start),
           NEW bases, StillOwn(bs, bases), NEW after,
           NEW n \in 1..Len(lv), n = Len(lv), lv[n] # <<>>, NEW step, step = Last(lv[n]),
           UnmakesOwn(bases, entries, step, after)
    PROVE  Chain([lv EXCEPT ![n] = Front(lv[n])], bases, after, Front(flat), start)
<1>1. PICK own, shorter : own = [lv EXCEPT ![n] = Front(lv[n])] /\ shorter = Front(flat)
  BY Zenon
<1>2. IsFlat(RollbackSteps, lv, flat, start) /\ flat \in Seq(RollbackSteps) /\ lv \in Seq(Seq(RollbackSteps))
  BY Zenon DEF Chain, IsFlat
<1>3. /\ IsFlat(RollbackSteps, own, shorter, start)
      /\ step = Last(flat) /\ \A l \in 1..Len(lv) : start[l] \in Nat /\ start[l] < Len(flat)
  <2>1. IsFlat(RollbackSteps, [lv EXCEPT ![n] = Front(lv[n])], Front(flat), start)
    BY Zenon, <1>2, FlatShrinks
  <2>2. EndsWith(flat, step)
    BY Zenon, <1>2, FlatShrinks
  <2>3. \A l \in 1..n : start[l] \in Nat /\ start[l] < Len(flat)
    BY Zenon, <1>2, FlatShrinks
  <2>4. QED
    BY Zenon, <1>1, <2>1, <2>2, <2>3 DEF EndsWith
<1>4. Len(own) = Len(lv) /\ Len(lv) = Len(bs) /\ Len(bases) = Len(bs) /\ bases \in Seq(Bases)
  BY <1>1, <1>2 DEF Chain, StillOwn
<1>5. ASSUME NEW l \in 1..Len(lv), NEW p \in Baselines, bases[l][p] # Forgotten
      PROVE  Linked(shorter, start[l], p, bases[l][p], after[p])
  <2>1. start[l] \in Nat /\ start[l] < Len(flat)
    BY Zenon, <1>3, <1>5
  <2>2. bs[l][p] = bases[l][p] /\ Linked(flat, start[l], p, bs[l][p], entries[p])
    BY <1>4, <1>5 DEF Chain, StillOwn
  <2>3. PICK v, e, f, from : v = bases[l][p] /\ e = entries[p] /\ f = after[p] /\ from = start[l]
    BY Zenon
  <2>4. /\ ~Touches(Last(flat), p) => f = e
        /\ \A i \in Last(flat).items : i.at = p /\ SequenceOf(e) = i.standing => f = i.previous
    BY Zenon, <1>3, <1>4, <1>5, <2>3 DEF UnmakesOwn
  <2>5. Linked(flat, from, p, v, e) /\ from \in Nat /\ from < Len(flat)
    BY Zenon, <2>1, <2>2, <2>3
  <2>6. Linked(shorter, from, p, v, f)
    BY Zenon, <1>1, <1>2, <2>4, <2>5, LinkedShrinks
  <2>7. QED
    BY Zenon, <2>3, <2>6
<1>6. QED
  BY Zenon, <1>1, <1>3, <1>4, <1>5 DEF Chain

\* A change of the store leaves bases alone or takes baselines out of them.
LEMMA ChangeOwns ==
    ASSUME NEW t \in Tasks, NEW st, base \in [Tasks -> Seq(Bases)], Change(t, st)
    PROVE  /\ base' \in [Tasks -> Seq(Bases)]
           /\ \A u \in Tasks : StillOwn(base[u], base'[u])
           /\ \A u \in Tasks : \A l \in 1..Len(base[u]), p \in Baselines :
                  base'[u][l][p] # Forgotten =>
                      p[1] \notin st.evicted /\ (u # t => st.entries[p] = store.entries[p])
<1>1. ASSUME NEW u \in Tasks
      PROVE  /\ base'[u] \in Seq(Bases) /\ StillOwn(base[u], base'[u])
             /\ \A l \in 1..Len(base[u]), p \in Baselines :
                    base'[u][l][p] # Forgotten =>
                        p[1] \notin st.evicted /\ (u # t => st.entries[p] = store.entries[p])
  <2>1. PICK bs, bases : bs = base[u] /\ bases = base'[u]
    BY Zenon
  <2>2. bs \in Seq(Bases) /\ DOMAIN bs = 1..Len(bs) /\ Len(bs) \in Nat
    BY <1>1, <2>1
  <2>3. PICK lost : lost = [p \in Baselines |-> p[1] \in st.evicted \/ (u # t /\ st.entries[p] # store.entries[p])]
    BY Zenon
  <2>4. bases = [l \in 1..Len(bs) |-> [p \in Baselines |-> IF lost[p] THEN Forgotten ELSE bs[l][p]]]
    BY Zenon, <1>1, <2>1, <2>2, <2>3 DEF Change
  <2>5. \A l \in 1..Len(bs) : bs[l] \in Bases
    BY Zenon, <2>2, Elements
  <2>6. \A l \in 1..Len(bs) : bases[l] \in Bases
    BY Zenon, <2>4, <2>5 DEF Bases
  <2>7. DOMAIN bases = 1..Len(bs) /\ bases = [l \in 1..Len(bs) |-> bases[l]]
    BY Zenon, <2>4
  <2>8. bases \in Seq(Bases) /\ Len(bases) = Len(bs)
    BY <2>2, <2>6, <2>7
  <2>9. \A l \in 1..Len(bs), p \in Baselines : bases[l][p] = IF lost[p] THEN Forgotten ELSE bs[l][p]
    BY Zenon, <2>4
  <2>10. StillOwn(bs, bases)
    BY Zenon, <2>8, <2>9 DEF StillOwn
  <2>11. \A l \in 1..Len(bs), p \in Baselines : bases[l][p] # Forgotten => ~lost[p]
    BY Zenon, <2>9
  <2>12. \A p \in Baselines : ~lost[p] => p[1] \notin st.evicted /\ (u # t => st.entries[p] = store.entries[p])
    BY Zenon, <2>3
  <2>13. QED
    BY Zenon, <2>1, <2>8, <2>10, <2>11, <2>12
<1>2. base' \in [Tasks -> Seq(Bases)]
  <2>1. base' = [u \in Tasks |-> base'[u]]
    BY Zenon DEF Change
  <2>2. QED
    BY Zenon, <1>1, <2>1
<1>3. QED
  BY Zenon, <1>1, <1>2

\* A task whose own baselines are untouched
LEMMA ChainedStays ==
    ASSUME NEW u \in Tasks, Chained(u), levels'[u] = levels[u], StillOwn(base[u], base'[u]),
           \A l \in 1..Len(base[u]), p \in Baselines :
               base'[u][l][p] # Forgotten => store'.entries[p] = store.entries[p]
    PROVE  Chained(u)'
<1>1. PICK flat, start : Chain(levels[u], base[u], store.entries, flat, start)
  BY Zenon DEF Chained
<1>2. PICK lv, bs, bases, entries, after :
          lv = levels[u] /\ bs = base[u] /\ bases = base'[u] /\ entries = store.entries /\ after = store'.entries
  BY Zenon
<1>3. Chain(lv, bases, after, flat, start)
  <2>1. /\ Chain(lv, bs, entries, flat, start) /\ StillOwn(bs, bases)
        /\ \A l \in 1..Len(bs), p \in Baselines : bases[l][p] # Forgotten => after[p] = entries[p]
    BY Zenon, <1>1, <1>2
  <2>2. QED
    BY Zenon, <2>1, ChainStays
<1>4. Chain(levels'[u], base'[u], store'.entries, flat, start)
  BY Zenon, <1>2, <1>3
<1>5. QED
  BY Zenon, <1>4 DEF Chained

\* The same for all baselines of rows that are not gone
Makes(entries, step, after, gone) ==
    \A p \in Baselines : p[1] \notin gone =>
        /\ ~Touches(step, p) => after[p] = entries[p]
        /\ \A i \in step.items : i.at = p => i.previous = entries[p] /\ i.standing = SequenceOf(after[p])

Unmakes(entries, step, after, gone) ==
    \A p \in Baselines : p[1] \notin gone =>
        /\ ~Touches(step, p) => after[p] = entries[p]
        /\ \A i \in step.items : i.at = p /\ SequenceOf(entries[p]) = i.standing => after[p] = i.previous

\* Baselines are dropped outside transactions only.
DropsOutside == \A t \in Tasks : dropping[t] # <<>> => levels[t] = <<>>

RestoreInv ==
    /\ base \in [Tasks -> Seq(Bases)]
    /\ DropsOutside
    /\ \A t \in Tasks : Chained(t)

\* What a task has is a function of it.
LEMMA TaskFunctions ==
    ASSUME IndInv
    PROVE  /\ levels = [t \in Tasks |-> levels[t]] /\ dropping = [t \in Tasks |-> dropping[t]]
           /\ mode = [t \in Tasks |-> mode[t]]
<1>1. PICK place \in [Nat -> Baselines \cup {NoEntry}] : Tracked(place)
  BY Zenon DEF IndInv
<1>2. PICK S : S = UndoSteps(place, store.next_sequence)
  BY Zenon
<1>3. levels \in [Tasks -> Seq(Seq(S))] /\ dropping \in [Tasks -> Seq(S)]
  BY Zenon, <1>1, <1>2 DEF Tracked, Hold
<1>4. mode \in [Tasks -> {"run", "undo", "committed", "undone"}]
  BY Zenon DEF IndInv
<1>5. QED
  BY Zenon, <1>3, <1>4

\* The last of the levels
LEMMA LastLevel ==
    ASSUME NEW t \in Tasks, Chained(t), levels[t] # <<>>
    PROVE  Len(levels[t]) \in 1..Len(levels[t])
<1>1. PICK lv : lv = levels[t]
  BY Zenon
<1>2. lv \in Seq(Seq(RollbackSteps)) /\ lv # <<>>
  BY Zenon, <1>1 DEF Chained, Chain, IsFlat
<1>3. Len(lv) \in Nat \ {0}
  BY Zenon, <1>2, NonEmptySeq
<1>4. Len(lv) \in 1..Len(lv)
  BY <1>3
<1>5. QED
  BY Zenon, <1>1, <1>4

\* Nothing is a level's own where there is none.
LEMMA NoLevels ==
    ASSUME NEW t \in Tasks, Chained(t), levels[t] = <<>> PROVE 1..Len(base[t]) = {}
<1>1. PICK bs, lv : bs = base[t] /\ lv = levels[t]
  BY Zenon
<1>2. Len(bs) = Len(lv) /\ lv = <<>>
  BY Zenon, <1>1 DEF Chained, Chain
<1>3. 1..Len(bs) = {}
  BY <1>2
<1>4. QED
  BY Zenon, <1>1, <1>3

\* A call whose step tells what it did
LEMMA CallKeepsChains ==
    ASSUME IndInv, RestoreInv, NEW t \in Tasks, Running(t), NEW st, Change(t, st), store'.entries = st.entries,
           NEW step \in RollbackSteps, UndoOnRollback(t, step),
           Makes(store.entries, step, st.entries, st.evicted)
    PROVE  RestoreInv'
<1>1. base \in [Tasks -> Seq(Bases)] /\ DropsOutside /\ \A u \in Tasks : Chained(u)
  BY Zenon DEF RestoreInv
<1>2. /\ base' \in [Tasks -> Seq(Bases)]
      /\ \A u \in Tasks : StillOwn(base[u], base'[u])
      /\ \A u \in Tasks : \A l \in 1..Len(base[u]), p \in Baselines :
             base'[u][l][p] # Forgotten =>
                 p[1] \notin st.evicted /\ (u # t => st.entries[p] = store.entries[p])
  BY Zenon, <1>1, ChangeOwns
<1>3. levels = [u \in Tasks |-> levels[u]] /\ dropping = [u \in Tasks |-> dropping[u]]
  BY Zenon, TaskFunctions
<1>4. CASE levels[t] = <<>>
  <2>1. levels' = levels /\ \A u \in Tasks \ {t} : dropping'[u] = dropping[u]
    BY Zenon, <1>3, <1>4 DEF UndoOnRollback
  <2>2. ASSUME NEW u \in Tasks PROVE Chained(u)'
    <3>1. \A l \in 1..Len(base[u]), p \in Baselines :
              base'[u][l][p] # Forgotten => store'.entries[p] = store.entries[p]
      <4>1. CASE u = t
        BY Zenon, <1>1, <1>4, <4>1, NoLevels
      <4>2. CASE u # t
        BY Zenon, <1>2, <4>2
      <4>3. QED
        BY Zenon, <4>1, <4>2
    <3>2. QED
      BY Zenon, <1>1, <1>2, <2>1, <3>1, ChainedStays
  <2>3. DropsOutside'
    BY Zenon, <1>1, <1>4, <2>1 DEF DropsOutside
  <2>4. QED
    BY Zenon, <1>2, <2>2, <2>3 DEF RestoreInv
<1>5. CASE levels[t] # <<>>
  <2>1. PICK n, lv : n = Len(levels[t]) /\ lv = levels[t]
    BY Zenon
  <2>2. n \in 1..Len(lv) /\ n = Len(lv)
    BY Zenon, <1>1, <1>5, <2>1, LastLevel
  <2>3. PICK own : own = [lv EXCEPT ![n] = Append(lv[n], step)]
    BY Zenon
  <2>4. levels' = [levels EXCEPT ![t] = own] /\ dropping' = dropping
    BY Zenon, <1>5, <2>1, <2>3 DEF UndoOnRollback
  <2>5. levels'[t] = own /\ \A u \in Tasks \ {t} : levels'[u] = levels[u]
    BY Zenon, <1>3, <2>4
  <2>6. Chained(t)'
    <3>1. PICK flat, start : Chain(lv, base[t], store.entries, flat, start)
      BY Zenon, <1>1, <2>1 DEF Chained
    <3>2. PICK bs, bases, entries, after :
              bs = base[t] /\ bases = base'[t] /\ entries = store.entries /\ after = st.entries
      BY Zenon
    <3>3. Chain(lv, bs, entries, flat, start) /\ StillOwn(bs, bases)
      BY Zenon, <1>2, <3>1, <3>2
    <3>4. MakesOwn(bases, entries, step, after)
      <4>1. Len(bases) = Len(bs)
        BY Zenon, <3>3 DEF StillOwn
      <4>2. \A l \in 1..Len(bases), p \in Baselines : bases[l][p] # Forgotten => p[1] \notin st.evicted
        BY Zenon, <1>2, <3>2, <4>1
      <4>3. \A p \in Baselines : p[1] \notin st.evicted =>
                /\ ~Touches(step, p) => after[p] = entries[p]
                /\ \A i \in step.items : i.at = p => i.previous = entries[p] /\ i.standing = SequenceOf(after[p])
        BY Zenon, <3>2 DEF Makes
      <4>4. QED
        BY Zenon, <4>2, <4>3 DEF MakesOwn
    <3>5. Chain(own, bases, after, Append(flat, step), start)
      <4>1. Chain([lv EXCEPT ![n] = Append(lv[n], step)], bases, after, Append(flat, step), start)
        BY Zenon, <2>2, <3>3, <3>4, ChainGrows
      <4>2. QED
        BY Zenon, <2>3, <4>1
    <3>6. Chain(levels'[t], base'[t], store'.entries, Append(flat, step), start)
      BY Zenon, <2>5, <3>2, <3>5
    <3>7. QED
      BY Zenon, <3>6 DEF Chained
  <2>7. ASSUME NEW u \in Tasks \ {t} PROVE Chained(u)'
    <3>1. \A l \in 1..Len(base[u]), p \in Baselines :
              base'[u][l][p] # Forgotten => store'.entries[p] = store.entries[p]
      BY Zenon, <1>2, <2>7
    <3>2. QED
      BY Zenon, <1>1, <1>2, <2>5, <2>7, <3>1, ChainedStays
  <2>8. DropsOutside'
    BY Zenon, <1>1, <2>4, <2>5 DEF DropsOutside, Running
  <2>9. QED
    BY Zenon, <1>2, <2>6, <2>7, <2>8 DEF RestoreInv
<1>6. QED
  BY Zenon, <1>4, <1>5

\* Undoing the last step of a task
LEMMA UndoKeepsChains ==
    ASSUME IndInv, RestoreInv, NEW t \in Tasks, NEW n, n = Len(levels[t]), levels[t] # <<>>, levels[t][n] # <<>>,
           NEW st, Change(t, st), store'.entries = st.entries,
           levels' = [levels EXCEPT ![t] = [levels[t] EXCEPT ![n] = Front(levels[t][n])]], dropping' = dropping,
           NEW step, step = Last(levels[t][n]), Unmakes(store.entries, step, st.entries, st.evicted)
    PROVE  RestoreInv'
<1>1. base \in [Tasks -> Seq(Bases)] /\ DropsOutside /\ \A u \in Tasks : Chained(u)
  BY Zenon DEF RestoreInv
<1>2. /\ base' \in [Tasks -> Seq(Bases)]
      /\ \A u \in Tasks : StillOwn(base[u], base'[u])
      /\ \A u \in Tasks : \A l \in 1..Len(base[u]), p \in Baselines :
             base'[u][l][p] # Forgotten =>
                 p[1] \notin st.evicted /\ (u # t => st.entries[p] = store.entries[p])
  BY Zenon, <1>1, ChangeOwns
<1>3. levels = [u \in Tasks |-> levels[u]]
  BY Zenon, TaskFunctions
<1>4. PICK lv : lv = levels[t]
  BY Zenon
<1>5. n \in 1..Len(lv) /\ n = Len(lv) /\ lv[n] # <<>> /\ step = Last(lv[n])
  BY Zenon, <1>1, <1>4, LastLevel
<1>6. PICK own : own = [lv EXCEPT ![n] = Front(lv[n])]
  BY Zenon
<1>7. levels'[t] = own /\ \A u \in Tasks \ {t} : levels'[u] = levels[u]
  BY Zenon, <1>3, <1>4, <1>6
<1>8. Chained(t)'
  <2>1. PICK flat, start : Chain(lv, base[t], store.entries, flat, start)
    BY Zenon, <1>1, <1>4 DEF Chained
  <2>2. PICK bs, bases, entries, after :
            bs = base[t] /\ bases = base'[t] /\ entries = store.entries /\ after = st.entries
    BY Zenon
  <2>3. Chain(lv, bs, entries, flat, start) /\ StillOwn(bs, bases)
    BY Zenon, <1>2, <2>1, <2>2
  <2>4. UnmakesOwn(bases, entries, step, after)
    <3>1. Len(bases) = Len(bs)
      BY Zenon, <2>3 DEF StillOwn
    <3>2. \A l \in 1..Len(bases), p \in Baselines : bases[l][p] # Forgotten => p[1] \notin st.evicted
      BY Zenon, <1>2, <2>2, <3>1
    <3>3. \A p \in Baselines : p[1] \notin st.evicted =>
              /\ ~Touches(step, p) => after[p] = entries[p]
              /\ \A i \in step.items : i.at = p /\ SequenceOf(entries[p]) = i.standing => after[p] = i.previous
      BY Zenon, <2>2 DEF Unmakes
    <3>4. QED
      BY Zenon, <3>2, <3>3 DEF UnmakesOwn
  <2>5. Chain(own, bases, after, Front(flat), start)
    <3>1. Chain([lv EXCEPT ![n] = Front(lv[n])], bases, after, Front(flat), start)
      BY Zenon, <1>5, <2>3, <2>4, ChainShrinks
    <3>2. QED
      BY Zenon, <1>6, <3>1
  <2>6. Chain(levels'[t], base'[t], store'.entries, Front(flat), start)
    BY Zenon, <1>7, <2>2, <2>5
  <2>7. QED
    BY Zenon, <2>6 DEF Chained
<1>9. ASSUME NEW u \in Tasks \ {t} PROVE Chained(u)'
  <2>1. \A l \in 1..Len(base[u]), p \in Baselines :
            base'[u][l][p] # Forgotten => store'.entries[p] = store.entries[p]
    BY Zenon, <1>2, <1>9
  <2>2. QED
    BY Zenon, <1>1, <1>2, <1>7, <1>9, <2>1, ChainedStays
<1>10. DropsOutside'
  BY Zenon, <1>1, <1>7 DEF DropsOutside
<1>11. QED
  BY Zenon, <1>2, <1>8, <1>9, <1>10 DEF RestoreInv

\* A change that leaves every record alone, of a task without own baselines
LEMMA OthersKeepChains ==
    ASSUME RestoreInv, NEW t \in Tasks, NEW st, Change(t, st), store'.entries = st.entries, levels' = levels,
           DropsOutside',
           \A l \in 1..Len(base[t]), p \in Baselines : base'[t][l][p] = Forgotten
    PROVE  RestoreInv'
<1>1. base \in [Tasks -> Seq(Bases)] /\ \A u \in Tasks : Chained(u)
  BY Zenon DEF RestoreInv
<1>2. /\ base' \in [Tasks -> Seq(Bases)]
      /\ \A u \in Tasks : StillOwn(base[u], base'[u])
      /\ \A u \in Tasks : \A l \in 1..Len(base[u]), p \in Baselines :
             base'[u][l][p] # Forgotten =>
                 p[1] \notin st.evicted /\ (u # t => st.entries[p] = store.entries[p])
  BY Zenon, <1>1, ChangeOwns
<1>3. ASSUME NEW u \in Tasks PROVE Chained(u)'
  <2>1. \A l \in 1..Len(base[u]), p \in Baselines :
            base'[u][l][p] # Forgotten => store'.entries[p] = store.entries[p]
    BY Zenon, <1>2, <1>3
  <2>2. levels'[u] = levels[u]
    BY Zenon
  <2>3. QED
    BY Zenon, <1>1, <1>2, <1>3, <2>1, <2>2, ChainedStays
<1>4. QED
  BY Zenon, <1>2, <1>3 DEF RestoreInv

\* What a change leaves in the store
LEMMA ChangeEntries ==
    ASSUME NEW t \in Tasks, NEW st, IsStore(st), Change(t, st) PROVE store'.entries = st.entries
<1>1. PICK a, b, c, d : st = [entries |-> a, order |-> b, next_sequence |-> c, evicted |-> d]
  BY Zenon DEF IsStore
<1>2. store' = [st EXCEPT !.evicted = {}]
  BY Zenon DEF Change
<1>3. QED
  BY <1>1, <1>2

\* Off the rows evicted, nothing else changed.
SameElsewhere(from, to) == \A p \in Baselines : p[1] \notin to.evicted => to.entries[p] = from[p]

\* Eviction leaves the other rows as they are.
LEMMA LeftAsIs ==
    ASSUME NEW from, NEW to, LeftAs(from, to)
    PROVE  SameElsewhere(from, to)
<1>1. CASE to.entries = from
  BY Zenon, <1>1 DEF SameElsewhere
<1>2. CASE RowLeft(from, to)
  <2>1. PICK row : /\ to.evicted = {row}
                   /\ to.entries = [q \in Baselines |-> IF q[1] = row THEN NoEntry ELSE from[q]]
    BY Zenon, <1>2 DEF RowLeft
  <2>2. QED
    BY Zenon, <2>1 DEF SameElsewhere
<1>3. QED
  BY Zenon, <1>1, <1>2 DEF LeftAs

\* The step set_baseline registers tells what it did.
LEMMA ReplaceMakes ==
    ASSUME Capacity \in Nat, NoEntry \notin Entries, IndInv,
           NEW p \in Baselines, NEW values \in Values \cup {Forgotten},
           NEW st, st = Replace(store, p, values).store,
           NEW step, step = Replace(store, p, values).step
    PROVE  /\ step \in RollbackSteps /\ IsStore(st)
           /\ Makes(store.entries, step, st.entries, st.evicted)
<1>1. PICK place \in [Nat -> Baselines \cup {NoEntry}] : Tracked(place)
  BY Zenon DEF IndInv
<1>2. PICK later : later = Handed(place, p)
  BY Zenon
<1>3. Placed(store, place) /\ Cardinality(Live(store)) <= Capacity /\ store.evicted = {} /\ IsPlace(place)
  BY Zenon, <1>1 DEF IndInv, Tracked, IsPlace
<1>4. Placed(st, later) /\ step \in UndoSteps(later, st.next_sequence) /\ LeftAs(Replaced(p, values), st)
  BY Zenon, <1>2, <1>3, ReplacePlaced
<1>5. PICK i : i = [at |-> p, previous |-> store.entries[p],
                    standing |-> IF Inserts(p, values) THEN store.next_sequence ELSE NoSequence]
  BY Zenon
<1>6. step = [kind |-> "set", items |-> {i}]
  BY Zenon, <1>5 DEF Replace, Inserts
<1>7. step \in RollbackSteps
  <2>1. step \in [kind : {"set", "invalidate"}, items : SUBSET RecordedItems]
    BY <1>4 DEF UndoSteps, Recorded, RecordedItems
  <2>2. OneEach(step)
    BY <1>6 DEF OneEach
  <2>3. QED
    BY Zenon, <2>1, <2>2 DEF RollbackSteps
<1>8. PICK e : e = IF Inserts(p, values) THEN [sequence |-> store.next_sequence, values |-> values] ELSE NoEntry
  BY Zenon
<1>9. Replaced(p, values) = [store.entries EXCEPT ![p] = e] /\ store.entries \in [Baselines -> Entries \cup {NoEntry}]
  BY Zenon, <1>3, <1>8 DEF Replaced, Placed
<1>10. SequenceOf(e) = i.standing
  <2>1. CASE Inserts(p, values)
    <3>1. store.next_sequence \in Nat
      BY Zenon, <1>3 DEF Placed
    <3>2. e = [sequence |-> store.next_sequence, values |-> values]
      BY Zenon, <1>8, <2>1
    <3>3. e \in Entries /\ e.sequence = store.next_sequence /\ i.standing = store.next_sequence
      BY <1>5, <2>1, <3>1, <3>2 DEF Entries
    <3>4. QED
      BY Zenon, <3>3 DEF SequenceOf
  <2>2. CASE ~Inserts(p, values)
    BY Zenon, <1>5, <1>8, <2>2 DEF SequenceOf
  <2>3. QED
    BY Zenon, <2>1, <2>2
<1>11. ASSUME NEW q \in Baselines, q[1] \notin st.evicted
       PROVE  /\ ~Touches(step, q) => st.entries[q] = store.entries[q]
              /\ \A j \in step.items :
                     j.at = q => j.previous = store.entries[q] /\ j.standing = SequenceOf(st.entries[q])
  <2>1. st.entries[q] = IF q = p THEN e ELSE store.entries[q]
    <3>0. SameElsewhere(Replaced(p, values), st)
      BY Zenon, <1>4, LeftAsIs
    <3>1. st.entries[q] = Replaced(p, values)[q]
      BY Zenon, <1>11, <3>0 DEF SameElsewhere
    <3>2. PICK old : old = store.entries
      BY Zenon
    <3>3. [old EXCEPT ![p] = e][q] = IF q = p THEN e ELSE old[q]
      BY Zenon, <1>9, <3>2
    <3>4. QED
      BY Zenon, <1>9, <3>1, <3>2, <3>3
  <2>a. step.items = {i}
    BY <1>6
  <2>b. i.at = p /\ i.previous = store.entries[p]
    BY <1>5
  <2>2. step.items = {i} /\ i.at = p /\ i.previous = store.entries[p]
    BY Zenon, <2>a, <2>b
  <2>3. CASE q = p
    <3>1. Touches(step, q)
      BY Zenon, <2>2, <2>3 DEF Touches
    <3>2. QED
      BY Zenon, <1>10, <2>1, <2>2, <2>3, <3>1
  <2>4. CASE q # p
    BY Zenon, <2>1, <2>2, <2>4
  <2>5. QED
    BY Zenon, <2>3, <2>4
<1>12. QED
  BY Zenon, <1>4, <1>7, <1>11 DEF Makes, Placed

\* set_baseline keeps the steps linked.
LEMMA SetBaselineChains ==
    ASSUME Capacity \in Nat, NoEntry \notin Entries, IndInv, RestoreInv,
           NEW t \in Tasks, NEW p \in Baselines, NEW values \in Values \cup {Forgotten},
           SetBaseline(t, p, values)
    PROVE  RestoreInv'
<1>1. PICK st : st = Replace(store, p, values).store
  BY Zenon
<1>2. PICK step : step = Replace(store, p, values).step
  BY Zenon
<1>3. step \in RollbackSteps /\ IsStore(st) /\ Makes(store.entries, step, st.entries, st.evicted)
  BY Zenon, <1>1, <1>2, ReplaceMakes
<1>4. Running(t) /\ Change(t, st) /\ UndoOnRollback(t, step)
  BY Zenon, <1>1, <1>2 DEF SetBaseline
<1>5. store'.entries = st.entries
  BY Zenon, <1>3, <1>4, ChangeEntries
<1>6. QED
  BY Zenon, <1>3, <1>4, <1>5, CallKeepsChains

\* invalidate_model too.
LEMMA InvalidateModelChains ==
    ASSUME NoEntry \notin Entries, IndInv, RestoreInv, NEW t \in Tasks, NEW model, InvalidateModel(t, model)
    PROVE  RestoreInv'
<1>1. PICK place \in [Nat -> Baselines \cup {NoEntry}] : Tracked(place)
  BY Zenon DEF IndInv
<1>2. Placed(store, place) /\ IsStore(store) /\ store.entries \in [Baselines -> Entries \cup {NoEntry}]
  BY Zenon, <1>1 DEF Tracked, Placed
<1>3. PICK known : known = Known(model)
  BY Zenon
<1>4. PICK next, size : next = store.next_sequence /\ size = Cardinality(known)
  BY Zenon
<1>a. PICK number \in [known -> next .. next + size - 1] : \E entries, order, step, st :
          /\ entries = [p \in Baselines |-> IF p \in known THEN [sequence |-> number[p], values |-> Forgotten]
                                            ELSE store.entries[p]]
          /\ step = [kind |-> "invalidate",
                     items |-> {[at |-> p, previous |-> store.entries[p], standing |-> number[p]] : p \in known}]
          /\ st = [Relisted(store, entries, order) EXCEPT !.next_sequence = @ + size]
          /\ Change(t, st) /\ UndoOnRollback(t, step)
  BY Zenon, <1>3, <1>4 DEF InvalidateModel, Known
<1>5. PICK entries, order, step, st :
          /\ entries = [p \in Baselines |-> IF p \in known THEN [sequence |-> number[p], values |-> Forgotten]
                                            ELSE store.entries[p]]
          /\ step = [kind |-> "invalidate",
                     items |-> {[at |-> p, previous |-> store.entries[p], standing |-> number[p]] : p \in known}]
          /\ st = [Relisted(store, entries, order) EXCEPT !.next_sequence = @ + size]
          /\ Change(t, st) /\ UndoOnRollback(t, step)
  BY Zenon, <1>a
<1>6. next \in Nat
  BY Zenon, <1>2, <1>4 DEF Placed
<1>7. \A p \in known : number[p] \in Nat /\ p \in Baselines /\ store.entries[p] \in Entries \cup {NoEntry}
  <2>1. \A k \in next .. next + size - 1 : k \in Nat
    BY <1>6
  <2>2. QED
    BY Zenon, <1>2, <1>3, <1>5, <2>1 DEF Known
<1>8. st.entries = entries /\ IsStore(st)
  <2>1. PICK re : re = Relisted(store, entries, order)
    BY Zenon
  <2>2. re = [entries |-> entries, order |-> order, next_sequence |-> store.next_sequence, evicted |-> store.evicted]
    BY Zenon, <1>2, <2>1, RelistedIs
  <2>3. PICK k : k = re.next_sequence + size
    BY Zenon
  <2>4. st = [re EXCEPT !.next_sequence = k]
    BY Zenon, <1>5, <2>1, <2>3
  <2>5. st = [entries |-> entries, order |-> order, next_sequence |-> k, evicted |-> store.evicted]
    BY Zenon, <2>2, <2>4
  <2>6. QED
    BY Zenon, <2>5 DEF IsStore
<1>9. step \in RollbackSteps
  <2>1. step \in [kind : {"set", "invalidate"}, items : SUBSET RecordedItems]
    BY <1>5, <1>7 DEF RecordedItems
  <2>2. OneEach(step)
    BY <1>5 DEF OneEach
  <2>3. QED
    BY Zenon, <2>1, <2>2 DEF RollbackSteps
<1>10. ASSUME NEW p \in Baselines
       PROVE  /\ ~Touches(step, p) => entries[p] = store.entries[p]
              /\ \A i \in step.items :
                     i.at = p => i.previous = store.entries[p] /\ i.standing = SequenceOf(entries[p])
  <2>1. CASE p \in known
    <3>1. entries[p] = [sequence |-> number[p], values |-> Forgotten]
      BY Zenon, <1>5, <2>1
    <3>2. entries[p] \in Entries /\ entries[p].sequence = number[p]
      BY <1>7, <2>1, <3>1 DEF Entries
    <3>3. SequenceOf(entries[p]) = number[p]
      BY Zenon, <3>2 DEF SequenceOf
    <3>4. \A i \in step.items : i.at = p => i.previous = store.entries[p] /\ i.standing = number[p]
      BY <1>5
    <3>5. Touches(step, p)
      <4>1. PICK i : i = [at |-> p, previous |-> store.entries[p], standing |-> number[p]]
        BY Zenon
      <4>2. i \in step.items /\ i.at = p
        BY Zenon, <1>5, <2>1, <4>1
      <4>3. QED
        BY Zenon, <4>2 DEF Touches
    <3>6. QED
      BY Zenon, <3>3, <3>4, <3>5
  <2>2. CASE p \notin known
    <3>1. \A i \in step.items : i.at # p
      BY <1>5, <2>2
    <3>2. entries[p] = store.entries[p]
      BY Zenon, <1>5, <2>2
    <3>3. QED
      BY Zenon, <3>1, <3>2
  <2>3. QED
    BY Zenon, <2>1, <2>2
<1>11. Makes(store.entries, step, st.entries, st.evicted)
  BY Zenon, <1>8, <1>10 DEF Makes
<1>12. Running(t)
  BY Zenon DEF InvalidateModel
<1>13. store'.entries = st.entries
  BY Zenon, <1>5, <1>8, ChangeEntries
<1>14. QED
  BY Zenon, <1>5, <1>9, <1>11, <1>12, <1>13, CallKeepsChains

\* What an undo step does is to put back what it recorded, where that still stands.
LEMMA UndoneUnmakes ==
    ASSUME Capacity \in Nat, NoEntry \notin Entries, NEW place, Placed(store, place),
           Cardinality(Live(store)) <= Capacity, store.evicted = {},
           NEW step \in UndoSteps(place, store.next_sequence), OneEach(step),
           NEW st, st = Undone(store, step)
    PROVE  IsStore(st) /\ Unmakes(store.entries, step, st.entries, st.evicted)
<1>1. \A p : SequenceAt(store, p) = SequenceOf(store.entries[p])
  BY Zenon DEF SequenceAt, SequenceOf
<1>2. CASE step.kind = "set"
  <2>1. PICK i : i \in step.items /\ step.items = {i} /\ i \in Recorded(place, store.next_sequence)
    BY <1>2 DEF UndoSteps
  <2>2. (CHOOSE j \in step.items : TRUE) = i
    BY <2>1
  <2>3. st = Restore(store, i)
    BY Zenon, <1>2, <2>2 DEF Undone
  <2>4. /\ i.at \in Baselines /\ i.previous \in Entries \cup {NoEntry}
        /\ i.previous # NoEntry => /\ i.previous.sequence < store.next_sequence
                                   /\ place[i.previous.sequence] = i.at
    BY <2>1 DEF Recorded
  <2>5. PICK old, from : /\ old = store.entries
                         /\ from = IF SequenceAt(store, i.at) = i.standing THEN [old EXCEPT ![i.at] = i.previous] ELSE old
    BY Zenon
  <2>6. Placed(st, place) /\ LeftAs(from, st)
    <3>1. /\ Placed(st, place)
          /\ LeftAs(IF SequenceAt(store, i.at) = i.standing THEN [store.entries EXCEPT ![i.at] = i.previous]
                    ELSE store.entries, st)
      BY Zenon, <2>3, <2>4, RestorePlaced
    <3>2. QED
      BY Zenon, <2>5, <3>1
  <2>7. SameElsewhere(from, st)
    BY Zenon, <2>6, LeftAsIs
  <2>8. old = [p \in Baselines |-> old[p]]
    BY Zenon, <2>5 DEF Placed
  <2>9. ASSUME NEW p \in Baselines
        PROVE  /\ p # i.at => from[p] = old[p]
               /\ p = i.at /\ SequenceOf(old[p]) = i.standing => from[p] = i.previous
    BY Zenon, <1>1, <2>5, <2>8
  <2>10. \A p \in Baselines : Touches(step, p) <=> p = i.at
    BY Zenon, <2>1 DEF Touches
  <2>11. Unmakes(old, step, st.entries, st.evicted)
    <3>1. SUFFICES ASSUME NEW p \in Baselines, p[1] \notin st.evicted
                   PROVE  /\ ~Touches(step, p) => st.entries[p] = old[p]
                          /\ \A j \in step.items : j.at = p /\ SequenceOf(old[p]) = j.standing => st.entries[p] = j.previous
      BY Zenon DEF Unmakes
    <3>2. st.entries[p] = from[p]
      BY Zenon, <2>7, <3>1 DEF SameElsewhere
    <3>3. \A j \in step.items : j = i
      BY Zenon, <2>1
    <3>4. QED
      BY Zenon, <2>9, <2>10, <3>2, <3>3
  <2>12. QED
    BY Zenon, <2>5, <2>6, <2>11 DEF Placed
<1>3. CASE step.kind # "set"
  <2>1. PICK items : items = step.items
    BY Zenon
  <2>2. /\ items \in SUBSET Recorded(place, store.next_sequence)
        /\ \A i \in items : i.previous # NoEntry /\ i.standing \in Nat
    BY <1>3, <2>1 DEF UndoSteps
  <2>3. st = RestoreAll(store, items)
    BY Zenon, <1>3, <2>1 DEF Undone
  <2>4. Placed(st, place)
    BY Zenon, <2>2, <2>3, RestoreAllPlaced
  <2>5. PICK left : left = Standing(store, items)
    BY Zenon
  <2>6. PICK gone : gone = {i.at : i \in left}
    BY Zenon
  <2>7. PICK previous : previous = [p \in gone |-> (CHOOSE i \in left : i.at = p).previous]
    BY Zenon
  <2>8. PICK entries, order : /\ entries = [p \in Baselines |-> IF p \in gone THEN previous[p] ELSE store.entries[p]]
                              /\ order = {o \in store.order : o[1] \notin {i.standing : i \in left}} \cup
                                            {<<previous[p].sequence, p>> : p \in gone}
    BY Zenon
  <2>9. st = Relisted(store, entries, order)
    BY <2>3, <2>5, <2>6, <2>7, <2>8 DEF RestoreAll
  <2>10. st.entries = entries
    <3>1. IsStore(store)
      BY Zenon DEF Placed
    <3>2. st = [entries |-> entries, order |-> order, next_sequence |-> store.next_sequence, evicted |-> store.evicted]
      BY Zenon, <2>9, <3>1, RelistedIs
    <3>3. QED
      BY <3>2
  <2>11. ASSUME NEW p \in Baselines, NEW i \in items, i.at = p, SequenceOf(store.entries[p]) = i.standing
         PROVE  entries[p] = i.previous
    <3>1. i \in left
      BY Zenon, <1>1, <2>5, <2>11 DEF Standing
    <3>2. \A j \in left : j.at = p => j = i
      BY Zenon, <2>1, <2>5, <2>11 DEF OneEach, Standing
    <3>3. PICK k : k = CHOOSE j \in left : j.at = p
      BY Zenon
    <3>4. k \in left /\ k.at = p
      BY Zenon, <2>11, <3>1, <3>3
    <3>5. k = i
      BY Zenon, <3>2, <3>4
    <3>6. p \in gone
      BY Zenon, <2>6, <2>11, <3>1
    <3>7. previous[p] = k.previous
      BY Zenon, <2>7, <3>3, <3>6
    <3>8. entries[p] = previous[p]
      BY Zenon, <2>8, <3>6
    <3>9. QED
      BY Zenon, <3>5, <3>7, <3>8
  <2>12. ASSUME NEW p \in Baselines, ~Touches(step, p) PROVE entries[p] = store.entries[p]
    <3>1. p \notin gone
      BY Zenon, <2>1, <2>5, <2>6, <2>12 DEF Touches, Standing
    <3>2. QED
      BY Zenon, <2>8, <3>1
  <2>13. Unmakes(store.entries, step, entries, st.evicted)
    BY Zenon, <2>1, <2>11, <2>12 DEF Unmakes
  <2>14. QED
    BY Zenon, <2>4, <2>10, <2>13 DEF Placed
<1>4. QED
  BY Zenon, <1>2, <1>3

\* The steps that a chain records have one item for a baseline.
LEMMA LastStep ==
    ASSUME NEW t \in Tasks, Chained(t), levels[t] # <<>>, NEW n, n = Len(levels[t]), levels[t][n] # <<>>
    PROVE  OneEach(Last(levels[t][n]))
<1>1. PICK lv, last : lv = levels[t] /\ last = lv[n]
  BY Zenon
<1>2. lv \in Seq(Seq(RollbackSteps))
  BY Zenon, <1>1 DEF Chained, Chain, IsFlat
<1>3. n \in 1..Len(lv)
  BY Zenon, <1>1, LastLevel
<1>4. last \in Seq(RollbackSteps) /\ last # <<>>
  BY Zenon, <1>1, <1>2, <1>3, Elements
<1>5. last[Len(last)] \in RollbackSteps
  BY Zenon, <1>4, NonEmptySeq
<1>6. OneEach(last[Len(last)])
  BY Zenon, <1>5 DEF RollbackSteps
<1>7. QED
  BY Zenon, <1>1, <1>6 DEF Last

\* A step of a rollback
LEMMA UndoChains ==
    ASSUME Capacity \in Nat, NoEntry \notin Entries, IndInv, RestoreInv, NEW t \in Tasks, Undo(t)
    PROVE  RestoreInv'
<1>1. PICK place \in [Nat -> Baselines \cup {NoEntry}] : Tracked(place)
  BY Zenon DEF IndInv
<1>2. PICK S, n, lv : S = UndoSteps(place, store.next_sequence) /\ n = Len(levels[t]) /\ lv = levels[t]
  BY Zenon
<1>3. lv \in Seq(Seq(S)) /\ lv # <<>> /\ lv[n] # <<>>
  BY Zenon, <1>1, <1>2 DEF Tracked, Hold, IndInv, RollingBack, Undo
<1>4. lv[n] \in Seq(S)
  BY Zenon, <1>2, <1>3, NonEmptySeq
<1>5. PICK step : step = Last(lv[n])
  BY Zenon
<1>6. step \in S
  BY Zenon, <1>3, <1>4, <1>5, NonEmptySeq DEF Last
<1>7. Chained(t)
  BY Zenon DEF RestoreInv
<1>8. OneEach(step)
  BY Zenon, <1>2, <1>3, <1>5, <1>7, LastStep
<1>9. PICK st : st = Undone(store, step)
  BY Zenon
<1>10. IsStore(st) /\ Unmakes(store.entries, step, st.entries, st.evicted)
  <2>1. Placed(store, place) /\ Cardinality(Live(store)) <= Capacity /\ store.evicted = {}
    BY Zenon, <1>1 DEF Tracked, IndInv
  <2>2. step \in UndoSteps(place, store.next_sequence)
    BY Zenon, <1>2, <1>6
  <2>3. QED
    BY Zenon, <1>8, <1>9, <2>1, <2>2, UndoneUnmakes
<1>11. Change(t, st) /\ dropping' = dropping /\ levels' = [levels EXCEPT ![t] = [levels[t] EXCEPT ![n] = Front(levels[t][n])]]
  BY Zenon, <1>2, <1>5, <1>9 DEF Undo
<1>12. store'.entries = st.entries
  BY Zenon, <1>10, <1>11, ChangeEntries
<1>13. QED
  BY Zenon, <1>2, <1>3, <1>5, <1>10, <1>11, <1>12, UndoKeepsChains

\* clear_all leaves no level a baseline of its own.
LEMMA ClearAllChains ==
    ASSUME IndInv, RestoreInv, NEW t \in Tasks, ClearAll(t) PROVE RestoreInv'
<1>1. IsStore(store)
  BY Zenon DEF IndInv, Tracked, Placed
<1>2. PICK none, re, st : none = [p \in Baselines |-> NoEntry] /\ re = Relisted(store, none, {})
                          /\ st = [re EXCEPT !.evicted = Rows]
  BY Zenon
<1>3. re = [entries |-> none, order |-> {}, next_sequence |-> store.next_sequence, evicted |-> store.evicted]
  BY Zenon, <1>1, <1>2, RelistedIs
<1>4. st = [entries |-> none, order |-> {}, next_sequence |-> store.next_sequence, evicted |-> Rows]
  BY <1>2, <1>3
<1>5. IsStore(st) /\ st.evicted = Rows
  BY Zenon, <1>4 DEF IsStore
<1>6. Change(t, st) /\ levels' = levels /\ dropping' = dropping
  BY Zenon, <1>2 DEF ClearAll
<1>7. store'.entries = st.entries
  BY Zenon, <1>5, <1>6, ChangeEntries
<1>8. base \in [Tasks -> Seq(Bases)] /\ DropsOutside
  BY Zenon DEF RestoreInv
<1>9. \A l \in 1..Len(base[t]), p \in Baselines : base'[t][l][p] # Forgotten => p[1] \notin st.evicted
  BY Zenon, <1>6, <1>8, ChangeOwns
<1>10. \A l \in 1..Len(base[t]), p \in Baselines : base'[t][l][p] = Forgotten
  BY Zenon, <1>5, <1>9, BaselinesAssumption
<1>11. DropsOutside'
  BY Zenon, <1>6, <1>8 DEF DropsOutside
<1>12. QED
  BY Zenon, <1>6, <1>7, <1>10, <1>11, OthersKeepChains

\* Steps are dropped where no level is open.
LEMMA DropStepChains ==
    ASSUME IndInv, RestoreInv, NEW t \in Tasks, DropStep(t) PROVE RestoreInv'
<1>1. IsStore(store) /\ dropping = [u \in Tasks |-> dropping[u]]
  BY Zenon, TaskFunctions DEF IndInv, Tracked, Placed
<1>2. PICK step, st : step = Head(dropping[t]) /\ st = Spared(store, step)
  BY Zenon
<1>3. IsStore(st)
  <2>1. ASSUME NEW entries, NEW order, st = Relisted(store, entries, order) PROVE IsStore(st)
    <3>1. st = [entries |-> entries, order |-> order, next_sequence |-> store.next_sequence, evicted |-> store.evicted]
      BY Zenon, <1>1, <2>1, RelistedIs
    <3>2. QED
      BY Zenon, <3>1 DEF IsStore
  <2>2. QED
    BY Zenon, <1>1, <1>2, <2>1 DEF Spared, TakeAll
<1>4. Change(t, st) /\ levels' = levels /\ dropping' = [dropping EXCEPT ![t] = Tail(dropping[t])] /\ dropping[t] # <<>>
  BY Zenon, <1>2 DEF DropStep
<1>5. store'.entries = st.entries
  BY Zenon, <1>3, <1>4, ChangeEntries
<1>6. levels[t] = <<>> /\ Chained(t)
  BY Zenon, <1>4 DEF RestoreInv, DropsOutside
<1>7. 1..Len(base[t]) = {}
  BY Zenon, <1>6, NoLevels
<1>8. \A u \in Tasks \ {t} : dropping'[u] = dropping[u]
  BY Zenon, <1>1, <1>4
<1>9. DropsOutside'
  BY Zenon, <1>4, <1>6, <1>8 DEF RestoreInv, DropsOutside
<1>10. \A l \in 1..Len(base[t]), p \in Baselines : base'[t][l][p] = Forgotten
  BY Zenon, <1>7
<1>11. QED
  BY Zenon, <1>4, <1>5, <1>9, <1>10, OthersKeepChains

\* All of a sequence but the last
LEMMA AllButLast ==
    ASSUME NEW S, NEW q \in Seq(S), NEW n \in Nat \ {0}, n = Len(q)
    PROVE  Front(q) \in Seq(S) /\ Len(Front(q)) = n - 1 /\ \A j \in 1..n - 1 : j \in 1..n /\ Front(q)[j] = q[j]
<1>1. n - 1 \in Nat /\ n - 1 <= Len(q) /\ \A j \in 1..n - 1 : j \in 1..n
  OBVIOUS
<1>2. /\ SubSeq(q, 1, n - 1) \in Seq(S) /\ Len(SubSeq(q, 1, n - 1)) = n - 1
      /\ \A j \in 1..n - 1 : SubSeq(q, 1, n - 1)[j] = q[j]
  BY Zenon, <1>1, Prefix
<1>3. Front(q) = SubSeq(q, 1, n - 1)
  BY Zenon DEF Front
<1>4. QED
  BY Zenon, <1>1, <1>2, <1>3

\* Where nothing was done since, what there is is what there was.
LEMMA NothingSince ==
    ASSUME NEW flat, NEW m \in Nat, m = Len(flat), NEW p, NEW v, NEW e
    PROVE  ValuesOfEntry(e) = v => Linked(flat, m, p, v, e)
<1>1. m + 1 .. m = {}
  OBVIOUS
<1>2. QED
  BY Zenon, <1>1 DEF Linked, Reaches

\* A level begins with what there is.
LEMMA ChainOpens ==
    ASSUME NEW lv, NEW bs, NEW entries, NEW flat, NEW start, Chain(lv, bs, entries, flat, start),
           NEW now \in Bases, \A p \in Baselines : now[p] = ValuesOfEntry(entries[p])
    PROVE  Chain(Append(lv, <<>>), Append(bs, now), entries, flat, Append(start, Len(flat)))
<1>1. PICK own, bases, starts, n, m :
          /\ own = Append(lv, <<>>) /\ bases = Append(bs, now) /\ starts = Append(start, m)
          /\ n = Len(lv) /\ m = Len(flat)
  BY Zenon
<1>2. /\ IsFlat(RollbackSteps, lv, flat, start) /\ bs \in Seq(Bases) /\ Len(bs) = n
      /\ lv \in Seq(Seq(RollbackSteps)) /\ flat \in Seq(RollbackSteps) /\ start \in Seq(Nat) /\ Len(start) = n
  BY Zenon, <1>1 DEF Chain, IsFlat, Flat
<1>3. IsFlat(RollbackSteps, own, flat, starts)
  <2>1. IsFlat(RollbackSteps, Append(lv, <<>>), flat, Append(start, Len(flat)))
    BY Zenon, <1>2, FlatOpens
  <2>2. QED
    BY Zenon, <1>1, <2>1
<1>4. n \in Nat /\ m \in Nat /\ Len(own) = n + 1
  <2>1. n \in Nat /\ m \in Nat
    BY <1>1, <1>2
  <2>2. lv \in Seq(Seq(RollbackSteps)) /\ own = Append(lv, <<>>)
    BY Zenon, <1>1, <1>2
  <2>3. Len(own) = n + 1
    BY <1>1, <2>2
  <2>4. QED
    BY Zenon, <2>1, <2>3
<1>5. bases \in Seq(Bases) /\ Len(bases) = n + 1 /\ bases[n + 1] = now /\ \A l \in 1..n : bases[l] = bs[l]
  BY <1>1, <1>2
<1>6. starts[n + 1] = m /\ \A l \in 1..n : starts[l] = start[l]
  BY <1>1, <1>2, <1>4
<1>7. ASSUME NEW l \in 1..n + 1, NEW p \in Baselines, bases[l][p] # Forgotten
      PROVE  Linked(flat, starts[l], p, bases[l][p], entries[p])
  <2>1. CASE l \in 1..n
    BY Zenon, <1>1, <1>5, <1>6, <1>7, <2>1 DEF Chain
  <2>2. CASE l = n + 1
    <3>1. PICK v, e : v = now[p] /\ e = entries[p] /\ ValuesOfEntry(e) = v
      BY Zenon, <1>7
    <3>2. Linked(flat, m, p, v, e)
      BY Zenon, <1>1, <1>4, <3>1, NothingSince
    <3>3. QED
      BY Zenon, <1>5, <1>6, <2>2, <3>1, <3>2
  <2>3. l \in 1..n \/ l = n + 1
    BY <1>4, <1>7
  <2>4. QED
    BY Zenon, <2>1, <2>2, <2>3
<1>8. Chain(own, bases, entries, flat, starts)
  BY Zenon, <1>3, <1>4, <1>5, <1>7 DEF Chain
<1>9. QED
  BY Zenon, <1>1, <1>8

\* The last level ends, whether its steps go to the one below or there are none.
LEMMA ChainShortens ==
    ASSUME NEW lv, NEW bs, NEW entries, NEW flat, NEW start, Chain(lv, bs, entries, flat, start),
           NEW n \in Nat \ {0}, n = Len(lv), NEW own, IsFlat(RollbackSteps, own, flat, Front(start))
    PROVE  Chain(own, Front(bs), entries, flat, Front(start))
<1>1. PICK bases, starts : bases = Front(bs) /\ starts = Front(start)
  BY Zenon
<1>2. bs \in Seq(Bases) /\ Len(bs) = n /\ start \in Seq(Nat) /\ Len(start) = n
  BY Zenon DEF Chain, IsFlat, Flat
<1>3. bases \in Seq(Bases) /\ Len(bases) = n - 1 /\ \A l \in 1..n - 1 : l \in 1..n /\ bases[l] = bs[l]
  <2>1. Front(bs) \in Seq(Bases) /\ Len(Front(bs)) = n - 1 /\ \A l \in 1..n - 1 : l \in 1..n /\ Front(bs)[l] = bs[l]
    BY Zenon, <1>2, AllButLast
  <2>2. QED
    BY Zenon, <1>1, <2>1
<1>4. Len(starts) = n - 1 /\ \A l \in 1..n - 1 : starts[l] = start[l]
  <2>1. /\ Front(start) \in Seq(Nat) /\ Len(Front(start)) = n - 1
        /\ \A l \in 1..n - 1 : l \in 1..n /\ Front(start)[l] = start[l]
    BY Zenon, <1>2, AllButLast
  <2>2. QED
    BY Zenon, <1>1, <2>1
<1>5. IsFlat(RollbackSteps, own, flat, starts) /\ Len(own) = n - 1
  BY Zenon, <1>1, <1>4 DEF IsFlat, Flat
<1>6. \A l \in 1..n - 1, p \in Baselines :
          bases[l][p] # Forgotten => Linked(flat, starts[l], p, bases[l][p], entries[p])
  BY Zenon, <1>3, <1>4 DEF Chain
<1>7. Chain(own, bases, entries, flat, starts)
  BY Zenon, <1>3, <1>5, <1>6 DEF Chain
<1>8. QED
  BY Zenon, <1>1, <1>7

\* A task without levels has nothing to link.
LEMMA ChainEmpty ==
    ASSUME NEW bs \in Seq(Bases), Len(bs) = 0, NEW entries
    PROVE  Chain(<<>>, bs, entries, <<>>, <<>>)
<1>1. PICK none : none = <<>>
  BY Zenon
<1>2. none \in Seq(Seq(RollbackSteps)) /\ none \in Seq(RollbackSteps) /\ none \in Seq(Nat) /\ Len(none) = 0 /\ 1..0 = {}
  BY <1>1
<1>3. Flat(none, none, none)
  BY Zenon, <1>2 DEF Flat
<1>4. Chain(none, bs, entries, none, none)
  BY Zenon, <1>2, <1>3 DEF Chain, IsFlat
<1>5. QED
  BY Zenon, <1>1, <1>4

\* A task's own levels change, and the store stays.
LEMMA OwnLevelsChange ==
    ASSUME IndInv, RestoreInv, NEW t \in Tasks, NEW own, NEW bases, NEW flat, NEW start,
           Chain(own, bases, store.entries, flat, start),
           levels' = [levels EXCEPT ![t] = own], base' = [base EXCEPT ![t] = bases], store' = store, DropsOutside'
    PROVE  RestoreInv'
<1>1. base \in [Tasks -> Seq(Bases)] /\ (\A u \in Tasks : Chained(u)) /\ bases \in Seq(Bases)
  BY Zenon DEF RestoreInv, Chain
<1>2. levels = [u \in Tasks |-> levels[u]]
  BY Zenon, TaskFunctions
<1>3. levels'[t] = own /\ \A u \in Tasks \ {t} : levels'[u] = levels[u]
  BY Zenon, <1>2
<1>4. base' \in [Tasks -> Seq(Bases)] /\ base'[t] = bases /\ \A u \in Tasks \ {t} : base'[u] = base[u]
  BY Zenon, <1>1
<1>5. Chained(t)'
  <2>1. Chain(levels'[t], base'[t], store'.entries, flat, start)
    BY Zenon, <1>3, <1>4
  <2>2. QED
    BY Zenon, <2>1 DEF Chained
<1>6. ASSUME NEW u \in Tasks \ {t} PROVE Chained(u)'
  <2>1. PICK f, s : Chain(levels[u], base[u], store.entries, f, s)
    BY Zenon, <1>1, <1>6 DEF Chained
  <2>2. Chain(levels'[u], base'[u], store'.entries, f, s)
    BY Zenon, <1>3, <1>4, <1>6, <2>1
  <2>3. QED
    BY Zenon, <2>2 DEF Chained
<1>7. QED
  BY Zenon, <1>4, <1>5, <1>6 DEF RestoreInv

\* A level begins.
LEMMA BeginChains ==
    ASSUME IndInv, RestoreInv, NEW t \in Tasks, Begin(t) PROVE RestoreInv'
<1>1. PICK flat, start : Chain(levels[t], base[t], store.entries, flat, start)
  BY Zenon DEF RestoreInv, Chained
<1>2. PICK lv, bs, entries, now : /\ lv = levels[t] /\ bs = base[t] /\ entries = store.entries
                                  /\ now = [p \in Baselines |-> ValuesAt(p)]
  BY Zenon
<1>3. entries \in [Baselines -> Entries \cup {NoEntry}]
  BY Zenon, <1>2 DEF IndInv, Tracked, Placed
<1>4. \A p \in Baselines : now[p] = ValuesOfEntry(entries[p])
  BY Zenon, <1>2 DEF ValuesAt, ValuesOfEntry
<1>5. now \in Bases
  <2>1. ASSUME NEW p \in Baselines PROVE now[p] \in Values \cup {Forgotten, NoEntry}
    <3>1. PICK e : e = entries[p]
      BY Zenon
    <3>2. e = NoEntry \/ e \in Entries
      BY Zenon, <1>3, <3>1
    <3>3. e \in Entries => e.values \in Values \cup {Forgotten}
      BY DEF Entries
    <3>4. QED
      BY Zenon, <1>4, <3>1, <3>2, <3>3 DEF ValuesOfEntry
  <2>2. now = [p \in Baselines |-> now[p]]
    BY Zenon, <1>2
  <2>3. QED
    BY Zenon, <2>1, <2>2 DEF Bases
<1>6. PICK own, bases, starts : own = Append(lv, <<>>) /\ bases = Append(bs, now) /\ starts = Append(start, Len(flat))
  BY Zenon
<1>7. Chain(own, bases, entries, flat, starts)
  <2>1. Chain(lv, bs, entries, flat, start)
    BY Zenon, <1>1, <1>2
  <2>2. Chain(Append(lv, <<>>), Append(bs, now), entries, flat, Append(start, Len(flat)))
    BY Zenon, <1>4, <1>5, <2>1, ChainOpens
  <2>3. QED
    BY Zenon, <1>6, <2>2
<1>8. /\ levels' = [levels EXCEPT ![t] = own] /\ base' = [base EXCEPT ![t] = bases]
      /\ store' = store /\ dropping' = dropping /\ dropping[t] = <<>>
  BY Zenon, <1>2, <1>6 DEF Begin, Running
<1>9. \A u \in Tasks \ {t} : levels'[u] = levels[u]
  <2>1. levels = [u \in Tasks |-> levels[u]]
    BY Zenon, TaskFunctions
  <2>2. QED
    BY Zenon, <1>8, <2>1
<1>10. DropsOutside'
  BY Zenon, <1>8, <1>9 DEF RestoreInv, DropsOutside
<1>11. QED
  BY Zenon, <1>2, <1>7, <1>8, <1>10, OwnLevelsChange

\* A level commits.
LEMMA CommitChains ==
    ASSUME IndInv, RestoreInv, NEW t \in Tasks, Commit(t) PROVE RestoreInv'
<1>1. PICK flat, start : Chain(levels[t], base[t], store.entries, flat, start)
  BY Zenon DEF RestoreInv, Chained
<1>2. PICK lv, bs, entries, n : lv = levels[t] /\ bs = base[t] /\ entries = store.entries /\ n = Len(lv)
  BY Zenon
<1>3. Chain(lv, bs, entries, flat, start) /\ lv # <<>> /\ store' = store /\ base' = [base EXCEPT ![t] = Front(bs)]
  BY Zenon, <1>1, <1>2 DEF Commit
<1>4. IsFlat(RollbackSteps, lv, flat, start) /\ lv \in Seq(Seq(RollbackSteps)) /\ bs \in Seq(Bases) /\ Len(bs) = n
  BY Zenon, <1>2, <1>3 DEF Chain, IsFlat
<1>5. n \in Nat \ {0} /\ n \in Nat
  <2>1. Len(lv) \in Nat \ {0}
    BY Zenon, <1>3, <1>4, NonEmptySeq
  <2>2. QED
    BY Zenon, <1>2, <2>1
<1>6. levels = [u \in Tasks |-> levels[u]] /\ dropping = [u \in Tasks |-> dropping[u]]
  BY Zenon, TaskFunctions
<1>7. CASE n > 1
  <2>1. PICK own : own = Append(SubSeq(lv, 1, n - 2), lv[n - 1] \o lv[n])
    BY Zenon
  <2>2. IsFlat(RollbackSteps, own, flat, Front(start))
    <3>1. IsFlat(RollbackSteps, Append(SubSeq(lv, 1, n - 2), lv[n - 1] \o lv[n]), flat, Front(start))
      BY Zenon, <1>2, <1>4, <1>5, <1>7, FlatMerges
    <3>2. QED
      BY Zenon, <2>1, <3>1
  <2>3. Chain(own, Front(bs), entries, flat, Front(start))
    BY Zenon, <1>2, <1>3, <1>5, <2>2, ChainShortens
  <2>4. levels' = [levels EXCEPT ![t] = own] /\ dropping' = dropping /\ dropping[t] = <<>>
    BY Zenon, <1>2, <1>7, <2>1 DEF Commit, Running
  <2>5. DropsOutside'
    <3>1. \A u \in Tasks \ {t} : levels'[u] = levels[u]
      BY Zenon, <1>6, <2>4
    <3>2. QED
      BY Zenon, <2>4, <3>1 DEF RestoreInv, DropsOutside
  <2>6. QED
    BY Zenon, <1>2, <1>3, <2>3, <2>4, <2>5, OwnLevelsChange
<1>8. CASE ~(n > 1)
  <2>1. PICK own, bases, none : own = <<>> /\ bases = Front(bs) /\ none = <<>>
    BY Zenon
  <2>2. n = 1
    BY <1>5, <1>8
  <2>3. bases \in Seq(Bases) /\ Len(bases) = 0
    <3>1. Front(bs) \in Seq(Bases) /\ Len(Front(bs)) = n - 1 /\ \A j \in 1..n - 1 : j \in 1..n /\ Front(bs)[j] = bs[j]
      BY Zenon, <1>4, <1>5, AllButLast
    <3>2. n - 1 = 0
      BY <2>2
    <3>3. QED
      BY Zenon, <2>1, <3>1, <3>2
  <2>4. Chain(own, bases, entries, none, none)
    <3>1. Chain(<<>>, bases, entries, <<>>, <<>>)
      BY Zenon, <2>3, ChainEmpty
    <3>2. QED
      BY Zenon, <2>1, <3>1
  <2>5. levels' = [levels EXCEPT ![t] = own] /\ dropping' = [dropping EXCEPT ![t] = lv[1]]
    BY Zenon, <1>2, <1>8, <2>1 DEF Commit
  <2>6. DropsOutside'
    <3>1. levels'[t] = <<>> /\ \A u \in Tasks \ {t} : levels'[u] = levels[u] /\ dropping'[u] = dropping[u]
      BY Zenon, <1>6, <2>1, <2>5
    <3>2. QED
      BY Zenon, <3>1 DEF RestoreInv, DropsOutside
  <2>7. base' = [base EXCEPT ![t] = bases]
    BY Zenon, <1>3, <2>1
  <2>8. QED
    BY Zenon, <1>2, <1>3, <2>4, <2>5, <2>6, <2>7, OwnLevelsChange
<1>9. QED
  BY Zenon, <1>7, <1>8

\* A level that has rolled back ends.
LEMMA EndUndoChains ==
    ASSUME IndInv, RestoreInv, NEW t \in Tasks, EndUndo(t) PROVE RestoreInv'
<1>1. PICK flat, start : Chain(levels[t], base[t], store.entries, flat, start)
  BY Zenon DEF RestoreInv, Chained
<1>2. PICK lv, bs, entries, n : lv = levels[t] /\ bs = base[t] /\ entries = store.entries /\ n = Len(lv)
  BY Zenon
<1>3. /\ Chain(lv, bs, entries, flat, start) /\ lv # <<>> /\ lv[n] = <<>> /\ store' = store /\ dropping' = dropping
      /\ levels' = [levels EXCEPT ![t] = Front(lv)] /\ base' = [base EXCEPT ![t] = Front(bs)]
  BY Zenon, <1>1, <1>2 DEF EndUndo, IndInv, RollingBack
<1>4. IsFlat(RollbackSteps, lv, flat, start) /\ lv \in Seq(Seq(RollbackSteps))
  BY Zenon, <1>3 DEF Chain, IsFlat
<1>5. Len(lv) \in Nat \ {0}
  BY Zenon, <1>3, <1>4, NonEmptySeq
<1>6. n \in Nat \ {0} /\ n \in 1..Len(lv)
  BY <1>2, <1>5
<1>7. IsFlat(RollbackSteps, Front(lv), flat, Front(start)) /\ AtEnd(flat, start[n])
  BY Zenon, <1>2, <1>3, <1>4, <1>6, FlatCloses
<1>8. Chain(Front(lv), Front(bs), entries, flat, Front(start))
  BY Zenon, <1>2, <1>3, <1>6, <1>7, ChainShortens
<1>9. levels = [u \in Tasks |-> levels[u]]
  BY Zenon, TaskFunctions
<1>10. levels'[t] = Front(lv) /\ \A u \in Tasks \ {t} : levels'[u] = levels[u]
  BY Zenon, <1>3, <1>9
<1>11. dropping[t] = <<>>
  BY Zenon, <1>2, <1>3 DEF RestoreInv, DropsOutside
<1>12. DropsOutside'
  BY Zenon, <1>3, <1>10, <1>11 DEF RestoreInv, DropsOutside
<1>13. QED
  BY Zenon, <1>2, <1>3, <1>8, <1>12, OwnLevelsChange

\* Where nothing but the mode changes
LEMMA ChainsStay ==
    ASSUME RestoreInv, store' = store, levels' = levels, dropping' = dropping, base' = base PROVE RestoreInv'
<1>1. ASSUME NEW u \in Tasks PROVE Chained(u)'
  <2>1. PICK f, s : Chain(levels[u], base[u], store.entries, f, s)
    BY Zenon, <1>1 DEF RestoreInv, Chained
  <2>2. Chain(levels'[u], base'[u], store'.entries, f, s)
    BY Zenon, <2>1
  <2>3. QED
    BY Zenon, <2>2 DEF Chained
<1>2. DropsOutside' /\ base' \in [Tasks -> Seq(Bases)]
  BY Zenon DEF RestoreInv, DropsOutside
<1>3. QED
  BY Zenon, <1>1, <1>2 DEF RestoreInv

\* Every step keeps the steps of every task linked.
LEMMA NextChains ==
    ASSUME Capacity \in Nat, NoEntry \notin Entries, IndInv, RestoreInv, [Next]_vars PROVE RestoreInv'
<1>1. ASSUME NEW t \in Tasks, NEW p \in Baselines, NEW v \in Values, RememberModel(t, p, v) PROVE RestoreInv'
  BY Zenon, <1>1, SetBaselineChains DEF RememberModel
<1>2. ASSUME NEW t \in Tasks, NEW p \in Baselines, ForgetModel(t, p) PROVE RestoreInv'
  BY Zenon, <1>2, SetBaselineChains DEF ForgetModel
<1>3. ASSUME NEW t \in Tasks, NEW model, InvalidateModel(t, model) PROVE RestoreInv'
  BY Zenon, <1>3, InvalidateModelChains
<1>4. ASSUME NEW t \in Tasks, Begin(t) \/ Commit(t) \/ EndUndo(t) PROVE RestoreInv'
  BY Zenon, <1>4, BeginChains, CommitChains, EndUndoChains
<1>5. ASSUME NEW t \in Tasks, Rollback(t) PROVE RestoreInv'
  <2>1. store' = store /\ levels' = levels /\ dropping' = dropping /\ base' = base
    BY Zenon, <1>5 DEF Rollback
  <2>2. QED
    BY Zenon, <2>1, ChainsStay
<1>6. ASSUME NEW t \in Tasks, Undo(t) \/ DropStep(t) \/ ClearAll(t) PROVE RestoreInv'
  BY Zenon, <1>6, UndoChains, DropStepChains, ClearAllChains
<1>7. CASE UNCHANGED vars
  <2>1. store' = store /\ levels' = levels /\ dropping' = dropping /\ base' = base
    BY <1>7 DEF vars
  <2>2. QED
    BY Zenon, <2>1, ChainsStay
<1>8. QED
  BY Zenon, <1>1, <1>2, <1>3, <1>4, <1>5, <1>6, <1>7 DEF Next

\* Nothing is recorded at first.
LEMMA InitChains ==
    ASSUME Init PROVE RestoreInv
<1>1. PICK none : none = <<>>
  BY Zenon
<1>2. none \in Seq(Bases) /\ Len(none) = 0
  BY <1>1
<1>3. base = [t \in Tasks |-> none] /\ \A t \in Tasks : levels[t] = <<>> /\ base[t] = none
  BY Zenon, <1>1 DEF Init
<1>4. ASSUME NEW t \in Tasks PROVE Chained(t)
  <2>1. PICK entries : entries = store.entries
    BY Zenon
  <2>2. Chain(<<>>, none, entries, <<>>, <<>>)
    BY Zenon, <1>2, ChainEmpty
  <2>3. Chain(levels[t], base[t], store.entries, <<>>, <<>>)
    BY Zenon, <1>3, <1>4, <2>1, <2>2
  <2>4. QED
    BY Zenon, <2>3 DEF Chained
<1>5. base \in [Tasks -> Seq(Bases)] /\ DropsOutside
  BY Zenon, <1>2, <1>3 DEF DropsOutside
<1>6. QED
  BY Zenon, <1>4, <1>5 DEF RestoreInv

\* When a level has no step left, its baselines are the ones it began with.
LEMMA ChainsRestore ==
    ASSUME IndInv, RestoreInv, NEW t \in Tasks, mode[t] = "undo", Last(levels[t]) = <<>>,
           NEW p \in Baselines, Last(base[t])[p] # Forgotten
    PROVE  ValuesAt(p) = Last(base[t])[p]
<1>1. PICK flat, start : Chain(levels[t], base[t], store.entries, flat, start)
  BY Zenon DEF RestoreInv, Chained
<1>2. PICK lv, bs, entries, n, m :
          lv = levels[t] /\ bs = base[t] /\ entries = store.entries /\ n = Len(lv) /\ m = Len(flat)
  BY Zenon
<1>3. Chain(lv, bs, entries, flat, start) /\ lv # <<>> /\ lv[n] = <<>>
  BY Zenon, <1>1, <1>2 DEF IndInv, RollingBack, Last
<1>4. IsFlat(RollbackSteps, lv, flat, start) /\ lv \in Seq(Seq(RollbackSteps)) /\ flat \in Seq(RollbackSteps) /\ Len(bs) = n
  BY Zenon, <1>2, <1>3 DEF Chain, IsFlat
<1>5. Len(lv) \in Nat \ {0}
  BY Zenon, <1>3, <1>4, NonEmptySeq
<1>6. n \in 1..Len(lv) /\ m \in Nat
  BY <1>2, <1>4, <1>5
<1>7. IsFlat(RollbackSteps, Front(lv), flat, Front(start)) /\ AtEnd(flat, start[n])
  BY Zenon, <1>2, <1>3, <1>4, <1>6, FlatCloses
<1>8. PICK v, e : v = bs[n][p] /\ e = entries[p]
  BY Zenon
<1>9. Last(base[t])[p] = v
  BY Zenon, <1>2, <1>4, <1>8 DEF Last
<1>10. Linked(flat, m, p, v, e)
  <2>1. bs[n][p] # Forgotten
    BY Zenon, <1>8, <1>9
  <2>2. Linked(flat, start[n], p, bs[n][p], entries[p])
    BY Zenon, <1>3, <1>6, <2>1 DEF Chain
  <2>3. QED
    BY Zenon, <1>2, <1>7, <1>8, <2>2 DEF AtEnd
<1>11. ValuesOfEntry(e) = v
  <2>1. m + 1 .. m = {}
    BY <1>6
  <2>2. QED
    BY Zenon, <1>2, <1>10, <2>1 DEF Linked, Reaches
<1>12. ValuesAt(p) = ValuesOfEntry(e)
  BY Zenon, <1>2, <1>8 DEF ValuesAt, ValuesOfEntry
<1>13. QED
  BY Zenon, <1>9, <1>11, <1>12

\* A transaction or savepoint that has rolled back leaves every baseline that it
\* began with and that is still its own, whatever it remembered, forgot and
\* invalidated, whatever its committed savepoints did, and whatever other tasks
\* did meanwhile (set_baseline and invalidate_model with undo_on_rollback).
THEOREM RollbacksRestore ==
    Spec => []RollbackRestores
<1>1. Capacity \in Nat /\ NoEntry \notin Entries
  BY BaselinesAssumption DEF Entries
<1>2. Init => RestoreInv
  BY Zenon, InitChains
<1>3. IndInv /\ RestoreInv /\ [Next]_vars => RestoreInv'
  BY Zenon, <1>1, NextChains
<1>4. IndInv /\ RestoreInv => RollbackRestores
  BY Zenon, ChainsRestore DEF RollbackRestores
<1>5. Spec => []IndInv
  BY <1>1, IndInvIsInvariant
<1>6. QED
  BY <1>2, <1>3, <1>4, <1>5, PTL DEF Spec
===============================================================================
