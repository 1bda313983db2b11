---------------------------- MODULE MigratorProofs ----------------------------
(***************************************************************************)
(* What the migrator promises, for every number of processes, migrations,  *)
(* calls and faults.                                                       *)
(*                                                                         *)
(* The argument: only the holder of the lock is past "waiting", so the     *)
(* ledger it has read changes under it by marks and by COMMITs of          *)
(* processes that are gone only, and `meddled` remembers both.  A row that *)
(* a transaction is about to add is not in the ledger, because the server  *)
(* has checked its key and lets nobody else write it.                      *)
(***************************************************************************)
EXTENDS Migrator, FiniteSetTheorems, TLAPS

-------------------------------------------------------------------------------
(* Sequences                                                               *)

\* A row is appended.
LEMMA Appended ==
    ASSUME NEW S, NEW s \in Seq(S), IsInjective(s), NEW e \in S, e \notin Range(s)
    PROVE  Append(s, e) \in Seq(S) /\ IsInjective(Append(s, e)) /\ Range(Append(s, e)) = Range(s) \cup {e}
<1>1. PICK r : r = Append(s, e)
  BY Zenon
<1>2. r \in Seq(S) /\ DOMAIN r = 1..Len(s) + 1 /\ DOMAIN s = 1..Len(s) /\ Len(s) \in Nat
  BY <1>1
<1>3. r[Len(s) + 1] = e /\ \A i \in 1..Len(s) : r[i] = s[i]
  BY <1>1
<1>4. Range(r) = Range(s) \cup {e}
  BY <1>2, <1>3 DEF Range
<1>5. IsInjective(r)
  BY <1>2, <1>3 DEF IsInjective, Range
<1>6. QED
  BY <1>1, <1>2, <1>4, <1>5

\* A sequence over a set is one over any larger set.
LEMMA SeqGrows ==
    ASSUME NEW S, NEW T, S \subseteq T PROVE Seq(S) \subseteq Seq(T)
  OBVIOUS

\* Two sequences, one after the other.
LEMMA Joined ==
    ASSUME NEW S, NEW a \in Seq(S), NEW b \in Seq(S)
    PROVE  /\ a \o b \in Seq(S) /\ Len(a \o b) = Len(a) + Len(b)
           /\ \A j \in 1..Len(a) + Len(b) : (a \o b)[j] = IF j <= Len(a) THEN a[j] ELSE b[j - Len(a)]
  OBVIOUS

\* The elements of a sequence and of the sequence without one of them.
LEMMA RemoveAtIs ==
    ASSUME NEW S, NEW s \in Seq(S), NEW i \in 1..Len(s)
    PROVE  /\ RemoveAt(s, i) \in Seq(S) /\ Len(RemoveAt(s, i)) = Len(s) - 1
           /\ \A j \in 1..Len(s) - 1 : RemoveAt(s, i)[j] = IF j < i THEN s[j] ELSE s[j + 1]
<1>1. PICK a, b : a = SubSeq(s, 1, i - 1) /\ b = SubSeq(s, i + 1, Len(s))
  BY Zenon
<1>2. Len(s) \in Nat /\ i \in Nat /\ i >= 1 /\ i <= Len(s)
  OBVIOUS
<1>3. a \in Seq(S) /\ Len(a) = i - 1 /\ \A j \in 1..i - 1 : a[j] = s[j]
  BY <1>1, <1>2
<1>4. b \in Seq(S) /\ Len(b) = Len(s) - i /\ \A j \in 1..Len(s) - i : b[j] = s[j + i]
  BY <1>1, <1>2
<1>5. PICK r : r = a \o b
  BY Zenon
<1>6. /\ r \in Seq(S) /\ Len(r) = Len(s) - 1
      /\ \A j \in 1..Len(s) - 1 : r[j] = IF j <= i - 1 THEN a[j] ELSE b[j - (i - 1)]
  <2>1. /\ r \in Seq(S) /\ Len(r) = Len(a) + Len(b)
        /\ \A j \in 1..Len(a) + Len(b) : r[j] = IF j <= Len(a) THEN a[j] ELSE b[j - Len(a)]
    BY Zenon, <1>3, <1>4, <1>5, Joined
  <2>2. Len(a) + Len(b) = Len(s) - 1
    BY <1>2, <1>3, <1>4
  <2>3. QED
    BY <1>3, <2>1, <2>2
<1>7. ASSUME NEW j \in 1..Len(s) - 1 PROVE r[j] = IF j < i THEN s[j] ELSE s[j + 1]
  <2>1. CASE j < i
    <3>1. j \in 1..i - 1 /\ j <= i - 1
      BY <1>2, <2>1
    <3>2. r[j] = a[j] /\ a[j] = s[j]
      BY <1>3, <1>6, <3>1
    <3>3. QED
      BY <2>1, <3>2
  <2>2. CASE j >= i
    <3>1. j - (i - 1) \in 1..Len(s) - i /\ (j - (i - 1)) + i = j + 1
      BY <1>2, <2>2
    <3>2. b[j - (i - 1)] = s[j + 1]
      BY <1>4, <3>1
    <3>3. QED
      BY <1>2, <1>6, <2>2, <3>2
  <2>3. QED
    BY <1>2, <2>1, <2>2
<1>8. QED
  BY Zenon, <1>1, <1>5, <1>6, <1>7 DEF RemoveAt

\* A row is deleted.
LEMMA Removed ==
    ASSUME NEW S, NEW s \in Seq(S), IsInjective(s), NEW i \in DOMAIN s
    PROVE  /\ RemoveAt(s, i) \in Seq(S) /\ IsInjective(RemoveAt(s, i))
           /\ Range(RemoveAt(s, i)) = Range(s) \ {s[i]}
<1>1. PICK r : r = RemoveAt(s, i)
  OBVIOUS
<1>2. DOMAIN s = 1..Len(s) /\ Len(s) \in Nat
  OBVIOUS
<1>3. r \in Seq(S) /\ Len(r) = Len(s) - 1 /\ \A j \in 1..Len(s) - 1 : r[j] = IF j < i THEN s[j] ELSE s[j + 1]
  BY Zenon, <1>1, <1>2, RemoveAtIs
<1>4. DOMAIN r = 1..Len(s) - 1
  BY <1>2, <1>3
<1>5. IsInjective(r)
  <2>1. SUFFICES ASSUME NEW j \in 1..Len(s) - 1, NEW k \in 1..Len(s) - 1, r[j] = r[k] PROVE j = k
    BY <1>4 DEF IsInjective
  <2>2. \A a, b \in 1..Len(s) : s[a] = s[b] => a = b
    BY <1>2 DEF IsInjective
  <2>3. QED
    BY <1>2, <1>3, <2>1, <2>2
<1>6. ASSUME NEW x \in Range(r) PROVE x \in Range(s) \ {s[i]}
  <2>1. PICK j \in 1..Len(s) - 1 : x = r[j]
    BY <1>4, <1>6 DEF Range
  <2>2. \E k \in DOMAIN s : k # i /\ x = s[k]
    BY <1>2, <1>3, <2>1
  <2>3. QED
    BY <2>2 DEF Range, IsInjective
<1>7. ASSUME NEW x \in Range(s) \ {s[i]} PROVE x \in Range(r)
  <2>1. PICK k \in DOMAIN s : x = s[k] /\ k # i
    BY <1>7 DEF Range
  <2>2. \E j \in 1..Len(s) - 1 : r[j] = s[k]
    <3>1. CASE k < i
      <4>1. k \in 1..Len(s) - 1
        BY <1>2, <3>1
      <4>2. QED
        BY <1>3, <3>1, <4>1
    <3>2. CASE k > i
      <4>1. k - 1 \in 1..Len(s) - 1 /\ ~(k - 1 < i) /\ (k - 1) + 1 = k
        BY <1>2, <3>2
      <4>2. QED
        BY <1>3, <4>1
    <3>3. QED
      BY <1>2, <2>1, <3>1, <3>2
  <2>3. QED
    BY <1>4, <2>1, <2>2 DEF Range
<1>8. QED
  BY <1>1, <1>3, <1>5, <1>6, <1>7

\* A row with an id from before is inserted among the others.
LEMMA Inserted ==
    ASSUME NEW S, NEW s \in Seq(S), IsInjective(s), NEW e \in S, e \notin Range(s), NEW i \in 1..Len(s) + 1
    PROVE  /\ InsertAt(s, i, e) \in Seq(S) /\ IsInjective(InsertAt(s, i, e))
           /\ Range(InsertAt(s, i, e)) = Range(s) \cup {e}
<1>1. PICK a, b : a = SubSeq(s, 1, i - 1) /\ b = SubSeq(s, i, Len(s))
  BY Zenon
<1>2. Len(s) \in Nat /\ i \in Nat /\ i >= 1 /\ i <= Len(s) + 1 /\ DOMAIN s = 1..Len(s)
  OBVIOUS
<1>3. a \in Seq(S) /\ Len(a) = i - 1 /\ \A j \in 1..i - 1 : a[j] = s[j]
  BY <1>1, <1>2
<1>4. b \in Seq(S) /\ Len(b) = Len(s) + 1 - i /\ \A j \in 1..Len(s) + 1 - i : b[j] = s[j + i - 1]
  BY <1>1, <1>2
<1>5. PICK c : c = a \o <<e>>
  BY Zenon
<1>6. c \in Seq(S) /\ Len(c) = i /\ c[i] = e /\ \A j \in 1..i - 1 : c[j] = s[j]
  BY <1>2, <1>3, <1>5
<1>7. PICK r : r = c \o b
  BY Zenon
<1>8. /\ r \in Seq(S) /\ Len(r) = Len(s) + 1
      /\ \A j \in 1..Len(s) + 1 : r[j] = IF j <= i THEN c[j] ELSE b[j - i]
  <2>1. /\ r \in Seq(S) /\ Len(r) = Len(c) + Len(b)
        /\ \A j \in 1..Len(c) + Len(b) : r[j] = IF j <= Len(c) THEN c[j] ELSE b[j - Len(c)]
    BY Zenon, <1>4, <1>6, <1>7, Joined
  <2>2. Len(c) + Len(b) = Len(s) + 1
    BY <1>2, <1>4, <1>6
  <2>3. QED
    BY <1>6, <2>1, <2>2
<1>9. r[i] = e /\ \A j \in 1..i - 1 : r[j] = s[j]
  BY <1>2, <1>6, <1>8
<1>10. ASSUME NEW j \in i..Len(s) PROVE r[j + 1] = s[j]
  <2>1. PICK k, l : k = j + 1 /\ l = k - i
    OBVIOUS
  <2>2. k \in 1..Len(s) + 1 /\ ~(k <= i) /\ l \in 1..Len(s) + 1 - i /\ l + i - 1 = j
    BY <1>2, <2>1
  <2>3. r[k] = b[l]
    BY <1>8, <2>1, <2>2
  <2>4. b[l] = s[j]
    BY <1>4, <2>2
  <2>5. QED
    BY <2>1, <2>3, <2>4
<1>11. DOMAIN r = 1..Len(s) + 1
  BY <1>2, <1>8
<1>12. \A k \in DOMAIN r : k = i \/ (k \in 1..i - 1 /\ r[k] = s[k])
                                 \/ (k - 1 \in i..Len(s) /\ r[k] = s[k - 1])
  <2>1. SUFFICES ASSUME NEW k \in 1..Len(s) + 1, k > i PROVE k - 1 \in i..Len(s) /\ r[k] = s[k - 1]
    BY <1>2, <1>9, <1>11
  <2>2. k - 1 \in i..Len(s) /\ (k - 1) + 1 = k
    BY <1>2, <2>1
  <2>3. QED
    BY <1>10, <2>2
<1>13. Range(r) = Range(s) \cup {e}
  <2>1. ASSUME NEW x \in Range(r) PROVE x \in Range(s) \cup {e}
    BY <1>2, <1>9, <1>12, <2>1 DEF Range
  <2>2. ASSUME NEW k \in DOMAIN s PROVE s[k] \in Range(r)
    <3>1. \E j \in 1..Len(s) + 1 : r[j] = s[k]
      <4>1. CASE k < i
        BY <1>2, <1>9, <4>1
      <4>2. CASE k >= i
        <5>1. k \in i..Len(s) /\ k + 1 \in 1..Len(s) + 1
          BY <1>2, <4>2
        <5>2. QED
          BY <1>10, <5>1
      <4>3. QED
        BY <1>2, <4>1, <4>2
    <3>2. QED
      BY <1>11, <3>1 DEF Range
  <2>3. e \in Range(r)
    BY <1>2, <1>9, <1>11 DEF Range
  <2>4. QED
    BY SMTT(60), <2>1, <2>2, <2>3 DEF Range
<1>14. IsInjective(r)
  <2>1. SUFFICES ASSUME NEW j \in DOMAIN r, NEW k \in DOMAIN r, r[j] = r[k] PROVE j = k
    BY DEF IsInjective
  <2>2. \A x, y \in 1..Len(s) : s[x] = s[y] => x = y
    BY <1>2 DEF IsInjective
  <2>3. \A x \in 1..Len(s) : s[x] # e
    BY <1>2 DEF Range
  <2>4. ASSUME NEW x \in DOMAIN r PROVE x = i <=> r[x] = e
    BY <1>2, <1>9, <1>12, <2>3
  <2>5. CASE j = i
    BY <2>1, <2>4, <2>5
  <2>6. CASE j # i /\ k # i
    <3>1. ASSUME NEW x \in DOMAIN r, x # i
          PROVE  \E y \in 1..Len(s) : r[x] = s[y] /\ x = IF y < i THEN y ELSE y + 1
      <4>1. CASE x \in 1..i - 1 /\ r[x] = s[x]
        BY <1>2, <4>1
      <4>2. CASE x - 1 \in i..Len(s) /\ r[x] = s[x - 1]
        BY <1>2, <1>11, <4>2
      <4>3. QED
        BY <1>12, <3>1, <4>1, <4>2
    <3>2. PICK y \in 1..Len(s) : r[j] = s[y] /\ j = IF y < i THEN y ELSE y + 1
      BY <2>6, <3>1
    <3>3. PICK z \in 1..Len(s) : r[k] = s[z] /\ k = IF z < i THEN z ELSE z + 1
      BY <2>6, <3>1
    <3>4. y = z
      BY Zenon, <2>1, <2>2, <3>2, <3>3
    <3>5. QED
      BY <3>2, <3>3, <3>4
  <2>7. QED
    BY <2>1, <2>4, <2>5, <2>6
<1>15. QED
  BY <1>1, <1>5, <1>7, <1>8, <1>13, <1>14 DEF InsertAt

-------------------------------------------------------------------------------
(* Sorting                                                                 *)

\* A set of numbers has a least one.
LEMMA LeastNumber ==
    ASSUME NEW T, T \subseteq Nat, T # {}
    PROVE  \E x \in T : \A y \in T : x <= y
<1> DEFINE R == OpToRel(<, Nat)
<1>1. IsWellFoundedOn(R, Nat)   BY Zenon, NatLessThanWellFounded
<1>2. R = {ss \in Nat \X Nat : ss[1] < ss[2]}   BY DEF OpToRel
<1> HIDE DEF R
<1>3. PICK x \in T : \A y \in T : ~(<<y, x>> \in R)   BY Zenon, <1>1, WFMin
<1>4. ASSUME NEW y \in T PROVE x <= y
  <2>1. y \in Nat /\ x \in Nat /\ <<y, x>> \notin R
    BY <1>3
  <2>2. QED
    BY <1>2, <2>1
<1>5. QED   BY <1>3, <1>4

Sorts(s, T) ==
    /\ s \in [1..Cardinality(T) -> T] /\ Range(s) = T
    /\ \A i, j \in DOMAIN s : i < j => s[i] < s[j]

\* A least number, and then the others in order.
LEMMA LeastFirst ==
    ASSUME NEW T, T \subseteq Nat, IsFiniteSet(T), NEW x \in T, \A y \in T : x <= y,
           NEW f, Sorts(f, T \ {x})
    PROVE  \E s : Sorts(s, T)
<1>1. PICK n \in Nat : n = Cardinality(T)
  BY FS_CardinalityType
<1>2. Cardinality(T \ {x}) = n - 1 /\ n >= 1
  <2>1. IsFiniteSet(T \ {x}) /\ Cardinality(T \ {x}) = Cardinality(T) - 1
    BY Zenon, FS_RemoveElement
  <2>2. Cardinality(T \ {x}) \in Nat
    BY <2>1, FS_CardinalityType
  <2>3. QED
    BY <1>1, <2>1, <2>2
<1>3. f \in [1..n - 1 -> T \ {x}] /\ Range(f) = T \ {x} /\ \A i, j \in 1..n - 1 : i < j => f[i] < f[j]
  BY Zenon, <1>2 DEF Sorts
<1>4. PICK s : s = [i \in 1..n |-> IF i = 1 THEN x ELSE f[i - 1]]
  BY Zenon
<1>5. ASSUME NEW i \in 1..n, i # 1 PROVE i - 1 \in 1..n - 1 /\ s[i] = f[i - 1] /\ s[i] \in T \ {x}
  BY <1>1, <1>3, <1>4, <1>5
<1>6. s[1] = x /\ 1 \in 1..n /\ DOMAIN s = 1..n
  BY <1>1, <1>2, <1>4
<1>7. s \in [1..n -> T]
  BY <1>4, <1>5, <1>6
<1>8. Range(s) = T
  <2>1. ASSUME NEW y \in T \ {x} PROVE y \in Range(s)
    <3>1. PICK k \in 1..n - 1 : y = f[k]
      BY <1>3 DEF Range
    <3>2. k + 1 \in 1..n /\ k + 1 # 1 /\ (k + 1) - 1 = k
      BY <1>1, <1>2
    <3>3. s[k + 1] = y
      BY <1>5, <3>1, <3>2
    <3>4. QED
      BY <1>6, <3>2, <3>3 DEF Range
  <2>2. x \in Range(s)
    BY <1>6 DEF Range
  <2>3. QED
    BY Zenon, <1>6, <1>7, <2>1, <2>2 DEF Range
<1>9. ASSUME NEW i \in 1..n, NEW j \in 1..n, i < j PROVE s[i] < s[j]
  <2>1. j # 1 /\ i \in Nat /\ j \in Nat
    BY <1>1, <1>9
  <2>2. CASE i = 1
    <3>1. s[j] \in T \ {x}
      BY <1>5, <2>1
    <3>2. PICK y : y = s[j]
      OBVIOUS
    <3>3. y \in Nat /\ x \in Nat /\ x <= y /\ x # y
      BY Zenon, <3>1, <3>2
    <3>4. x < y
      BY <3>3
    <3>5. QED
      BY <1>6, <2>2, <3>2, <3>4
  <2>3. CASE i # 1
    <3>1. s[i] = f[i - 1] /\ s[j] = f[j - 1] /\ i - 1 \in 1..n - 1 /\ j - 1 \in 1..n - 1
      BY <1>5, <2>1, <2>3
    <3>2. i - 1 < j - 1
      BY <1>9, <2>1
    <3>3. QED
      BY <1>3, <3>1, <3>2
  <2>4. QED
    BY <2>2, <2>3
<1>10. Sorts(s, T)
  BY <1>1, <1>6, <1>7, <1>8, <1>9 DEF Sorts
<1>11. QED
  BY <1>10

\* Finitely many numbers can be put in order: a smallest set that could not would
\* have a least number, without which it could.
LEMMA Sortable ==
    ASSUME NEW T, T \subseteq Nat, IsFiniteSet(T)
    PROVE  \E s : Sorts(s, T)
<1> DEFINE Stuck(U) == U \subseteq Nat /\ IsFiniteSet(U) /\ ~\E s : Sorts(s, U)
           Bad == {n \in Nat : \E U \in SUBSET Nat : Stuck(U) /\ Cardinality(U) = n}
<1>1. SUFFICES ASSUME Stuck(T) PROVE FALSE
  OBVIOUS
<1>2. Cardinality(T) \in Bad
  BY <1>1, FS_CardinalityType
<1>3. PICK n \in Bad : \A k \in Bad : n <= k
  BY Zenon, <1>2, LeastNumber
<1>4. PICK U \in SUBSET Nat : Stuck(U) /\ Cardinality(U) = n
  BY <1>3
<1>5. U # {}
  <2>1. SUFFICES ASSUME U = {} PROVE FALSE
    OBVIOUS
  <2>2. Cardinality(U) = 0
    BY <2>1, FS_EmptySet
  <2>3. PICK s : s = [i \in 1..0 |-> 0]
    OBVIOUS
  <2>4. DOMAIN s = {} /\ s \in [1..0 -> {}]
    BY <2>3
  <2>5. Sorts(s, U)
    BY <2>1, <2>2, <2>4 DEF Sorts, Range
  <2>6. QED
    BY <1>4, <2>5
<1>6. PICK x \in U : \A y \in U : x <= y
  BY Zenon, <1>5, LeastNumber
<1>7. IsFiniteSet(U \ {x}) /\ Cardinality(U \ {x}) = n - 1 /\ n - 1 \in Nat
  <2>1. IsFiniteSet(U \ {x}) /\ Cardinality(U \ {x}) = Cardinality(U) - 1
    BY Zenon, <1>4, <1>6, FS_RemoveElement
  <2>2. Cardinality(U \ {x}) \in Nat
    BY <2>1, FS_CardinalityType
  <2>3. QED
    BY <1>4, <2>1, <2>2
<1>8. n - 1 \notin Bad
  BY <1>3, <1>7
<1>9. ~Stuck(U \ {x})
  <2>1. U \ {x} \in SUBSET Nat
    OBVIOUS
  <2>2. QED
    BY <1>7, <1>8, <2>1
<1>10. PICK f : Sorts(f, U \ {x})
  BY <1>7, <1>9
<1>11. QED
  BY Zenon, <1>4, <1>6, <1>10, LeastFirst

\* The migrations that are pending, all of them and nothing else.
LEMMA VersionOrder ==
    ASSUME NEW T, T \subseteq Nat, IsFiniteSet(T)
    PROVE  InVersionOrder(T) \in Seq(T) /\ Range(InVersionOrder(T)) = T
<1>1. PICK s : Sorts(s, T)
  BY Zenon, Sortable
<1>2. \E r \in [1..Cardinality(T) -> T] : Range(r) = T /\ \A i, j \in DOMAIN r : i < j => r[i] < r[j]
  BY Zenon, <1>1 DEF Sorts
<1>3. PICK r : r = InVersionOrder(T)
  OBVIOUS
<1>4. r \in [1..Cardinality(T) -> T] /\ Range(r) = T
  BY Zenon, <1>2, <1>3 DEF InVersionOrder
<1>5. Cardinality(T) \in Nat
  BY FS_CardinalityType
<1>6. QED
  BY <1>3, <1>4, <1>5

-------------------------------------------------------------------------------
(* The invariant                                                           *)

Held == {"start", "back", "next", "scope", "changed", "recorded", "releasing"}
Working == {"scope", "changed", "recorded"}

Tasks ==
    [pc : Steps, op : Operations \cup {NoWork}, steps : Int, todo : Seq(Versions),
     doing : Works \cup {NoWork}, dangles : BOOLEAN, reverted : Nat, faulted : BOOLEAN,
     outcome : {"ok", "error"}]

Typed ==
    /\ holders \subseteq Processes
    /\ ledger \in Seq(Versions) /\ IsInjective(ledger)
    /\ effect \in [Versions -> Nat]
    /\ dangling \in BOOLEAN
    /\ late \subseteq Works
    /\ task \in [Processes -> Tasks]
    /\ meddled \in [marked : SUBSET Versions, late : SUBSET Versions]

\* Whoever is past "waiting" holds the lock, and nobody else does.
OneHolder ==
    /\ \A p \in Processes : p \in holders <=> task[p].pc \in Held
    /\ \A p, q \in holders : p = q

\* How far a call can be, by its operation
Shape(t) ==
    /\ t.doing # NoWork <=> t.pc \in Working
    /\ t.pc # "idle" => t.op \in Operations
    /\ t.pc \in {"idle", "waiting", "start"} => t.reverted = 0
    /\ t.pc \in Working /\ t.op.name = "run" => t.doing.apply
    /\ t.pc \in Working /\ t.op.name \in {"rollback", "reset"} => ~t.doing.apply
    /\ t.pc = "back" => t.op.name \in {"rollback", "reset", "refresh"}
    /\ t.pc = "next" => t.op.name \in {"run", "refresh"}

Meddled == meddled.marked \cup meddled.late

\* A run has its pending migrations yet to do, does one of them or has done them.
LeavesNonePending(p, t) ==
    (/\ \/ t.pc = "next"
        \/ t.pc \in Working /\ t.doing.apply
        \/ t.pc = "releasing" /\ t.outcome = "ok"
     /\ t.op.name \in {"run", "refresh"})
        => \A v \in Registered[p] :
               \/ v \in Recorded \cup Meddled
               \/ t.pc # "releasing" /\ v \in Range(t.todo)
               \/ t.pc \in Working /\ v = t.doing.version

\* A reset knows every row until it is done.
KnowsEveryRow(p, t) ==
    t.pc \in Held /\ t.op.name = "reset" /\ Meddled = {} =>
        /\ t.pc = "back" \/ t.pc \in Working => Recorded \subseteq Registered[p]
        /\ t.pc = "releasing" /\ t.outcome = "error" /\ ~t.faulted /\ ~dangling => t.reverted = 0

\* A rollback works on the row written last, until it is gone.
RevertsNewest(t) ==
    (/\ t.pc \in Working /\ t.op.name # "sql" /\ ~t.doing.apply /\ Meddled = {}
     /\ TransactionalDdl \/ t.pc # "recorded")
        => ledger # <<>> /\ t.doing.version = Last(ledger)

Sound(p, t) == Shape(t) /\ LeavesNonePending(p, t) /\ KnowsEveryRow(p, t) /\ RevertsNewest(t)

\* A COMMIT left behind is alone with its row, and a row it adds is not in the
\* ledger yet.
RowsOfLate ==
    /\ late # {} => TransactionalDdl
    /\ \A w, x \in late : w.version = x.version => w = x
    /\ \A w \in late : w.apply => w.version \notin Recorded

\* So is the transaction of a call that has written its row.
OwnRow(t) ==
    t.pc = "recorded" =>
        /\ \A w \in late : w.version # t.doing.version
        /\ t.doing.apply => (t.doing.version \in Recorded <=> ~TransactionalDdl)

RowsAreLocked == RowsOfLate /\ \A p \in Processes : OwnRow(task[p])

IndInv ==
    /\ Typed /\ OneHolder /\ RowsAreLocked /\ LedgerTellsSchema
    /\ \A p \in Processes : Sound(p, task[p])

-------------------------------------------------------------------------------
(* Calls                                                                   *)

\* A call of p goes on, the others stay where they are.
LEMMA OneMoves ==
    ASSUME Typed, NEW p \in Processes, NEW t \in Tasks, task' = [task EXCEPT ![p] = t]
    PROVE  task' \in [Processes -> Tasks] /\ task'[p] = t /\ \A q \in Processes \ {p} : task'[q] = task[q]
<1>1. task \in [Processes -> Tasks]
  BY DEF Typed
<1>2. QED
  BY Zenon, <1>1

\* A call that has begun has done nothing yet.
LEMMA IdleIs ==
    ASSUME NEW op \in Operations
    PROVE  /\ Idle \in Tasks /\ Idle.pc = "idle" /\ Idle.doing = NoWork /\ Idle.reverted = 0
           /\ [Idle EXCEPT !.op = op, !.pc = "waiting"] \in Tasks
           /\ [Idle EXCEPT !.op = op, !.pc = "waiting"].pc = "waiting"
           /\ [Idle EXCEPT !.op = op, !.pc = "waiting"].op = op
           /\ [Idle EXCEPT !.op = op, !.pc = "waiting"].doing = NoWork
           /\ [Idle EXCEPT !.op = op, !.pc = "waiting"].reverted = 0
<1>1. 0 \in Int /\ 0 \in Nat /\ <<>> \in Seq(Versions)
  OBVIOUS
<1>2. Idle \in Tasks
  BY Zenon, <1>1 DEF Idle, Tasks, Steps
<1>3. Idle.pc = "idle" /\ Idle.doing = NoWork /\ Idle.reverted = 0
  BY DEF Idle
<1>4. QED
  BY Zenon, <1>2, <1>3 DEF Tasks, Steps

\* Only the place in the code changes.
LEMMA GotoIs ==
    ASSUME NEW t \in Tasks, NEW pc \in Steps
    PROVE  LET u == [t EXCEPT !.pc = pc]
           IN  /\ u \in Tasks /\ u.pc = pc /\ u.op = t.op /\ u.todo = t.todo /\ u.doing = t.doing
               /\ u.dangles = t.dangles /\ u.reverted = t.reverted /\ u.faulted = t.faulted /\ u.outcome = t.outcome
  BY Zenon DEF Tasks

\* The call is about to give the lock back.
LEMMA FinishIs ==
    ASSUME NEW t \in Tasks, NEW outcome \in {"ok", "error"}
    PROVE  LET u == Finish(t, outcome)
           IN  /\ u \in Tasks /\ u.pc = "releasing" /\ u.op = t.op /\ u.doing = NoWork
               /\ u.reverted = t.reverted /\ u.faulted = t.faulted /\ u.outcome = outcome
  BY Zenon DEF Tasks, Finish, Steps

\* A fault ends it.
LEMMA FaultIs ==
    ASSUME NEW t \in Tasks
    PROVE  LET u == [Finish(t, "error") EXCEPT !.faulted = TRUE]
           IN  u \in Tasks /\ u.pc = "releasing" /\ u.op = t.op /\ u.doing = NoWork /\ u.faulted /\ u.outcome = "error"
<1>1. PICK f \in Tasks : f = Finish(t, "error") /\ f.pc = "releasing" /\ f.op = t.op /\ f.doing = NoWork /\ f.outcome = "error"
  BY Zenon, FinishIs
<1>2. PICK u : u = [f EXCEPT !.faulted = TRUE]
  BY Zenon
<1>3. u \in Tasks /\ u.pc = "releasing" /\ u.op = t.op /\ u.doing = NoWork /\ u.faulted /\ u.outcome = "error"
  BY Zenon, <1>1, <1>2 DEF Tasks
<1>4. QED
  BY Zenon, <1>1, <1>2, <1>3

\* A migration is next.
LEMMA WorkIs ==
    ASSUME NEW t \in Tasks, NEW version \in Versions, NEW apply \in BOOLEAN
    PROVE  LET u == Work(t, version, apply)
           IN  /\ u \in Tasks /\ u.pc = "scope" /\ u.op = t.op /\ u.todo = t.todo /\ u.doing \in Works
               /\ u.doing.version = version /\ u.doing.apply = apply
<1>1. PICK w : w = [version |-> version, apply |-> apply]
  BY Zenon
<1>2. w \in Works /\ w.version = version /\ w.apply = apply
  BY Zenon, <1>1 DEF Works
<1>3. PICK u : u = [t EXCEPT !.pc = "scope", !.doing = w]
  BY Zenon
<1>4. u \in Tasks /\ u.pc = "scope" /\ u.op = t.op /\ u.todo = t.todo /\ u.doing = w
  BY Zenon, <1>2, <1>3 DEF Tasks, Steps
<1>5. u = Work(t, version, apply)
  BY Zenon, <1>1, <1>3 DEF Work
<1>6. QED
  BY Zenon, <1>2, <1>4, <1>5

\* The loop of rollback_steps_locked.
LEMMA BackIs ==
    ASSUME NEW t \in Tasks, NEW steps \in Int
    PROVE  LET u == [t EXCEPT !.pc = "back", !.steps = steps]
           IN  u \in Tasks /\ u.pc = "back" /\ u.op = t.op /\ u.doing = t.doing
  BY Zenon DEF Tasks, Steps

\* The loop of run_locked.
LEMMA NextIs ==
    ASSUME NEW t \in Tasks, NEW todo \in Seq(Versions)
    PROVE  LET u == [t EXCEPT !.pc = "next", !.todo = todo]
           IN  u \in Tasks /\ u.pc = "next" /\ u.op = t.op /\ u.doing = t.doing /\ u.todo = todo
  BY Zenon DEF Tasks, Steps

\* ... goes on to the next migration,
LEMMA TailIs ==
    ASSUME NEW t \in Tasks, NEW todo \in Seq(Versions)
    PROVE  LET u == [t EXCEPT !.todo = todo] IN u \in Tasks /\ u.op = t.op /\ u.todo = todo
  BY Zenon DEF Tasks

\* ... and comes back from one.
LEMMA AppliedIs ==
    ASSUME NEW t \in Tasks
    PROVE  LET u == [t EXCEPT !.pc = "next", !.doing = NoWork]
           IN  u \in Tasks /\ u.pc = "next" /\ u.op = t.op /\ u.doing = NoWork /\ u.todo = t.todo
  BY Zenon DEF Tasks, Steps

\* One migration has been rolled back.
LEMMA RevertedIs ==
    ASSUME NEW t \in Tasks
    PROVE  LET u == [t EXCEPT !.pc = "back", !.doing = NoWork, !.steps = @ - 1, !.reverted = @ + 1]
           IN  u \in Tasks /\ u.pc = "back" /\ u.op = t.op /\ u.doing = NoWork
<1>1. t.steps \in Int /\ t.reverted \in Nat
  BY Zenon DEF Tasks
<1>2. PICK steps \in Int, reverted \in Nat : steps = t.steps - 1 /\ reverted = t.reverted + 1
  BY <1>1
<1>3. LET u == [t EXCEPT !.pc = "back", !.doing = NoWork, !.steps = steps, !.reverted = reverted]
      IN  u \in Tasks /\ u.pc = "back" /\ u.op = t.op /\ u.doing = NoWork
  BY Zenon DEF Tasks, Steps
<1>4. QED
  BY Zenon, <1>2, <1>3

\* The change of a migration is made.
LEMMA ChangedIs ==
    ASSUME NEW t \in Tasks, NEW d \in BOOLEAN
    PROVE  LET u == [t EXCEPT !.pc = "changed", !.dangles = d]
           IN  u \in Tasks /\ u.pc = "changed" /\ u.op = t.op /\ u.todo = t.todo /\ u.doing = t.doing
  BY Zenon DEF Tasks, Steps

\* Its transaction has committed.
LEMMA ClearedIs ==
    ASSUME NEW t \in Tasks
    PROVE  LET u == [t EXCEPT !.dangles = FALSE]
           IN  /\ u \in Tasks /\ u.pc = t.pc /\ u.op = t.op /\ u.todo = t.todo /\ u.doing = t.doing
               /\ u.reverted = t.reverted /\ u.faulted = t.faulted /\ u.outcome = t.outcome
  BY Zenon DEF Tasks

-------------------------------------------------------------------------------
(* The database                                                            *)

\* A row is written once, or taken away.
LEMMA WrittenIs ==
    ASSUME Typed, NEW work \in Works, work.apply => work.version \notin Recorded
    PROVE  /\ Written(work) \in Seq(Versions) /\ IsInjective(Written(work))
           /\ Range(Written(work)) = IF work.apply THEN Recorded \cup {work.version}
                                     ELSE Recorded \ {work.version}
<1>1. work.version \in Versions /\ ledger \in Seq(Versions) /\ IsInjective(ledger)
  BY DEF Works, Typed
<1>2. CASE work.apply
  <2>1. Written(work) = Append(ledger, work.version)
    BY <1>2 DEF Written
  <2>2. work.version \notin Range(ledger)
    BY <1>2 DEF Recorded
  <2>3. QED
    BY <1>1, <1>2, <2>1, <2>2, Appended DEF Recorded
<1>3. CASE ~work.apply /\ work.version \in Recorded
  <2>1. PICK i : i = CHOOSE j \in DOMAIN ledger : ledger[j] = work.version
    BY Zenon
  <2>2. \E j \in DOMAIN ledger : ledger[j] = work.version
    BY <1>3 DEF Recorded, Range
  <2>3. i \in DOMAIN ledger /\ ledger[i] = work.version
    BY Zenon, <2>1, <2>2
  <2>4. Written(work) = RemoveAt(ledger, i)
    BY Zenon, <1>3, <2>1 DEF Written
  <2>5. QED
    BY <1>1, <1>3, <2>3, <2>4, Removed DEF Recorded
<1>4. CASE ~work.apply /\ work.version \notin Recorded
  <2>1. Written(work) = ledger
    BY <1>4 DEF Written
  <2>2. QED
    BY <1>1, <1>4, <2>1 DEF Recorded
<1>5. QED
  BY <1>2, <1>3, <1>4

\* The row written last is taken away.
LEMMA NewestWritten ==
    ASSUME Typed, NEW work \in Works, ~work.apply, ledger # <<>>, work.version = Last(ledger)
    PROVE  Written(work) = Front(ledger)
<1>1. ledger \in Seq(Versions) /\ Len(ledger) \in Nat /\ Len(ledger) >= 1 /\ DOMAIN ledger = 1..Len(ledger)
  BY DEF Typed
<1>2. PICK i : i = CHOOSE j \in DOMAIN ledger : ledger[j] = work.version
  BY Zenon
<1>3. Len(ledger) \in DOMAIN ledger /\ ledger[Len(ledger)] = work.version
  BY <1>1 DEF Last
<1>4. i \in DOMAIN ledger /\ ledger[i] = work.version
  BY Zenon, <1>2, <1>3
<1>5. i = Len(ledger)
  BY <1>3, <1>4 DEF Typed, IsInjective
<1>6. work.version \in Recorded
  BY <1>3 DEF Recorded, Range
<1>7. Written(work) = RemoveAt(ledger, Len(ledger))
  BY Zenon, <1>2, <1>5, <1>6 DEF Written
<1>8. PICK a, b : a = RemoveAt(ledger, Len(ledger)) /\ b = Front(ledger)
  BY Zenon
<1>9. a \in Seq(Versions) /\ Len(a) = Len(ledger) - 1 /\ \A j \in 1..Len(ledger) - 1 : a[j] = ledger[j]
  <2>1. Len(ledger) \in 1..Len(ledger)
    BY <1>1
  <2>2. /\ a \in Seq(Versions) /\ Len(a) = Len(ledger) - 1
        /\ \A j \in 1..Len(ledger) - 1 : a[j] = IF j < Len(ledger) THEN ledger[j] ELSE ledger[j + 1]
    BY Zenon, <1>1, <1>8, <2>1, RemoveAtIs
  <2>3. QED
    BY <1>1, <2>2
<1>10. b \in Seq(Versions) /\ Len(b) = Len(ledger) - 1 /\ \A j \in 1..Len(ledger) - 1 : b[j] = ledger[j]
  BY <1>1, <1>8 DEF Front
<1>11. a = b
  BY <1>1, <1>9, <1>10
<1>12. QED
  BY <1>7, <1>8, <1>11

\* up() adds its change, down() takes it away.
LEMMA ChangedEffect ==
    ASSUME effect \in [Versions -> Nat], NEW work \in Works
    PROVE  /\ Changed(work) \in [Versions -> Nat]
           /\ \A v \in Versions : v # work.version => Changed(work)[v] = effect[v]
           /\ Changed(work)[work.version] =
                  IF work.apply THEN effect[work.version] + 1
                  ELSE IF effect[work.version] > 0 THEN effect[work.version] - 1 ELSE 0
<1>1. work.version \in Versions
  BY DEF Works
<1>2. PICK n : n = IF work.apply THEN effect[work.version] + 1
                   ELSE IF effect[work.version] > 0 THEN effect[work.version] - 1 ELSE 0
  BY Zenon
<1>3. n \in Nat
  BY <1>1, <1>2
<1>4. Changed(work) = [effect EXCEPT ![work.version] = n]
  BY Zenon, <1>2 DEF Changed
<1>5. QED
  BY <1>1, <1>2, <1>3, <1>4

\* A migration that commits with its row keeps ledger and schema together.
LEMMA BothOrNeither ==
    ASSUME Typed, LedgerTellsSchema, TransactionalDdl, NEW work \in Works,
           work.apply => work.version \notin Recorded,
           NEW v \in Versions \ meddled.marked, NEW rows, Range(rows) = IF work.apply THEN Recorded \cup {work.version}
                                                              ELSE Recorded \ {work.version}
    PROVE  Changed(work)[v] = IF v \in Range(rows) THEN 1 ELSE 0
<1>1. effect[v] = IF v \in Recorded THEN 1 ELSE 0
  BY DEF LedgerTellsSchema
<1>2. effect \in [Versions -> Nat] /\ work.version \in Versions
  BY DEF Typed, Works
<1>3. CASE v # work.version
  BY <1>1, <1>2, <1>3, ChangedEffect
<1>4. CASE v = work.version
  BY <1>1, <1>2, <1>4, ChangedEffect
<1>5. QED
  BY <1>3, <1>4

-------------------------------------------------------------------------------
(* Who holds the lock                                                      *)

LEMMA Holders ==
    ASSUME Typed, OneHolder, NEW p \in Processes, NEW t \in Tasks, task' = [task EXCEPT ![p] = t],
           \/ holders' = holders /\ (t.pc \in Held <=> task[p].pc \in Held)
           \/ holders = {} /\ holders' = {p} /\ t.pc \in Held
           \/ holders' = holders \ {p} /\ t.pc \notin Held
    PROVE  OneHolder' /\ holders' \subseteq Processes
<1>1. task'[p] = t /\ \A q \in Processes \ {p} : task'[q] = task[q]
  BY Zenon, OneMoves
<1>2. holders' \subseteq Processes
  BY DEF Typed
<1>3. \A q \in Processes : q \in holders <=> task[q].pc \in Held
  BY Zenon DEF OneHolder
<1>4. ASSUME NEW q \in Processes PROVE q \in holders' <=> task'[q].pc \in Held
  <2>1. CASE q = p
    BY Zenon, <1>1, <1>3, <2>1
  <2>2. CASE q # p
    <3>1. task'[q] = task[q]
      BY Zenon, <1>1, <2>2
    <3>2. q \in holders' <=> q \in holders
      BY Zenon, <2>2
    <3>3. QED
      BY Zenon, <1>3, <3>1, <3>2
  <2>3. QED
    BY Zenon, <2>1, <2>2
<1>5. \A q, r \in holders' : q = r
  BY Zenon DEF OneHolder
<1>6. QED
  BY Zenon, <1>2, <1>4, <1>5 DEF OneHolder

\* Nobody else is past "waiting" with p.
LEMMA Alone ==
    ASSUME OneHolder, NEW p \in Processes, task[p].pc \in Held, NEW q \in Processes, q # p
    PROVE  task[q].pc \notin Held
  BY Zenon DEF OneHolder

\* A call that has not the lock is sound whatever the ledger says.
LEMMA SoundOutside ==
    ASSUME NEW p \in Processes, NEW t \in Tasks, Shape(t), t.pc \notin Held
    PROVE  Sound(p, t)'
<1>1. t.pc \notin {"start", "back", "next", "scope", "changed", "recorded", "releasing"}
  BY DEF Held
<1>2. LeavesNonePending(p, t)' /\ KnowsEveryRow(p, t)' /\ RevertsNewest(t)'
  BY Zenon, <1>1 DEF LeavesNonePending, KnowsEveryRow, RevertsNewest, Working, Held
<1>3. Shape(t)'
  BY Zenon DEF Shape
<1>4. QED
  BY Zenon, <1>2, <1>3 DEF Sound

\* What is true of a call stays true while the ledger rests.
LEMMA SoundRests ==
    ASSUME NEW p \in Processes, NEW t \in Tasks, Sound(p, t), UNCHANGED <<backend, ledger, dangling, meddled>>
    PROVE  Sound(p, t)'
  BY Zenon DEF Sound, Shape, LeavesNonePending, KnowsEveryRow, RevertsNewest, Recorded, Meddled, TransactionalDdl

\* So does what is true of its row.
LEMMA OwnRowRests ==
    ASSUME NEW t, OwnRow(t), UNCHANGED <<backend, ledger, late>>
    PROVE  OwnRow(t)'
  BY Zenon DEF OwnRow, Recorded, TransactionalDdl

\* A step that leaves the ledger alone.
LEMMA LedgerRests ==
    ASSUME IndInv, NEW p \in Processes, NEW t \in Tasks, task' = [task EXCEPT ![p] = t],
           Sound(p, t), OneHolder' /\ holders' \subseteq Processes, RowsAreLocked', late' \subseteq Works,
           effect' \in [Versions -> Nat], TransactionalDdl => effect' = effect,
           UNCHANGED <<backend, ledger, dangling, meddled>>
    PROVE  IndInv'
<1>1. Typed /\ LedgerTellsSchema /\ \A q \in Processes : Sound(q, task[q])
  BY DEF IndInv
<1>2. task' \in [Processes -> Tasks] /\ task'[p] = t /\ \A q \in Processes \ {p} : task'[q] = task[q]
  BY Zenon, <1>1, OneMoves
<1>3. Typed'
  BY Zenon, <1>1, <1>2 DEF Typed
<1>4. LedgerTellsSchema'
  BY Zenon, <1>1 DEF LedgerTellsSchema, TransactionalDdl, Recorded
<1>5. ASSUME NEW q \in Processes PROVE Sound(q, task[q])'
  <2>1. Sound(q, task'[q])
    BY Zenon, <1>1, <1>2
  <2>2. PICK u \in Tasks : u = task'[q]
    BY Zenon, <1>2
  <2>3. Sound(q, u)'
    BY Zenon, <2>1, <2>2, SoundRests
  <2>4. QED
    BY ZenonT(60), <2>2, <2>3 DEF Sound, Shape, LeavesNonePending, KnowsEveryRow, RevertsNewest
<1>6. QED
  BY Zenon, <1>3, <1>4, <1>5 DEF IndInv

\* A step that leaves every row alone.
LEMMA RowsRest ==
    ASSUME Typed, RowsAreLocked, NEW p \in Processes, NEW t \in Tasks, task' = [task EXCEPT ![p] = t],
           t.pc # "recorded", UNCHANGED <<backend, ledger, late>>
    PROVE  RowsAreLocked'
<1>1. task'[p] = t /\ \A q \in Processes \ {p} : task'[q] = task[q]
  BY Zenon, OneMoves
<1>2. Recorded' = Recorded /\ (TransactionalDdl' <=> TransactionalDdl)
  BY Zenon DEF Recorded, TransactionalDdl
<1>3. RowsOfLate'
  BY Zenon, <1>2 DEF RowsAreLocked, RowsOfLate
<1>4. ASSUME NEW q \in Processes, q # p PROVE OwnRow(task[q])'
  <2>1. PICK u : u = task[q] /\ u = task'[q] /\ OwnRow(u)
    BY Zenon, <1>1, <1>4 DEF RowsAreLocked
  <2>2. OwnRow(u)'
    BY Zenon, <2>1, OwnRowRests
  <2>3. QED
    BY Zenon, <2>1, <2>2 DEF OwnRow
<1>5. OwnRow(task[p])'
  BY Zenon, <1>1 DEF OwnRow
<1>6. QED
  BY Zenon, <1>3, <1>4, <1>5 DEF RowsAreLocked

\* A step that leaves the database alone.
LEMMA Rests ==
    ASSUME IndInv, NEW p \in Processes, NEW t \in Tasks, task' = [task EXCEPT ![p] = t],
           Sound(p, t), t.pc # "recorded", OneHolder' /\ holders' \subseteq Processes,
           UNCHANGED <<backend, ledger, effect, dangling, late, meddled>>
    PROVE  IndInv'
<1>1. Typed /\ RowsAreLocked
  BY DEF IndInv
<1>2. RowsAreLocked'
  BY Zenon, <1>1, RowsRest
<1>3. late' \subseteq Works /\ effect' \in [Versions -> Nat]
  BY Zenon, <1>1 DEF Typed
<1>4. QED
  BY Zenon, <1>2, <1>3, LedgerRests

-------------------------------------------------------------------------------
(* Calls and the lock                                                      *)

LEMMA Outside ==
    ASSUME NEW p \in Processes, NEW t \in Tasks, Shape(t), t.pc \notin Held
    PROVE  Sound(p, t)
<1>1. t.pc \notin {"start", "back", "next", "scope", "changed", "recorded", "releasing"}
  BY DEF Held
<1>2. LeavesNonePending(p, t) /\ KnowsEveryRow(p, t) /\ RevertsNewest(t)
  BY Zenon, <1>1 DEF LeavesNonePending, KnowsEveryRow, RevertsNewest, Working, Held
<1>3. QED
  BY Zenon, <1>2 DEF Sound

\* A process comes, or goes.
LEMMA IdleShape ==
    ASSUME NEW op \in Operations
    PROVE  Shape(Idle) /\ Shape([Idle EXCEPT !.op = op, !.pc = "waiting"])
<1>1. PICK t, u : t = Idle /\ u = [Idle EXCEPT !.op = op, !.pc = "waiting"]
  BY Zenon
<1>2. /\ t.pc = "idle" /\ t.doing = NoWork /\ t.reverted = 0
      /\ u.pc = "waiting" /\ u.op = op /\ u.doing = NoWork /\ u.reverted = 0
  BY Zenon, <1>1, IdleIs
<1>3. Shape(t) /\ Shape(u)
  BY <1>2 DEF Shape, Working
<1>4. QED
  BY Zenon, <1>1, <1>3

LEMMA CallKeeps ==
    ASSUME IndInv, NEW p \in Processes, NEW op \in Operations, Call(p, op)
    PROVE  IndInv'
<1>1. PICK t \in Tasks : t = [Idle EXCEPT !.op = op, !.pc = "waiting"] /\ t.pc = "waiting"
  BY Zenon, IdleIs
<1>2. task' = [task EXCEPT ![p] = t] /\ task[p].pc = "idle" /\ holders' = holders
  BY Zenon, <1>1 DEF Call
<1>3. UNCHANGED <<backend, ledger, effect, dangling, late, meddled>>
  BY Zenon DEF Call, Database
<1>4. t.pc \notin Held /\ task[p].pc \notin Held
  BY <1>1, <1>2 DEF Held
<1>5. Typed /\ OneHolder
  BY Zenon DEF IndInv
<1>6. OneHolder' /\ holders' \subseteq Processes
  BY Zenon, <1>2, <1>4, <1>5, Holders
<1>7. Sound(p, t)
  BY Zenon, <1>1, <1>4, IdleShape, Outside
<1>8. t.pc # "recorded"
  BY <1>1
<1>9. QED
  BY Zenon, <1>2, <1>3, <1>6, <1>7, <1>8, Rests

\* The call is over, and with it whatever lock it had.
LEMMA GoneKeeps ==
    ASSUME IndInv, NEW p \in Processes, task[p].pc # "idle", task' = [task EXCEPT ![p] = Idle],
           \/ holders' = holders /\ task[p].pc \notin Held
           \/ holders' = holders \ {p},
           UNCHANGED <<backend, ledger, effect, dangling, late, meddled>>
    PROVE  IndInv'
<1>1. Typed /\ OneHolder /\ Sound(p, task[p])
  BY Zenon DEF IndInv
<1>2. PICK op \in Operations : op = task[p].op
  BY Zenon, <1>1 DEF Sound, Shape
<1>3. PICK t \in Tasks : t = Idle /\ t.pc = "idle"
  BY Zenon, IdleIs
<1>4. t.pc \notin Held /\ t.pc # "recorded"
  BY <1>3 DEF Held
<1>5. OneHolder' /\ holders' \subseteq Processes
  BY Zenon, <1>1, <1>3, <1>4, Holders
<1>6. Sound(p, t)
  BY Zenon, <1>2, <1>3, <1>4, IdleShape, Outside
<1>7. QED
  BY Zenon, <1>3, <1>4, <1>5, <1>6, Rests

LEMMA TimeOutKeeps ==
    ASSUME IndInv, NEW p \in Processes, TimeOut(p)
    PROVE  IndInv'
<1>1. task[p].pc = "waiting"
  BY DEF TimeOut
<1>2. task[p].pc # "idle" /\ task[p].pc \notin Held
  BY <1>1 DEF Held
<1>3. task' = [task EXCEPT ![p] = Idle] /\ holders' = holders /\ UNCHANGED <<backend, ledger, effect, dangling, late, meddled>>
  BY Zenon DEF TimeOut, Database
<1>4. QED
  BY Zenon, <1>2, <1>3, GoneKeeps

LEMMA ReleaseKeeps ==
    ASSUME IndInv, NEW p \in Processes, Release(p)
    PROVE  IndInv'
<1>1. task[p].pc = "releasing"
  BY DEF Release
<1>2. task[p].pc # "idle"
  BY <1>1
<1>3. /\ task' = [task EXCEPT ![p] = Idle] /\ holders' = holders \ {p}
      /\ UNCHANGED <<backend, ledger, effect, dangling, late, meddled>>
  BY Zenon DEF Release, Database, L!Release
<1>4. QED
  BY Zenon, <1>2, <1>3, GoneKeeps

LEMMA AcquireKeeps ==
    ASSUME IndInv, NEW p \in Processes, Acquire(p)
    PROVE  IndInv'
<1>1. Typed /\ OneHolder /\ Sound(p, task[p])
  BY Zenon DEF IndInv
<1>2. PICK t0 \in Tasks : t0 = task[p] /\ t0.pc = "waiting"
  BY Zenon, <1>1 DEF Typed, Acquire
<1>3. PICK t : t = [t0 EXCEPT !.pc = "start"]
  BY Zenon
<1>4. "start" \in Steps
  BY DEF Steps
<1>5. t \in Tasks /\ t.pc = "start" /\ t.op = t0.op /\ t.doing = t0.doing /\ t.reverted = t0.reverted
  BY Zenon, <1>3, <1>4, GotoIs
<1>6. task' = [task EXCEPT ![p] = t]
  BY Zenon, <1>2, <1>3 DEF Acquire, Goto
<1>7. holders = {} /\ holders' = {p}
  BY Zenon DEF Acquire, L!Acquire, L!Free
<1>8. UNCHANGED <<backend, ledger, effect, dangling, late, meddled>>
  BY Zenon DEF Acquire, Database
<1>9. OneHolder' /\ holders' \subseteq Processes
  <2>1. t.pc \in Held
    BY <1>5 DEF Held
  <2>2. QED
    BY Zenon, <1>1, <1>5, <1>6, <1>7, <2>1, Holders
<1>10. Sound(p, t)
  <2>1. Shape(t0)
    BY Zenon, <1>1, <1>2 DEF Sound
  <2>2. Shape(t)
    BY <1>2, <1>5, <2>1 DEF Shape, Working
  <2>3. LeavesNonePending(p, t) /\ KnowsEveryRow(p, t) /\ RevertsNewest(t)
    BY <1>5 DEF LeavesNonePending, KnowsEveryRow, RevertsNewest, Working
  <2>4. QED
    BY Zenon, <2>2, <2>3 DEF Sound
<1>11. t.pc # "recorded"
  BY <1>5
<1>12. QED
  BY Zenon, <1>5, <1>6, <1>8, <1>9, <1>10, <1>11, Rests

-------------------------------------------------------------------------------
(* What a call does under the lock                                         *)

LEMMA InLock ==
    ASSUME IndInv, NEW p \in Processes, NEW t \in Tasks, task' = [task EXCEPT ![p] = t],
           task[p].pc \in Held, t.pc \in Held, t.pc # "recorded", Sound(p, t), holders' = holders,
           UNCHANGED <<backend, ledger, effect, dangling, late, meddled>>
    PROVE  IndInv'
<1>1. Typed /\ OneHolder
  BY DEF IndInv
<1>2. OneHolder' /\ holders' \subseteq Processes
  BY Zenon, <1>1, Holders
<1>3. QED
  BY Zenon, <1>2, Rests

\* run_locked begins with what is pending.
LEMMA RunLockedSound ==
    ASSUME Typed, NEW p \in Processes, NEW t \in Tasks, t.op \in Operations,
           t.op.name \in {"run", "refresh"}, t.doing = NoWork
    PROVE  RunLocked(p, t) \in Tasks /\ RunLocked(p, t).pc = "next" /\ Sound(p, RunLocked(p, t))
<1>1. Registered[p] \subseteq Versions /\ IsFiniteSet(Registered[p]) /\ Versions \subseteq Nat
  BY MigratorAssumption
<1>2. PICK T : T = Registered[p] \ Recorded
  BY Zenon
<1>3. T \subseteq Nat /\ IsFiniteSet(T) /\ T \subseteq Versions
  BY Zenon, <1>1, <1>2, FS_Subset
<1>4. PICK todo : todo = InVersionOrder(T) /\ todo \in Seq(T) /\ Range(todo) = T
  BY Zenon, <1>3, VersionOrder
<1>5. todo \in Seq(Versions)
  BY Zenon, <1>3, <1>4, SeqGrows
<1>6. PICK u : u = [t EXCEPT !.pc = "next", !.todo = todo]
  BY Zenon
<1>7. u \in Tasks /\ u.pc = "next" /\ u.op = t.op /\ u.doing = NoWork /\ u.todo = todo
  BY Zenon, <1>5, <1>6, NextIs
<1>8. u = RunLocked(p, t)
  BY Zenon, <1>2, <1>4, <1>6 DEF RunLocked
<1>9. Shape(u)
  BY <1>7 DEF Shape, Working
<1>10. \A v \in Registered[p] : v \in Recorded \/ v \in Range(u.todo)
  BY Zenon, <1>2, <1>4, <1>7
<1>11. LeavesNonePending(p, u)
  BY <1>7, <1>10 DEF LeavesNonePending
<1>12. KnowsEveryRow(p, u) /\ RevertsNewest(u)
  BY <1>7 DEF KnowsEveryRow, RevertsNewest, Working
<1>13. QED
  BY Zenon, <1>7, <1>8, <1>9, <1>11, <1>12 DEF Sound

\* A call that ends is sound: a run ends well only from its own loop, and a reset
\* badly only before its first rollback.
LEMMA FinishSound ==
    ASSUME NEW p \in Processes, NEW t \in Tasks, t.op \in Operations, NEW outcome \in {"ok", "error"},
           t.op.name \in {"run", "refresh"} /\ outcome = "ok" =>
               \A v \in Registered[p] : v \in Recorded \cup Meddled,
           t.op.name = "reset" /\ outcome = "error" /\ Meddled = {} /\ ~dangling => t.reverted = 0
    PROVE  Finish(t, outcome) \in Tasks /\ Finish(t, outcome).pc = "releasing" /\ Sound(p, Finish(t, outcome))
<1>1. PICK u : u = Finish(t, outcome)
  BY Zenon
<1>2. /\ u \in Tasks /\ u.pc = "releasing" /\ u.op = t.op /\ u.doing = NoWork
      /\ u.reverted = t.reverted /\ u.outcome = outcome
  BY Zenon, <1>1, FinishIs
<1>3. Shape(u)
  BY <1>2 DEF Shape, Working
<1>4. LeavesNonePending(p, u)
  BY <1>2 DEF LeavesNonePending, Working
<1>5. KnowsEveryRow(p, u)
  BY <1>2 DEF KnowsEveryRow, Working
<1>6. RevertsNewest(u)
  BY <1>2 DEF RevertsNewest, Working
<1>7. QED
  BY Zenon, <1>1, <1>2, <1>3, <1>4, <1>5, <1>6 DEF Sound

LEMMA StartKeeps ==
    ASSUME IndInv, NEW p \in Processes, Start(p)
    PROVE  IndInv'
<1>1. Typed /\ OneHolder /\ Sound(p, task[p])
  BY Zenon DEF IndInv
<1>2. PICK t \in Tasks : t = task[p]
  BY Zenon, <1>1 DEF Typed
<1>3. t.pc = "start" /\ t.pc \in Held
  BY <1>2 DEF Start, Held
<1>4. t.doing = NoWork /\ t.op \in Operations /\ t.reverted = 0
  BY <1>1, <1>2, <1>3 DEF Sound, Shape, Working
<1>5. /\ t.op.name \in {"run", "rollback", "reset", "refresh", "sql"}
      /\ t.op.name = "rollback" => t.op.steps \in Nat
      /\ t.op.name = "sql" => t.op.version \in Versions /\ t.op.apply \in BOOLEAN
  BY <1>4, MigratorAssumption
<1>6. holders' = holders /\ UNCHANGED <<backend, ledger, effect, dangling, late, meddled>>
  BY Zenon DEF Start, Database
<1>7. SUFFICES ASSUME TRUE
      PROVE  \E u \in Tasks : task' = [task EXCEPT ![p] = u] /\ u.pc \in Held \ {"recorded"} /\ Sound(p, u)
  BY Zenon, <1>2, <1>3, <1>6, InLock
<1>8. ASSUME NEW outcome \in {"ok", "error"}, t.op.name \in {"run", "refresh"} => outcome = "error"
      PROVE  LET u == Finish(t, outcome) IN u \in Tasks /\ u.pc \in Held \ {"recorded"} /\ Sound(p, u)
  <2>1. Finish(t, outcome) \in Tasks /\ Finish(t, outcome).pc = "releasing" /\ Sound(p, Finish(t, outcome))
    BY Zenon, <1>4, <1>8, FinishSound
  <2>2. QED
    BY <2>1 DEF Held
<1>9. ASSUME NEW steps \in Int, t.op.name \in {"rollback", "reset", "refresh"},
             t.op.name = "reset" => Recorded \subseteq Registered[p]
      PROVE  LET u == [t EXCEPT !.pc = "back", !.steps = steps]
             IN  u \in Tasks /\ u.pc \in Held \ {"recorded"} /\ Sound(p, u)
  <2>1. PICK u : u = [t EXCEPT !.pc = "back", !.steps = steps]
    BY Zenon
  <2>2. u \in Tasks /\ u.pc = "back" /\ u.op = t.op /\ u.doing = NoWork
    BY Zenon, <1>4, <2>1, BackIs
  <2>3. Shape(u)
    BY <1>4, <1>9, <2>2 DEF Shape, Working
  <2>4. LeavesNonePending(p, u) /\ KnowsEveryRow(p, u) /\ RevertsNewest(u)
    BY <1>9, <2>2 DEF LeavesNonePending, KnowsEveryRow, RevertsNewest, Working
  <2>5. u.pc \in Held \ {"recorded"}
    BY <2>2 DEF Held
  <2>6. QED
    BY Zenon, <2>1, <2>2, <2>3, <2>4, <2>5 DEF Sound
<1>10. CASE t.op.name = "run"
  <2>1. task' = [task EXCEPT ![p] = RunLocked(p, t)]
    BY <1>2, <1>10 DEF Start
  <2>2. RunLocked(p, t) \in Tasks /\ RunLocked(p, t).pc = "next" /\ Sound(p, RunLocked(p, t))
    BY Zenon, <1>1, <1>4, <1>10, RunLockedSound
  <2>3. "next" \in Held \ {"recorded"}
    BY DEF Held
  <2>4. QED
    BY Zenon, <2>1, <2>2, <2>3
<1>11. CASE t.op.name = "rollback"
  <2>1. t.op.steps \in Int
    BY <1>5, <1>11
  <2>2. task' = [task EXCEPT ![p] = [t EXCEPT !.pc = "back", !.steps = t.op.steps]]
    BY <1>2, <1>11 DEF Start
  <2>3. t.op.name # "reset"
    BY <1>11
  <2>4. QED
    BY Zenon, <1>9, <1>11, <2>1, <2>2, <2>3
<1>12. CASE t.op.name \in {"reset", "refresh"}
  <2>1. task' = [task EXCEPT ![p] = ResetLocked(p, t)]
    BY Zenon, <1>2, <1>12 DEF Start
  <2>2. Len(ledger) \in Int
    BY <1>1 DEF Typed
  <2>3. CASE Recorded \subseteq Registered[p]
    <3>1. ResetLocked(p, t) = [t EXCEPT !.pc = "back", !.steps = Len(ledger)]
      BY Zenon, <2>3 DEF ResetLocked
    <3>2. QED
      BY Zenon, <1>9, <1>12, <2>1, <2>2, <2>3, <3>1
  <2>4. CASE ~(Recorded \subseteq Registered[p])
    <3>1. ResetLocked(p, t) = Finish(t, "error")
      BY Zenon, <2>4 DEF ResetLocked
    <3>2. QED
      BY Zenon, <1>8, <2>1, <3>1
  <2>5. QED
    BY Zenon, <2>3, <2>4
<1>13. CASE t.op.name = "sql"
  <2>1. t.op.name \notin {"run", "refresh"}
    BY <1>13
  <2>2. CASE (t.op.version \in Recorded) = t.op.apply
    <3>1. task' = [task EXCEPT ![p] = Finish(t, "ok")]
      BY <1>2, <1>13, <2>2 DEF Start
    <3>2. QED
      BY Zenon, <1>8, <2>1, <3>1
  <2>3. CASE ~((t.op.version \in Recorded) = t.op.apply)
    <3>1. task' = [task EXCEPT ![p] = Work(t, t.op.version, t.op.apply)]
      BY <1>2, <1>13, <2>3 DEF Start
    <3>2. PICK version \in Versions, apply \in BOOLEAN : version = t.op.version /\ apply = t.op.apply
      BY <1>5, <1>13
    <3>9. PICK u : u = Work(t, version, apply)
      BY Zenon
    <3>3. u \in Tasks /\ u.pc = "scope" /\ u.op = t.op /\ u.doing \in Works
      <4>1. /\ Work(t, version, apply) \in Tasks /\ Work(t, version, apply).pc = "scope"
            /\ Work(t, version, apply).op = t.op /\ Work(t, version, apply).doing \in Works
        BY WorkIs
      <4>2. QED
        BY Zenon, <3>9, <4>1
    <3>4. u.doing # NoWork
      BY <3>3, MigratorAssumption DEF Works
    <3>5. Shape(u)
      BY <1>4, <1>13, <3>3, <3>4 DEF Shape, Working
    <3>6. LeavesNonePending(p, u) /\ KnowsEveryRow(p, u) /\ RevertsNewest(u)
      BY <1>13, <3>3 DEF LeavesNonePending, KnowsEveryRow, RevertsNewest
    <3>7. u.pc \in Held \ {"recorded"}
      BY <3>3 DEF Held
    <3>8. QED
      BY Zenon, <3>1, <3>2, <3>3, <3>5, <3>6, <3>7, <3>9 DEF Sound
  <2>4. QED
    BY Zenon, <2>2, <2>3
<1>14. QED
  BY Zenon, <1>5, <1>10, <1>11, <1>12, <1>13

\* The first of a sequence, and the others.
LEMMA HeadAndTail ==
    ASSUME NEW S, NEW s \in Seq(S), s # <<>>
    PROVE  /\ Head(s) \in S /\ Tail(s) \in Seq(S)
           /\ \A e \in Range(s) : e = Head(s) \/ e \in Range(Tail(s))
<1>1. Len(s) \in Nat /\ Len(s) >= 1 /\ Head(s) = s[1] /\ Head(s) \in S /\ Tail(s) \in Seq(S) /\ Len(Tail(s)) = Len(s) - 1
  OBVIOUS
<1>2. ASSUME NEW i \in DOMAIN s, i # 1
      PROVE  s[i] \in Range(Tail(s))
  <2>1. i - 1 \in DOMAIN Tail(s) /\ Tail(s)[i - 1] = s[i]
    BY <1>1, <1>2
  <2>2. QED
    BY Zenon, <2>1 DEF Range
<1>3. ASSUME NEW e \in Range(s)
      PROVE  e = Head(s) \/ e \in Range(Tail(s))
  <2>1. PICK i \in DOMAIN s : s[i] = e
    BY Zenon DEF Range
  <2>2. QED
    BY Zenon, <1>1, <1>2, <2>1
<1>4. QED
  BY Zenon, <1>1, <1>3

LEMMA BackKeeps ==
    ASSUME IndInv, NEW p \in Processes, Back(p)
    PROVE  IndInv'
<1>1. Typed /\ OneHolder /\ Sound(p, task[p])
  BY Zenon DEF IndInv
<1>2. PICK t \in Tasks : t = task[p]
  BY Zenon, <1>1 DEF Typed
<1>3. t.pc = "back" /\ t.pc \in Held
  BY <1>2 DEF Back, Held
<1>4. /\ t.doing = NoWork /\ t.op \in Operations /\ t.op.name \in {"rollback", "reset", "refresh"}
      /\ t.op.name = "reset" /\ Meddled = {} => Recorded \subseteq Registered[p]
  BY <1>1, <1>2, <1>3 DEF Sound, Shape, Working, KnowsEveryRow
<1>5. holders' = holders /\ UNCHANGED <<backend, ledger, effect, dangling, late, meddled>>
  BY Zenon DEF Back, Database
<1>6. SUFFICES ASSUME TRUE
      PROVE  \E u \in Tasks : task' = [task EXCEPT ![p] = u] /\ u.pc \in Held \ {"recorded"} /\ Sound(p, u)
  BY Zenon, <1>2, <1>3, <1>5, InLock
<1>7. "next" \in Held \ {"recorded"} /\ "releasing" \in Held \ {"recorded"} /\ "scope" \in Held \ {"recorded"}
  BY DEF Held
<1>8. CASE (t.steps = 0 \/ ledger = <<>>) /\ t.op.name = "refresh"
  <2>1. task' = [task EXCEPT ![p] = RunLocked(p, t)]
    BY Zenon, <1>2, <1>8 DEF Back
  <2>2. RunLocked(p, t) \in Tasks /\ RunLocked(p, t).pc = "next" /\ Sound(p, RunLocked(p, t))
    BY Zenon, <1>1, <1>4, <1>8, RunLockedSound
  <2>3. QED
    BY Zenon, <1>7, <2>1, <2>2
<1>9. CASE (t.steps = 0 \/ ledger = <<>>) /\ t.op.name # "refresh"
  <2>1. task' = [task EXCEPT ![p] = Finish(t, "ok")]
    BY Zenon, <1>2, <1>9 DEF Back
  <2>2. t.op.name \notin {"run", "refresh"} /\ "ok" # "error" /\ "ok" \in {"ok", "error"}
    BY <1>4, <1>9
  <2>3. Finish(t, "ok") \in Tasks /\ Finish(t, "ok").pc = "releasing" /\ Sound(p, Finish(t, "ok"))
    BY Zenon, <1>4, <2>2, FinishSound
  <2>4. QED
    BY Zenon, <1>7, <2>1, <2>3
<1>10. CASE ~(t.steps = 0 \/ ledger = <<>>)
  <2>1. Newest \in Versions /\ Newest \in Recorded /\ Newest = Last(ledger)
    <3>1. Len(ledger) \in DOMAIN ledger /\ ledger[Len(ledger)] \in Versions
      BY <1>1, <1>10 DEF Typed
    <3>2. QED
      BY Zenon, <3>1 DEF Newest, Last, Recorded, Range
  <2>2. CASE Newest \in Registered[p]
    <3>1. task' = [task EXCEPT ![p] = Work(t, Newest, FALSE)]
      BY <1>2, <1>10, <2>2 DEF Back
    <3>2. PICK u : u = Work(t, Newest, FALSE)
      BY Zenon
    <3>3. u \in Tasks /\ u.pc = "scope" /\ u.op = t.op /\ u.doing \in Works /\ u.doing.version = Newest /\ ~u.doing.apply
      BY Zenon, <2>1, <3>2, WorkIs
    <3>4. u.doing # NoWork
      BY <3>3, MigratorAssumption DEF Works
    <3>5. Shape(u)
      BY <1>4, <3>3, <3>4 DEF Shape, Working
    <3>6. LeavesNonePending(p, u)
      BY <3>3 DEF LeavesNonePending
    <3>7. KnowsEveryRow(p, u)
      BY <1>4, <3>3 DEF KnowsEveryRow
    <3>8. RevertsNewest(u)
      BY Zenon, <1>10, <2>1, <3>3 DEF RevertsNewest
    <3>9. QED
      BY Zenon, <1>7, <3>1, <3>2, <3>3, <3>5, <3>6, <3>7, <3>8 DEF Sound
  <2>3. CASE Newest \notin Registered[p]
    <3>1. task' = [task EXCEPT ![p] = Finish(t, "error")]
      BY <1>2, <1>10, <2>3 DEF Back
    <3>2. ~(t.op.name = "reset" /\ Meddled = {}) /\ "error" # "ok" /\ "error" \in {"ok", "error"}
      BY <1>4, <2>1, <2>3
    <3>3. Finish(t, "error") \in Tasks /\ Finish(t, "error").pc = "releasing" /\ Sound(p, Finish(t, "error"))
      BY Zenon, <1>4, <3>2, FinishSound
    <3>4. QED
      BY Zenon, <1>7, <3>1, <3>3
  <2>4. QED
    BY Zenon, <2>2, <2>3
<1>11. QED
  BY Zenon, <1>8, <1>9, <1>10

LEMMA NextMigrationKeeps ==
    ASSUME IndInv, NEW p \in Processes, NextMigration(p)
    PROVE  IndInv'
<1>1. Typed /\ OneHolder /\ Sound(p, task[p])
  BY Zenon DEF IndInv
<1>2. PICK t \in Tasks : t = task[p]
  BY Zenon, <1>1 DEF Typed
<1>3. t.pc = "next" /\ t.pc \in Held
  BY <1>2 DEF NextMigration, Held
<1>4. /\ t.doing = NoWork /\ t.op \in Operations /\ t.op.name \in {"run", "refresh"} /\ t.todo \in Seq(Versions)
      /\ \A v \in Registered[p] : v \in Recorded \cup Meddled \/ v \in Range(t.todo)
  BY <1>1, <1>2, <1>3 DEF Sound, Shape, Working, LeavesNonePending, Tasks
<1>5. holders' = holders /\ UNCHANGED <<backend, ledger, effect, dangling, late, meddled>>
  BY Zenon DEF NextMigration, Database
<1>6. SUFFICES ASSUME TRUE
      PROVE  \E u \in Tasks : task' = [task EXCEPT ![p] = u] /\ u.pc \in Held \ {"recorded"} /\ Sound(p, u)
  BY Zenon, <1>2, <1>3, <1>5, InLock
<1>7. "releasing" \in Held \ {"recorded"} /\ "scope" \in Held \ {"recorded"}
  BY DEF Held
<1>8. CASE t.todo = <<>>
  <2>1. task' = [task EXCEPT ![p] = Finish(t, "ok")]
    BY <1>2, <1>8 DEF NextMigration
  <2>2. Range(t.todo) = {}
    BY <1>8 DEF Range
  <2>3. t.op.name # "reset" /\ "ok" \in {"ok", "error"}
    BY <1>4
  <2>4. Finish(t, "ok") \in Tasks /\ Finish(t, "ok").pc = "releasing" /\ Sound(p, Finish(t, "ok"))
    BY Zenon, <1>4, <2>2, <2>3, FinishSound
  <2>5. QED
    BY Zenon, <1>7, <2>1, <2>4
<1>9. CASE t.todo # <<>>
  <2>1. PICK first, others : first = Head(t.todo) /\ others = Tail(t.todo)
    BY Zenon
  <2>11. /\ first \in Versions /\ others \in Seq(Versions)
         /\ \A e \in Range(t.todo) : e = first \/ e \in Range(others)
    BY Zenon, <1>4, <1>9, <2>1, HeadAndTail
  <2>2. PICK r \in Tasks : r = [t EXCEPT !.todo = others] /\ r.op = t.op /\ r.todo = others
    BY Zenon, <2>11, TailIs
  <2>3. PICK u : u = Work(r, first, TRUE)
    BY Zenon
  <2>4. /\ u \in Tasks /\ u.pc = "scope" /\ u.op = t.op /\ u.todo = others /\ u.doing \in Works
        /\ u.doing.version = first /\ u.doing.apply = TRUE
    BY ZenonT(60), <2>2, <2>3, <2>11, WorkIs
  <2>5. task' = [task EXCEPT ![p] = u]
    BY Zenon, <1>2, <1>9, <2>1, <2>2, <2>3 DEF NextMigration
  <2>6. u.doing # NoWork
    BY <2>4, MigratorAssumption DEF Works
  <2>7. Shape(u)
    BY <1>4, <2>4, <2>6 DEF Shape, Working
  <2>8. LeavesNonePending(p, u)
    <3>1. u.pc \in Working /\ u.pc # "releasing"
      BY <2>4 DEF Working
    <3>2. QED
      BY Zenon, <1>4, <2>4, <2>11, <3>1 DEF LeavesNonePending
  <2>9. KnowsEveryRow(p, u) /\ RevertsNewest(u)
    BY <1>4, <2>4 DEF KnowsEveryRow, RevertsNewest
  <2>10. QED
    BY Zenon, <1>7, <2>4, <2>5, <2>7, <2>8, <2>9 DEF Sound
<1>10. QED
  BY Zenon, <1>8, <1>9

LEMMA RefuseDanglingKeeps ==
    ASSUME IndInv, NEW p \in Processes, RefuseDangling(p)
    PROVE  IndInv'
<1>1. Typed /\ OneHolder /\ Sound(p, task[p])
  BY Zenon DEF IndInv
<1>2. PICK t \in Tasks : t = task[p]
  BY Zenon, <1>1 DEF Typed
<1>3. t.pc = "scope" /\ t.pc \in Held /\ dangling
  BY <1>2 DEF RefuseDangling, Held
<1>4. t.op \in Operations /\ "error" # "ok" /\ "error" \in {"ok", "error"}
  BY <1>1, <1>2, <1>3 DEF Sound, Shape
<1>5. Finish(t, "error") \in Tasks /\ Finish(t, "error").pc = "releasing" /\ Sound(p, Finish(t, "error"))
  BY Zenon, <1>3, <1>4, FinishSound
<1>6. "releasing" \in Held /\ "releasing" # "recorded"
  BY DEF Held
<1>7. holders' = holders /\ UNCHANGED <<backend, ledger, effect, dangling, late, meddled>>
  BY Zenon DEF RefuseDangling, Database
<1>8. task' = [task EXCEPT ![p] = Finish(t, "error")]
  BY Zenon, <1>2 DEF RefuseDangling
<1>9. QED
  BY Zenon, <1>2, <1>3, <1>5, <1>6, <1>7, <1>8, InLock

-------------------------------------------------------------------------------
(* One migration and its row                                               *)

\* A call at work goes on with the same migration.
LEMMA GoesOn ==
    ASSUME NEW p \in Processes, NEW t \in Tasks, NEW u \in Tasks, Sound(p, t), t.pc \in Working, u.pc \in Working,
           t.pc # "recorded", u.op = t.op, u.doing = t.doing, u.todo = t.todo
    PROVE  Sound(p, u)
<1>1. t.pc \notin {"idle", "waiting", "start", "back", "next", "releasing"} /\ t.pc \in Held
      /\ u.pc \notin {"idle", "waiting", "start", "back", "next", "releasing"} /\ u.pc \in Held
  BY DEF Working, Held
<1>2. Shape(u)
  BY <1>1 DEF Sound, Shape
<1>3. LeavesNonePending(p, u)
  BY Zenon, <1>1 DEF Sound, LeavesNonePending
<1>4. KnowsEveryRow(p, u)
  BY <1>1 DEF Sound, KnowsEveryRow
<1>5. RevertsNewest(u)
  BY Zenon DEF Sound, RevertsNewest
<1>6. QED
  BY Zenon, <1>2, <1>3, <1>4, <1>5 DEF Sound

\* What a step of the one in the lock has to show when the ledger changes.
LEMMA LedgerMoves ==
    ASSUME IndInv, NEW p \in Processes, NEW t \in Tasks, task' = [task EXCEPT ![p] = t],
           task[p].pc \in Held, t.pc \in Held, holders' = holders, Sound(p, t)', RowsAreLocked', LedgerTellsSchema',
           ledger' \in Seq(Versions), IsInjective(ledger'), effect' \in [Versions -> Nat], dangling' \in BOOLEAN,
           UNCHANGED <<late, meddled>>
    PROVE  IndInv'
<1>1. Typed /\ OneHolder /\ \A q \in Processes : Sound(q, task[q])
  BY Zenon DEF IndInv
<1>2. OneHolder' /\ holders' \subseteq Processes
  BY Zenon, <1>1, Holders
<1>3. task' \in [Processes -> Tasks] /\ task'[p] = t /\ \A q \in Processes \ {p} : task'[q] = task[q]
  BY Zenon, <1>1, OneMoves
<1>4. Typed'
  BY Zenon, <1>1, <1>2, <1>3 DEF Typed
<1>5. ASSUME NEW q \in Processes
      PROVE  Sound(q, task[q])'
  <2>1. CASE q = p
    BY ZenonT(60), <1>3, <2>1 DEF Sound, Shape, LeavesNonePending, KnowsEveryRow, RevertsNewest
  <2>2. CASE q # p
    <3>1. PICK u \in Tasks : u = task[q] /\ u = task'[q]
      BY Zenon, <1>1, <1>3, <2>2 DEF Typed
    <3>2. Shape(u) /\ u.pc \notin Held
      BY Zenon, <1>1, <2>2, <3>1, Alone DEF Sound
    <3>3. Sound(q, u)'
      BY Zenon, <3>2, SoundOutside
    <3>4. QED
      BY ZenonT(60), <3>1, <3>3 DEF Sound, Shape, LeavesNonePending, KnowsEveryRow, RevertsNewest
  <2>3. QED
    BY Zenon, <2>1, <2>2
<1>6. QED
  BY Zenon, <1>2, <1>4, <1>5 DEF IndInv

\* The one in the lock writes a row that no COMMIT left behind has written.
LEMMA RowsMove ==
    ASSUME Typed, OneHolder, RowsAreLocked, NEW p \in Processes, NEW t \in Tasks, task' = [task EXCEPT ![p] = t],
           task[p].pc \in Held, NEW version, \A w \in late : w.version # version,
           Range(ledger') \subseteq Recorded \cup {version}, UNCHANGED <<backend, late>>, OwnRow(t)'
    PROVE  RowsAreLocked'
<1>1. task'[p] = t /\ \A q \in Processes \ {p} : task'[q] = task[q]
  BY Zenon, OneMoves
<1>2. RowsOfLate'
  BY Zenon DEF RowsAreLocked, RowsOfLate, TransactionalDdl, Recorded
<1>3. ASSUME NEW q \in Processes
      PROVE  OwnRow(task[q])'
  <2>1. CASE q = p
    BY Zenon, <1>1, <2>1 DEF OwnRow
  <2>2. CASE q # p
    <3>1. task[q].pc \notin Held /\ task'[q] = task[q]
      BY Zenon, <1>1, <2>2, Alone
    <3>2. task'[q].pc # "recorded"
      BY <3>1 DEF Held
    <3>3. QED
      BY Zenon, <3>2 DEF OwnRow
  <2>3. QED
    BY Zenon, <2>1, <2>2
<1>4. QED
  BY Zenon, <1>2, <1>3 DEF RowsAreLocked

LEMMA ChangeKeeps ==
    ASSUME IndInv, NEW p \in Processes, Change(p)
    PROVE  IndInv'
<1>1. Typed /\ OneHolder /\ RowsAreLocked /\ Sound(p, task[p])
  BY Zenon DEF IndInv
<1>2. PICK t \in Tasks : t = task[p]
  BY Zenon, <1>1 DEF Typed
<1>3. t.pc = "scope" /\ t.pc \in Held /\ t.pc \in Working /\ t.pc # "recorded"
  BY <1>2 DEF Change, Held, Working
<1>4. t.doing \in Works
  BY <1>1, <1>2, <1>3 DEF Sound, Shape, Tasks
<1>5. PICK d \in BOOLEAN : task' = [task EXCEPT ![p].pc = "changed", ![p].dangles = d]
  BY Zenon DEF Change
<1>6. PICK u : u = [t EXCEPT !.pc = "changed", !.dangles = d]
  BY Zenon
<1>7. u \in Tasks /\ u.pc = "changed" /\ u.op = t.op /\ u.todo = t.todo /\ u.doing = t.doing
  BY Zenon, <1>5, <1>6, ChangedIs
<1>8. task' = [task EXCEPT ![p] = u]
  BY Zenon, <1>1, <1>2, <1>5, <1>6 DEF Typed
<1>9. "changed" \in Held /\ "changed" \in Working /\ "changed" # "recorded"
  BY DEF Held, Working
<1>10. Sound(p, u)
  BY Zenon, <1>1, <1>2, <1>3, <1>7, <1>9, GoesOn
<1>11. UNCHANGED <<backend, holders, ledger, dangling, late, meddled>>
  BY Zenon DEF Change
<1>12. OneHolder' /\ holders' \subseteq Processes
  BY Zenon, <1>1, <1>2, <1>3, <1>7, <1>8, <1>9, <1>11, Holders
<1>13. RowsAreLocked' /\ late' \subseteq Works
  BY Zenon, <1>1, <1>7, <1>8, <1>9, <1>11, RowsRest DEF Typed
<1>14. effect' \in [Versions -> Nat] /\ (TransactionalDdl => effect' = effect)
  BY Zenon, <1>1, <1>2, <1>4, ChangedEffect DEF Change, Typed
<1>15. QED
  BY Zenon, <1>7, <1>8, <1>10, <1>11, <1>12, <1>13, <1>14, LedgerRests

LEMMA RecordKeeps ==
    ASSUME IndInv, NEW p \in Processes, Record(p)
    PROVE  IndInv'
<1>1. Typed /\ OneHolder /\ RowsAreLocked /\ LedgerTellsSchema /\ Sound(p, task[p])
  BY Zenon DEF IndInv
<1>2. PICK t \in Tasks : t = task[p]
  BY Zenon, <1>1 DEF Typed
<1>3. t.pc = "changed" /\ t.pc \in Held /\ t.pc \in Working /\ t.pc # "recorded"
  BY <1>2 DEF Record, Held, Working
<1>4. t.doing \in Works /\ t.op \in Operations /\ (t.op.name = "reset" => ~t.doing.apply)
  BY <1>1, <1>2, <1>3 DEF Sound, Shape, Tasks
<1>5. /\ holders' = holders /\ UNCHANGED <<backend, effect, dangling, late, meddled>>
      /\ \A w \in late : w.version # t.doing.version
  BY Zenon, <1>2 DEF Record
<1>6. "recorded" \in Held /\ "recorded" \in Working /\ "recorded" # "releasing" /\ "releasing" \in Held
  BY DEF Held, Working
<1>7. CASE Refuses(p)
  <2>1. task' = [task EXCEPT ![p] = Finish(t, "error")] /\ ledger' = ledger
    BY Zenon, <1>2, <1>7 DEF Record
  <2>2. t.op.name # "reset" /\ "error" # "ok" /\ "error" \in {"ok", "error"}
    BY <1>2, <1>4, <1>7 DEF Refuses
  <2>3. Finish(t, "error") \in Tasks /\ Finish(t, "error").pc = "releasing" /\ Sound(p, Finish(t, "error"))
    BY Zenon, <1>4, <2>2, FinishSound
  <2>4. QED
    BY Zenon, <1>2, <1>3, <1>5, <1>6, <2>1, <2>3, InLock
<1>8. CASE ~Refuses(p)
  <2>1. PICK u : u = [t EXCEPT !.pc = "recorded"]
    BY Zenon
  <2>2. u \in Tasks /\ u.pc = "recorded" /\ u.op = t.op /\ u.todo = t.todo /\ u.doing = t.doing
    BY Zenon, <2>1 DEF Tasks, Steps
  <2>3. task' = [task EXCEPT ![p] = u]
    BY Zenon, <1>2, <1>8, <2>1 DEF Record
  <2>4. t.doing.apply => t.doing.version \notin Recorded
    BY Zenon, <1>2, <1>8 DEF Refuses
  <2>5. Sound(p, u)
    BY Zenon, <1>1, <1>2, <1>3, <1>6, <2>2, GoesOn
  <2>6. CASE TransactionalDdl
    <3>1. ledger' = ledger
      BY Zenon, <2>6 DEF Record
    <3>2. OwnRow(u)'
      BY Zenon, <1>5, <2>2, <2>4, <2>6, <3>1 DEF OwnRow, Recorded, TransactionalDdl
    <3>3. Range(ledger') \subseteq Recorded \cup {t.doing.version}
      BY Zenon, <3>1 DEF Recorded
    <3>4. RowsAreLocked'
      BY Zenon, <1>1, <1>2, <1>3, <1>5, <2>2, <2>3, <3>2, <3>3, RowsMove
    <3>5. OneHolder' /\ holders' \subseteq Processes
      BY Zenon, <1>1, <1>2, <1>3, <1>5, <1>6, <2>2, <2>3, Holders
    <3>6. late' \subseteq Works /\ effect' \in [Versions -> Nat]
      BY Zenon, <1>1, <1>5 DEF Typed
    <3>7. QED
      BY Zenon, <1>5, <2>2, <2>3, <2>5, <3>1, <3>4, <3>5, <3>6, LedgerRests
  <2>7. CASE ~TransactionalDdl
    <3>1. ledger' = Written(t.doing)
      BY Zenon, <1>2, <1>8, <2>7 DEF Record
    <3>2. /\ ledger' \in Seq(Versions) /\ IsInjective(ledger')
          /\ Range(ledger') = IF t.doing.apply THEN Recorded \cup {t.doing.version} ELSE Recorded \ {t.doing.version}
      BY Zenon, <1>1, <1>4, <2>4, <3>1, WrittenIs
    <3>3. /\ Range(ledger') \subseteq Recorded \cup {t.doing.version}
          /\ t.doing.apply => Recorded \subseteq Recorded' /\ t.doing.version \in Recorded'
          /\ ~t.doing.apply => Recorded' \subseteq Recorded
      BY Zenon, <3>2 DEF Recorded
    <3>4. OwnRow(u)'
      BY Zenon, <1>5, <2>2, <2>7, <3>3 DEF OwnRow, TransactionalDdl
    <3>5. RowsAreLocked'
      BY Zenon, <1>1, <1>2, <1>3, <1>5, <2>2, <2>3, <3>3, <3>4, RowsMove
    <3>6. LedgerTellsSchema'
      BY Zenon, <1>5, <2>7 DEF LedgerTellsSchema, TransactionalDdl
    <3>7. Sound(p, u)'
      <4>1. Shape(u)'
        BY Zenon, <2>5 DEF Sound, Shape
      <4>2. LeavesNonePending(p, u)'
        BY Zenon, <1>5, <1>6, <2>2, <2>5, <3>3 DEF Sound, LeavesNonePending, Meddled
      <4>3. KnowsEveryRow(p, u)'
        BY <1>4, <1>5, <1>6, <2>2, <2>5, <3>3 DEF Sound, KnowsEveryRow, Meddled, Held, Working
      <4>4. RevertsNewest(u)'
        BY Zenon, <1>5, <2>2, <2>7 DEF RevertsNewest, TransactionalDdl
      <4>5. QED
        BY Zenon, <4>1, <4>2, <4>3, <4>4 DEF Sound
    <3>8. effect' \in [Versions -> Nat] /\ dangling' \in BOOLEAN
      BY Zenon, <1>1, <1>5 DEF Typed
    <3>9. QED
      BY Zenon, <1>2, <1>3, <1>5, <1>6, <2>2, <2>3, <3>2, <3>5, <3>6, <3>7, <3>8, LedgerMoves
  <2>8. QED
    BY Zenon, <2>6, <2>7
<1>9. QED
  BY Zenon, <1>7, <1>8

\* What comes after a migration that is done.
LEMMA AfterIs ==
    ASSUME NEW p \in Processes, NEW t \in Tasks, Sound(p, t), t.pc = "recorded", OwnRow(t), UNCHANGED meddled,
           t.doing.apply => Recorded \subseteq Recorded' /\ t.doing.version \in Recorded',
           ~t.doing.apply => Recorded' \subseteq Recorded
    PROVE  LET u == [After(t) EXCEPT !.dangles = FALSE]
           IN  u \in Tasks /\ u.pc \in Held \ {"recorded"} /\ Sound(p, u)'
<1>1. PICK r : r = After(t)
  BY Zenon
<1>2. PICK u : u = [r EXCEPT !.dangles = FALSE]
  BY Zenon
<1>3. /\ t.op \in Operations /\ t.op.name \in {"run", "rollback", "reset", "refresh", "sql"}
      /\ t.pc \in Working /\ t.pc # "releasing" /\ t.pc \in Held
      /\ t.op.name = "run" => t.doing.apply
      /\ t.op.name \in {"rollback", "reset"} => ~t.doing.apply
  <2>1. t.op \in Operations /\ t.pc \in Working /\ t.pc \in Held
    BY DEF Sound, Shape, Working, Held
  <2>2. QED
    BY <2>1, MigratorAssumption DEF Sound, Shape
<1>4. CASE t.op.name = "sql"
  <2>1. r = Finish(t, "ok")
    BY Zenon, <1>1, <1>4 DEF After
  <2>2. r \in Tasks /\ r.pc = "releasing" /\ r.op = t.op /\ r.doing = NoWork
    BY Zenon, <2>1, FinishIs
  <2>3. u \in Tasks /\ u.pc = "releasing" /\ u.op = t.op /\ u.doing = NoWork
    BY Zenon, <1>2, <2>2, ClearedIs
  <2>4. Shape(u)'
    BY <1>3, <2>3 DEF Shape, Working
  <2>5. LeavesNonePending(p, u)' /\ KnowsEveryRow(p, u)' /\ RevertsNewest(u)'
    BY <1>4, <2>3 DEF LeavesNonePending, KnowsEveryRow, RevertsNewest
  <2>6. u.pc \in Held \ {"recorded"}
    BY <2>3 DEF Held
  <2>7. QED
    BY Zenon, <1>1, <1>2, <2>3, <2>4, <2>5, <2>6 DEF Sound
<1>5. CASE t.op.name # "sql" /\ t.doing.apply
  <2>1. r = [t EXCEPT !.pc = "next", !.doing = NoWork]
    BY Zenon, <1>1, <1>5 DEF After
  <2>2. r \in Tasks /\ r.pc = "next" /\ r.op = t.op /\ r.doing = NoWork /\ r.todo = t.todo
    BY Zenon, <2>1, AppliedIs
  <2>3. u \in Tasks /\ u.pc = "next" /\ u.op = t.op /\ u.doing = NoWork /\ u.todo = t.todo
    BY Zenon, <1>2, <2>2, ClearedIs
  <2>4. t.op.name \in {"run", "refresh"}
    BY <1>3, <1>5
  <2>5. Shape(u)'
    BY <1>3, <2>3, <2>4 DEF Shape, Working
  <2>6. ASSUME NEW v \in Registered[p]
        PROVE  v \in Recorded' \cup Meddled' \/ v \in Range(t.todo)
    <3>1. v \in Recorded \cup Meddled \/ v \in Range(t.todo) \/ v = t.doing.version
      BY Zenon, <1>3, <1>5, <2>4 DEF Sound, LeavesNonePending
    <3>2. QED
      BY Zenon, <1>5, <3>1 DEF Meddled
  <2>7. LeavesNonePending(p, u)'
    <3>1. u.pc # "releasing"
      BY <2>3
    <3>2. QED
      BY Zenon, <2>3, <2>6, <3>1 DEF LeavesNonePending
  <2>8. KnowsEveryRow(p, u)' /\ RevertsNewest(u)'
    BY <2>3, <2>4 DEF KnowsEveryRow, RevertsNewest, Working
  <2>9. u.pc \in Held \ {"recorded"}
    BY <2>3 DEF Held
  <2>10. QED
    BY Zenon, <1>1, <1>2, <2>3, <2>5, <2>7, <2>8, <2>9 DEF Sound
<1>6. CASE t.op.name # "sql" /\ ~t.doing.apply
  <2>1. r = [t EXCEPT !.pc = "back", !.doing = NoWork, !.steps = @ - 1, !.reverted = @ + 1]
    BY Zenon, <1>1, <1>6 DEF After
  <2>2. r \in Tasks /\ r.pc = "back" /\ r.op = t.op /\ r.doing = NoWork
    BY Zenon, <2>1, RevertedIs
  <2>3. u \in Tasks /\ u.pc = "back" /\ u.op = t.op /\ u.doing = NoWork
    BY Zenon, <1>2, <2>2, ClearedIs
  <2>4. t.op.name \in {"rollback", "reset", "refresh"}
    BY <1>3, <1>6
  <2>5. Shape(u)'
    BY <1>3, <2>3, <2>4 DEF Shape, Working
  <2>6. LeavesNonePending(p, u)' /\ RevertsNewest(u)'
    BY <2>3 DEF LeavesNonePending, RevertsNewest, Working
  <2>7. t.op.name = "reset" /\ Meddled = {} => Recorded \subseteq Registered[p]
    BY Zenon, <1>3 DEF Sound, KnowsEveryRow
  <2>8. KnowsEveryRow(p, u)'
    <3>1. Recorded' \subseteq Recorded /\ Meddled' = Meddled
      BY Zenon, <1>6 DEF Meddled
    <3>2. QED
      BY <2>3, <2>7, <3>1 DEF KnowsEveryRow
  <2>9. u.pc \in Held \ {"recorded"}
    BY <2>3 DEF Held
  <2>10. QED
    BY Zenon, <1>1, <1>2, <2>3, <2>5, <2>6, <2>8, <2>9 DEF Sound
<1>7. QED
  BY Zenon, <1>4, <1>5, <1>6

\* A call that fails says so.
LEMMA FaultSound ==
    ASSUME NEW p \in Processes, NEW t \in Tasks, t.op \in Operations
    PROVE  LET u == [Finish(t, "error") EXCEPT !.faulted = TRUE]
           IN  u \in Tasks /\ u.pc = "releasing" /\ Sound(p, u)
<1>1. PICK u : u = [Finish(t, "error") EXCEPT !.faulted = TRUE]
  BY Zenon
<1>2. u \in Tasks /\ u.pc = "releasing" /\ u.op = t.op /\ u.doing = NoWork /\ u.faulted /\ u.outcome = "error"
  BY Zenon, <1>1, FaultIs
<1>3. Shape(u)
  BY <1>2 DEF Shape, Working
<1>4. LeavesNonePending(p, u) /\ KnowsEveryRow(p, u) /\ RevertsNewest(u)
  BY <1>2 DEF LeavesNonePending, KnowsEveryRow, RevertsNewest, Working
<1>5. QED
  BY Zenon, <1>1, <1>2, <1>3, <1>4 DEF Sound

LEMMA CommitKeeps ==
    ASSUME IndInv, NEW p \in Processes, Commit(p)
    PROVE  IndInv'
<1>1. Typed /\ OneHolder /\ RowsAreLocked /\ LedgerTellsSchema /\ Sound(p, task[p]) /\ OwnRow(task[p])
  BY Zenon DEF IndInv, RowsAreLocked
<1>2. PICK t \in Tasks : t = task[p]
  BY Zenon, <1>1 DEF Typed
<1>3. t.pc = "recorded" /\ t.pc \in Held /\ t.pc \in Working
  BY <1>2 DEF Commit, Held, Working
<1>4. t.doing \in Works /\ t.op \in Operations
  BY <1>1, <1>2, <1>3 DEF Sound, Shape, Tasks
<1>5. UNCHANGED <<backend, holders, late, meddled>>
  BY Zenon DEF Commit
<1>6. /\ \A w \in late : w.version # t.doing.version
      /\ t.doing.apply => (t.doing.version \in Recorded <=> ~TransactionalDdl)
  BY Zenon, <1>1, <1>2, <1>3 DEF OwnRow
<1>7. CASE t.dangles
  <2>1. task' = [task EXCEPT ![p] = [Finish(t, "error") EXCEPT !.faulted = TRUE]] /\ UNCHANGED <<ledger, effect, dangling>>
    BY Zenon, <1>2, <1>7 DEF Commit, LeavesDangling
  <2>2. PICK u : u = [Finish(t, "error") EXCEPT !.faulted = TRUE]
    BY Zenon
  <2>3. u \in Tasks /\ u.pc = "releasing" /\ Sound(p, u)
    BY Zenon, <1>4, <2>2, FaultSound
  <2>4. "releasing" \in Held /\ "releasing" # "recorded"
    BY DEF Held
  <2>5. QED
    BY Zenon, <1>2, <1>3, <1>5, <2>1, <2>2, <2>3, <2>4, InLock
<1>8. CASE ~t.dangles
  <2>1. PICK u : u = [After(t) EXCEPT !.dangles = FALSE]
    BY Zenon
  <2>2. task' = [task EXCEPT ![p] = u] /\ dangling' = (dangling \/ t.dangles)
    BY Zenon, <1>2, <1>8, <2>1 DEF Commit, LeavesDangling
  <2>3. TransactionalDdl => ledger' = Written(t.doing) /\ effect' = Changed(t.doing)
    BY Zenon, <1>2, <1>8 DEF Commit, LeavesDangling
  <2>4. ~TransactionalDdl => UNCHANGED <<ledger, effect>>
    BY Zenon, <1>2, <1>8 DEF Commit, LeavesDangling
  <2>5. TransactionalDdl =>
            /\ Written(t.doing) \in Seq(Versions) /\ IsInjective(Written(t.doing))
            /\ Range(Written(t.doing)) = IF t.doing.apply THEN Recorded \cup {t.doing.version}
                                         ELSE Recorded \ {t.doing.version}
    BY Zenon, <1>1, <1>4, <1>6, WrittenIs
  <2>6. ledger' \in Seq(Versions) /\ IsInjective(ledger')
    BY Zenon, <1>1, <2>3, <2>4, <2>5 DEF Typed
  <2>7. /\ t.doing.apply => Recorded \subseteq Recorded' /\ t.doing.version \in Recorded'
        /\ ~t.doing.apply => Recorded' \subseteq Recorded
        /\ Range(ledger') \subseteq Recorded \cup {t.doing.version}
    <3>1. CASE TransactionalDdl
      BY Zenon, <2>3, <2>5, <3>1 DEF Recorded
    <3>2. CASE ~TransactionalDdl
      BY Zenon, <1>6, <2>4, <3>2 DEF Recorded
    <3>3. QED
      BY Zenon, <3>1, <3>2
  <2>8. u \in Tasks /\ u.pc \in Held \ {"recorded"} /\ Sound(p, u)'
    <3>1. [After(t) EXCEPT !.dangles = FALSE] \in Tasks /\ [After(t) EXCEPT !.dangles = FALSE].pc \in Held \ {"recorded"}
          /\ Sound(p, [After(t) EXCEPT !.dangles = FALSE])'
      BY Zenon, <1>1, <1>2, <1>3, <1>5, <2>7, AfterIs
    <3>2. QED
      BY Zenon, <2>1, <3>1 DEF Sound, Shape, LeavesNonePending, KnowsEveryRow, RevertsNewest
  <2>9. effect' \in [Versions -> Nat] /\ dangling' \in BOOLEAN
    BY Zenon, <1>1, <1>4, <1>5, <2>2, <2>3, <2>4, ChangedEffect DEF Typed
  <2>10. LedgerTellsSchema'
    <3>1. SUFFICES ASSUME TransactionalDdl, NEW v \in Versions \ meddled.marked
                   PROVE  effect'[v] = IF v \in Recorded' THEN 1 ELSE 0
      BY Zenon, <1>5 DEF LedgerTellsSchema, TransactionalDdl
    <3>2. Changed(t.doing)[v] = IF v \in Range(Written(t.doing)) THEN 1 ELSE 0
      BY Zenon, <1>1, <1>4, <1>6, <2>5, <3>1, BothOrNeither
    <3>3. QED
      BY Zenon, <2>3, <3>1, <3>2 DEF Recorded
  <2>11. OwnRow(u)'
    BY Zenon, <2>8 DEF OwnRow
  <2>12. RowsAreLocked'
    BY Zenon, <1>1, <1>2, <1>3, <1>5, <1>6, <2>2, <2>7, <2>8, <2>11, RowsMove
  <2>13. QED
    BY Zenon, <1>2, <1>3, <1>5, <2>2, <2>6, <2>8, <2>9, <2>10, <2>12, LedgerMoves
<1>9. QED
  BY Zenon, <1>7, <1>8

-------------------------------------------------------------------------------
(* Faults, and what arrives late                                           *)

\* What the end of a call leaves behind is alone with its row.
LEMMA LeftBehind ==
    ASSUME IndInv, NEW p \in Processes, LeavesBehind(task[p]), NEW u \in Tasks, task' = [task EXCEPT ![p] = u],
           u.pc # "recorded", UNCHANGED <<backend, ledger>>
    PROVE  RowsAreLocked' /\ late' \subseteq Works /\ effect' \in [Versions -> Nat] /\ (TransactionalDdl => effect' = effect)
<1>1. Typed /\ OneHolder /\ RowsAreLocked /\ Sound(p, task[p]) /\ OwnRow(task[p])
  BY Zenon DEF IndInv, RowsAreLocked
<1>2. PICK t \in Tasks : t = task[p]
  BY Zenon, <1>1 DEF Typed
<1>3. t.pc \in {"scope", "recorded"} => t.doing \in Works
  BY <1>1, <1>2 DEF Sound, Shape, Tasks, Working
<1>4. CASE UNCHANGED <<effect, late>>
  BY Zenon, <1>1, <1>4, RowsRest DEF Typed
<1>5. CASE t.pc = "scope" /\ ~TransactionalDdl /\ effect' = Changed(t.doing) /\ UNCHANGED late
  <2>1. t.doing \in Works
    BY <1>3, <1>5
  <2>2. effect' \in [Versions -> Nat]
    BY Zenon, <1>1, <1>5, <2>1, ChangedEffect DEF Typed
  <2>3. QED
    BY Zenon, <1>1, <1>5, <2>2, RowsRest DEF Typed
<1>6. CASE t.pc = "recorded" /\ TransactionalDdl /\ late' = late \cup {t.doing} /\ UNCHANGED effect
  <2>1. t.doing \in Works /\ t.pc \in Held
    BY <1>3, <1>6 DEF Held
  <2>2. /\ \A w \in late : w.version # t.doing.version
        /\ t.doing.apply => t.doing.version \notin Recorded
    BY Zenon, <1>1, <1>2, <1>6 DEF OwnRow
  <2>3. RowsOfLate'
    BY Zenon, <1>1, <1>6, <2>2 DEF RowsAreLocked, RowsOfLate, TransactionalDdl, Recorded
  <2>4. task'[p] = u /\ \A q \in Processes \ {p} : task'[q] = task[q]
    BY Zenon, <1>1, OneMoves
  <2>5. ASSUME NEW q \in Processes
        PROVE  OwnRow(task[q])'
    <3>1. task'[q].pc # "recorded"
      <4>1. CASE q = p
        BY Zenon, <2>4, <4>1
      <4>2. CASE q # p
        <5>1. task[q].pc \notin Held /\ task'[q] = task[q]
          BY Zenon, <1>1, <1>2, <2>1, <2>4, <4>2, Alone
        <5>2. QED
          BY <5>1 DEF Held
      <4>3. QED
        BY Zenon, <4>1, <4>2
    <3>2. QED
      BY Zenon, <3>1 DEF OwnRow
  <2>6. late' \subseteq Works /\ effect' \in [Versions -> Nat]
    BY Zenon, <1>1, <1>6, <2>1 DEF Typed
  <2>7. QED
    BY Zenon, <1>6, <2>3, <2>5, <2>6 DEF RowsAreLocked
<1>7. QED
  BY Zenon, <1>2, <1>4, <1>5, <1>6 DEF LeavesBehind

LEMMA FailKeeps ==
    ASSUME IndInv, NEW p \in Processes, Fail(p)
    PROVE  IndInv'
<1>1. Typed /\ OneHolder /\ Sound(p, task[p])
  BY Zenon DEF IndInv
<1>2. PICK t \in Tasks : t = task[p]
  BY Zenon, <1>1 DEF Typed
<1>3. t.pc \in Held /\ t.pc # "idle"
  BY <1>2 DEF Fail, Held
<1>4. t.op \in Operations
  BY Zenon, <1>1, <1>2, <1>3 DEF Sound, Shape
<1>5. PICK u : u = [Finish(t, "error") EXCEPT !.faulted = TRUE]
  BY Zenon
<1>6. u \in Tasks /\ u.pc = "releasing" /\ Sound(p, u)
  BY Zenon, <1>4, <1>5, FaultSound
<1>7. task' = [task EXCEPT ![p] = u] /\ LeavesBehind(task[p]) /\ UNCHANGED <<backend, holders, ledger, dangling, meddled>>
  BY Zenon, <1>2, <1>5 DEF Fail
<1>8. "releasing" \in Held /\ "releasing" # "recorded"
  BY DEF Held
<1>9. OneHolder' /\ holders' \subseteq Processes
  BY Zenon, <1>1, <1>2, <1>3, <1>6, <1>7, <1>8, Holders
<1>10. RowsAreLocked' /\ late' \subseteq Works /\ effect' \in [Versions -> Nat] /\ (TransactionalDdl => effect' = effect)
  BY Zenon, <1>6, <1>7, <1>8, LeftBehind
<1>11. QED
  BY Zenon, <1>6, <1>7, <1>9, <1>10, LedgerRests

LEMMA DropKeeps ==
    ASSUME IndInv, NEW p \in Processes, Drop(p)
    PROVE  IndInv'
<1>1. Typed /\ OneHolder /\ Sound(p, task[p])
  BY Zenon DEF IndInv
<1>2. PICK op \in Operations : op = task[p].op
  BY Zenon, <1>1 DEF Drop, Sound, Shape
<1>3. PICK u \in Tasks : u = Idle /\ u.pc = "idle"
  BY Zenon, <1>2, IdleIs
<1>4. u.pc \notin Held /\ u.pc # "recorded"
  BY <1>3 DEF Held
<1>5. /\ task' = [task EXCEPT ![p] = u] /\ LeavesBehind(task[p]) /\ holders' = holders \ {p}
      /\ UNCHANGED <<backend, ledger, dangling, meddled>>
  BY Zenon, <1>3 DEF Drop
<1>6. OneHolder' /\ holders' \subseteq Processes
  BY Zenon, <1>1, <1>4, <1>5, Holders
<1>7. Sound(p, u)
  BY Zenon, <1>2, <1>3, <1>4, IdleShape, Outside
<1>8. RowsAreLocked' /\ late' \subseteq Works /\ effect' \in [Versions -> Nat] /\ (TransactionalDdl => effect' = effect)
  BY Zenon, <1>4, <1>5, LeftBehind
<1>9. QED
  BY Zenon, <1>5, <1>6, <1>7, <1>8, LedgerRests

\* A row changes outside the lock: the version is noted, and no transaction has
\* written it.
LEMMA Meddling ==
    ASSUME IndInv, NEW version \in Versions, ledger' \in Seq(Versions), IsInjective(ledger'),
           \A v : v # version => (v \in Recorded' <=> v \in Recorded),
           version \in Meddled', Meddled \subseteq Meddled', meddled' \in [marked : SUBSET Versions, late : SUBSET Versions],
           late' \subseteq late, \A w \in late' : w.version # version,
           \A p \in Processes : task[p].pc = "recorded" => task[p].doing.version # version,
           effect' \in [Versions -> Nat], LedgerTellsSchema', UNCHANGED <<backend, holders, dangling, task>>
    PROVE  IndInv'
<1>1. Typed /\ OneHolder /\ RowsAreLocked /\ \A p \in Processes : Sound(p, task[p])
  BY Zenon DEF IndInv
<1>2. Typed' /\ OneHolder'
  BY Zenon, <1>1 DEF Typed, OneHolder
<1>3. RowsOfLate'
  BY Zenon, <1>1 DEF RowsAreLocked, RowsOfLate, TransactionalDdl
<1>4. ASSUME NEW p \in Processes
      PROVE  OwnRow(task[p])'
  BY Zenon, <1>1 DEF RowsAreLocked, OwnRow, TransactionalDdl
<1>5. ASSUME NEW p \in Processes
      PROVE  Sound(p, task[p])'
  <2>1. Sound(p, task[p]) /\ task'[p] = task[p] /\ Meddled' # {}
    BY Zenon, <1>1
  <2>2. Shape(task[p])'
    BY Zenon, <2>1 DEF Sound, Shape
  <2>3. \A v : v \in Recorded \cup Meddled => v \in Recorded' \cup Meddled'
    BY Zenon
  <2>4. LeavesNonePending(p, task[p])'
    BY Zenon, <2>1, <2>3 DEF Sound, LeavesNonePending
  <2>5. KnowsEveryRow(p, task[p])' /\ RevertsNewest(task[p])'
    BY Zenon, <2>1 DEF KnowsEveryRow, RevertsNewest
  <2>6. QED
    BY Zenon, <2>2, <2>4, <2>5 DEF Sound
<1>6. QED
  BY Zenon, <1>2, <1>3, <1>4, <1>5 DEF IndInv, RowsAreLocked

LEMMA LateEndsKeeps ==
    ASSUME IndInv, NEW work \in Works, LateEnds(work)
    PROVE  IndInv'
<1>1. Typed /\ OneHolder /\ RowsAreLocked /\ LedgerTellsSchema /\ \A p \in Processes : Sound(p, task[p])
  BY Zenon DEF IndInv
<1>2. work \in late /\ late' = late \ {work} /\ UNCHANGED <<backend, holders, dangling, task>>
  BY Zenon DEF LateEnds
<1>3. TransactionalDdl /\ (work.apply => work.version \notin Recorded) /\ \A w \in late' : w.version # work.version
  BY Zenon, <1>1, <1>2 DEF RowsAreLocked, RowsOfLate
<1>4. CASE UNCHANGED <<ledger, effect, meddled>>
  <2>1. Typed' /\ OneHolder' /\ LedgerTellsSchema'
    BY Zenon, <1>1, <1>2, <1>4 DEF Typed, OneHolder, LedgerTellsSchema, Recorded, TransactionalDdl
  <2>2. RowsAreLocked'
    BY Zenon, <1>1, <1>2, <1>4 DEF RowsAreLocked, RowsOfLate, OwnRow, Recorded, TransactionalDdl
  <2>3. ASSUME NEW p \in Processes
        PROVE  Sound(p, task[p])'
    <3>1. PICK t \in Tasks : t = task[p] /\ t = task'[p]
      BY Zenon, <1>1, <1>2 DEF Typed
    <3>2. Sound(p, t)'
      BY Zenon, <1>1, <1>2, <1>4, <3>1, SoundRests
    <3>3. QED
      BY ZenonT(60), <3>1, <3>2 DEF Sound, Shape, LeavesNonePending, KnowsEveryRow, RevertsNewest
  <2>4. QED
    BY Zenon, <2>1, <2>2, <2>3 DEF IndInv
<1>5. CASE /\ effect' = Changed(work)
           /\ meddled' = [meddled EXCEPT !.late = @ \cup {work.version}]
           /\ \/ ~work.apply /\ ledger' = Written(work)
              \/ work.apply /\ \E i \in 1..Len(ledger) + 1 : ledger' = InsertAt(ledger, i, work.version)
  <2>1. work.version \in Versions
    BY DEF Works
  <2>2. /\ ledger' \in Seq(Versions) /\ IsInjective(ledger')
        /\ Range(ledger') = IF work.apply THEN Recorded \cup {work.version} ELSE Recorded \ {work.version}
    <3>1. CASE ~work.apply /\ ledger' = Written(work)
      BY Zenon, <1>1, <1>3, <3>1, WrittenIs
    <3>2. ASSUME work.apply, NEW i \in 1..Len(ledger) + 1, ledger' = InsertAt(ledger, i, work.version)
          PROVE  <2>2!:
      <4>1. ledger \in Seq(Versions) /\ IsInjective(ledger) /\ work.version \notin Range(ledger)
        BY Zenon, <1>1, <1>3, <3>2 DEF Typed, Recorded
      <4>2. QED
        BY <2>1, <3>2, <4>1, Inserted DEF Recorded
    <3>3. QED
      BY Zenon, <1>5, <3>1, <3>2
  <2>3. \A v : v # work.version => (v \in Recorded' <=> v \in Recorded)
    BY Zenon, <2>2 DEF Recorded
  <2>4. /\ meddled' \in [marked : SUBSET Versions, late : SUBSET Versions] /\ meddled'.marked = meddled.marked
        /\ meddled'.late = meddled.late \cup {work.version}
    BY Zenon, <1>1, <1>5, <2>1 DEF Typed
  <2>5. work.version \in Meddled' /\ Meddled \subseteq Meddled'
    BY Zenon, <2>4 DEF Meddled
  <2>6. effect' \in [Versions -> Nat]
    BY Zenon, <1>1, <1>5, ChangedEffect DEF Typed
  <2>7. ASSUME NEW v \in Versions \ meddled.marked
        PROVE  effect'[v] = IF v \in Recorded' THEN 1 ELSE 0
    <3>1. Changed(work)[v] = IF v \in Range(ledger') THEN 1 ELSE 0
      BY Zenon, <1>1, <1>3, <2>2, <2>7, BothOrNeither
    <3>2. QED
      BY Zenon, <1>5, <3>1 DEF Recorded
  <2>8. LedgerTellsSchema'
    BY Zenon, <2>4, <2>7 DEF LedgerTellsSchema
  <2>9. \A p \in Processes : task[p].pc = "recorded" => task[p].doing.version # work.version
    BY Zenon, <1>1, <1>2 DEF RowsAreLocked, OwnRow
  <2>10. QED
    BY Zenon, <1>2, <1>3, <2>1, <2>2, <2>3, <2>4, <2>5, <2>6, <2>8, <2>9, Meddling
<1>6. QED
  BY Zenon, <1>4, <1>5 DEF LateEnds

LEMMA MarkKeeps ==
    ASSUME IndInv, NEW v \in Versions, NEW applied \in BOOLEAN, Mark(v, applied)
    PROVE  IndInv'
<1>1. Typed /\ LedgerTellsSchema
  BY Zenon DEF IndInv
<1>2. PICK work : work = [version |-> v, apply |-> applied]
  BY Zenon
<1>3. work \in Works /\ work.version = v /\ work.apply = applied
  BY <1>2 DEF Works
<1>4. work.apply => work.version \notin Recorded
  BY Zenon, <1>3 DEF Mark
<1>5. ledger' = Written(work) /\ UNCHANGED <<backend, holders, effect, dangling, late, task>>
  BY Zenon, <1>2 DEF Mark
<1>6. /\ ledger' \in Seq(Versions) /\ IsInjective(ledger')
      /\ Range(ledger') = IF work.apply THEN Recorded \cup {work.version} ELSE Recorded \ {work.version}
  BY Zenon, <1>1, <1>3, <1>4, <1>5, WrittenIs
<1>7. \A w : w # v => (w \in Recorded' <=> w \in Recorded)
  BY Zenon, <1>3, <1>6 DEF Recorded
<1>8. /\ meddled' \in [marked : SUBSET Versions, late : SUBSET Versions] /\ meddled'.late = meddled.late
      /\ meddled'.marked = meddled.marked \cup {v}
  BY <1>1 DEF Mark, Typed
<1>9. v \in Meddled' /\ Meddled \subseteq Meddled'
  BY Zenon, <1>8 DEF Meddled
<1>10. LedgerTellsSchema'
  BY Zenon, <1>1, <1>5, <1>7, <1>8 DEF LedgerTellsSchema, TransactionalDdl
<1>11. /\ \A w \in late' : w.version # v
       /\ \A p \in Processes : task[p].pc = "recorded" => task[p].doing.version # v
  BY Zenon, <1>5 DEF Mark
<1>12. late' \subseteq late /\ effect' \in [Versions -> Nat]
  BY Zenon, <1>1, <1>5 DEF Typed
<1>13. QED
  BY Zenon, <1>5, <1>6, <1>7, <1>8, <1>9, <1>10, <1>11, <1>12, Meddling

-------------------------------------------------------------------------------
(* The theorems                                                            *)

LEMMA InitHolds ==
    Init => IndInv
<1>1. SUFFICES ASSUME Init PROVE IndInv
  OBVIOUS
<1>2. /\ ledger \in Ledgers /\ holders = {} /\ late = {} /\ task = [p \in Processes |-> Idle]
      /\ meddled = [marked |-> {}, late |-> {}]
      /\ effect = [v \in Versions |-> IF v \in Range(ledger) THEN 1 ELSE 0]
      /\ dangling \in BOOLEAN
  BY Zenon, <1>1 DEF Init
<1>3. ledger \in Seq(Versions) /\ IsInjective(ledger)
  BY Zenon, <1>2, MigratorAssumption
<1>4. PICK t : t = Idle
  BY Zenon
<1>5. /\ t \in Tasks /\ t.pc = "idle" /\ t.doing = NoWork /\ t.reverted = 0
  BY <1>4 DEF Idle, Tasks, Steps
<1>6. t.pc \notin Held /\ t.pc # "recorded" /\ Shape(t)
  BY <1>5 DEF Held, Shape, Working
<1>7. effect \in [Versions -> Nat] /\ \A v \in Versions : effect[v] = IF v \in Recorded THEN 1 ELSE 0
  BY <1>2 DEF Recorded
<1>8. Typed
  BY <1>2, <1>3, <1>4, <1>5, <1>7 DEF Typed
<1>9. \A p \in Processes : task[p] = t
  BY Zenon, <1>2, <1>4
<1>10. OneHolder /\ RowsAreLocked
  BY Zenon, <1>2, <1>6, <1>9 DEF OneHolder, RowsAreLocked, RowsOfLate, OwnRow
<1>11. LedgerTellsSchema
  BY Zenon, <1>7 DEF LedgerTellsSchema
<1>12. \A p \in Processes : Sound(p, t)
  BY Zenon, <1>5, <1>6, Outside
<1>13. QED
  BY Zenon, <1>8, <1>9, <1>10, <1>11, <1>12 DEF IndInv

LEMMA StutterKeeps ==
    ASSUME IndInv, UNCHANGED vars
    PROVE  IndInv'
<1>1. UNCHANGED <<backend, holders, ledger, effect, dangling, late, task, budget, meddled>>
  BY DEF vars
<1>2. Recorded' = Recorded /\ Meddled' = Meddled /\ TransactionalDdl' = TransactionalDdl
  BY Zenon, <1>1 DEF Recorded, Meddled, TransactionalDdl
<1>3. Typed' /\ OneHolder' /\ LedgerTellsSchema' /\ RowsAreLocked'
  BY Zenon, <1>1, <1>2 DEF IndInv, Typed, OneHolder, LedgerTellsSchema, RowsAreLocked, RowsOfLate, OwnRow
<1>4. ASSUME NEW p \in Processes
      PROVE  Sound(p, task[p])'
  <2>1. PICK t \in Tasks : t = task[p] /\ t = task'[p]
    BY Zenon, <1>1 DEF IndInv, Typed
  <2>2. Sound(p, t)'
    BY Zenon, <1>1, <2>1, SoundRests DEF IndInv
  <2>3. QED
    BY ZenonT(60), <2>1, <2>2 DEF Sound, Shape, LeavesNonePending, KnowsEveryRow, RevertsNewest
<1>5. QED
  BY Zenon, <1>3, <1>4 DEF IndInv

LEMMA NextKeeps ==
    IndInv /\ [Next]_vars => IndInv'
<1>1. SUFFICES ASSUME IndInv, [Next]_vars PROVE IndInv'
  OBVIOUS
<1>2. ASSUME NEW p \in Processes, Step(p) \/ TimeOut(p) \/ Fail(p) \/ Drop(p)
      PROVE  IndInv'
  BY Zenon, <1>1, <1>2, AcquireKeeps, StartKeeps, BackKeeps, NextMigrationKeeps, RefuseDanglingKeeps, ChangeKeeps,
     RecordKeeps, CommitKeeps, ReleaseKeeps, TimeOutKeeps, FailKeeps, DropKeeps DEF Step
<1>3. ASSUME NEW p \in Processes, NEW op \in Operations, Call(p, op)
      PROVE  IndInv'
  BY Zenon, <1>1, <1>3, CallKeeps
<1>4. ASSUME NEW work \in Works, LateEnds(work)
      PROVE  IndInv'
  BY Zenon, <1>1, <1>4, LateEndsKeeps
<1>5. ASSUME NEW v \in Versions, NEW applied \in BOOLEAN, Mark(v, applied)
      PROVE  IndInv'
  BY Zenon, <1>1, <1>5, MarkKeeps
<1>6. CASE UNCHANGED vars
  BY Zenon, <1>1, <1>6, StutterKeeps
<1>7. QED
  BY Zenon, <1>1, <1>2, <1>3, <1>4, <1>5, <1>6 DEF Next

\* The invariant the theorems rest on holds all along.
THEOREM MigratorInvariant == Spec => []IndInv
<1>1. QED
  BY InitHolds, NextKeeps, PTL DEF Spec

\* With transactional DDL the ledger of migrations says exactly which changes
\* are in the schema, however many processes migrate, fail, die or are dropped,
\* and whenever a COMMIT sent by one that is gone arrives (run_migration,
\* in_ddl_scope); only versions that __mark_migration was told about can differ.
THEOREM TheLedgerTellsTheSchema == Spec => []LedgerTellsSchema
<1>1. IndInv => LedgerTellsSchema
  BY Zenon DEF IndInv
<1>2. QED
  BY <1>1, MigratorInvariant, PTL

\* A run or a refresh that reports success has left none of its migrations
\* pending, and a reset that refuses has reverted nothing (run_locked,
\* reset_locked, rollback_locked).
THEOREM CallsKeepTheirWord == Spec => []CallsDoWhatTheySay
<1>1. IndInv => CallsDoWhatTheySay
  <2>1. SUFFICES ASSUME IndInv PROVE NothingPending /\ ResetAllOrNothing
    BY Zenon DEF CallsDoWhatTheySay
  <2>2. "releasing" \in Held /\ "releasing" \notin Working
    BY DEF Held, Working
  <2>3. NothingPending
    BY Zenon, <2>1, <2>2 DEF IndInv, Sound, LeavesNonePending, NothingPending, Meddled
  <2>4. ResetAllOrNothing
    BY Zenon, <2>1, <2>2 DEF IndInv, Sound, KnowsEveryRow, ResetAllOrNothing, Meddled
  <2>5. QED
    BY Zenon, <2>3, <2>4
<1>2. QED
  BY <1>1, MigratorInvariant, PTL

\* The ledger loses a row in the middle of a rollback only by its own COMMIT.
LEMMA RollsBackTheNewest ==
    ASSUME IndInv, [Next]_vars
    PROVE  TakesTheNewest
<1>1. SUFFICES ASSUME NEW p \in Processes, task[p].pc = "recorded", task[p].op.name # "sql", ~task[p].doing.apply,
                      Len(ledger') < Len(ledger), Meddled' = {}
               PROVE  ledger' = Front(ledger)
  BY Zenon DEF TakesTheNewest, Meddled
<1>2. Typed /\ OneHolder /\ Sound(p, task[p]) /\ task[p].pc \in Held
  BY <1>1 DEF IndInv, Held
<1>3. ledger' # ledger
  BY <1>1, <1>2 DEF Typed
<1>4. \A q \in Processes : task[q].pc \in Held => q = p
  BY Zenon, <1>2, Alone
<1>5. ASSUME NEW q \in Processes, Step(q) \/ TimeOut(q) \/ Fail(q) \/ Drop(q)
      PROVE  Commit(p)
  <2>1. ASSUME Record(q)
        PROVE  FALSE
    <3>1. task[q].pc = "changed"
      BY Zenon, <2>1 DEF Record
    <3>2. task[q].pc \in Held /\ task[q].pc # "recorded"
      BY <3>1 DEF Held
    <3>3. QED
      BY Zenon, <1>1, <1>4, <3>2
  <2>2. ASSUME Commit(q)
        PROVE  q = p
    <3>1. task[q].pc = "recorded"
      BY Zenon, <2>2 DEF Commit
    <3>2. task[q].pc \in Held
      BY <3>1 DEF Held
    <3>3. QED
      BY Zenon, <1>4, <3>2
  <2>3. Acquire(q) \/ Start(q) \/ Back(q) \/ NextMigration(q) \/ RefuseDangling(q) \/ Change(q) \/ Release(q)
        \/ TimeOut(q) \/ Fail(q) \/ Drop(q) => ledger' = ledger
    BY Zenon DEF Acquire, Start, Back, NextMigration, RefuseDangling, Change, Release, TimeOut, Fail, Drop, Database
  <2>4. QED
    BY Zenon, <1>3, <1>5, <2>1, <2>2, <2>3 DEF Step
<1>6. ASSUME NEW q \in Processes, NEW op \in Operations, Call(q, op)
      PROVE  FALSE
  BY Zenon, <1>3, <1>6 DEF Call, Database
<1>7. ASSUME NEW work \in Works, LateEnds(work)
      PROVE  FALSE
  <2>1. meddled' = [meddled EXCEPT !.late = @ \cup {work.version}]
    BY Zenon, <1>3, <1>7 DEF LateEnds
  <2>2. work.version \in meddled'.late
    BY <1>2, <2>1 DEF Typed
  <2>3. QED
    BY Zenon, <1>1, <2>2 DEF Meddled
<1>8. ASSUME NEW v \in Versions, NEW applied \in BOOLEAN, Mark(v, applied)
      PROVE  FALSE
  <2>1. v \in meddled'.marked
    BY <1>2, <1>8 DEF Mark, Typed
  <2>2. QED
    BY Zenon, <1>1, <2>1 DEF Meddled
<1>9. Commit(p)
  BY Zenon, <1>3, <1>5, <1>6, <1>7, <1>8 DEF Next, vars
<1>10. TransactionalDdl /\ ledger' = Written(task[p].doing) /\ UNCHANGED meddled
  BY Zenon, <1>3, <1>9 DEF Commit
<1>11. "recorded" \in Working
  BY DEF Working
<1>12. Meddled = {}
  BY Zenon, <1>1, <1>10 DEF Meddled
<1>13. ledger # <<>> /\ task[p].doing.version = Last(ledger)
  BY Zenon, <1>1, <1>2, <1>10, <1>11, <1>12 DEF Sound, RevertsNewest
<1>14. task[p].doing \in Works
  <2>1. PICK t \in Tasks : t = task[p]
    BY Zenon, <1>2 DEF Typed
  <2>2. t.doing \in Works
    BY <1>1, <1>2, <1>11, <2>1 DEF Sound, Shape, Tasks
  <2>3. QED
    BY Zenon, <2>1, <2>2
<1>15. QED
  BY Zenon, <1>1, <1>2, <1>10, <1>13, <1>14, NewestWritten

\* A rollback takes the row away that was written last, whatever its version
\* (rollback_locked), unless somebody meddles with the ledger meanwhile.
THEOREM RollbacksTakeTheNewest == Spec => NewestFirst
<1>1. IndInv /\ [Next]_vars => TakesTheNewest
  BY Zenon, RollsBackTheNewest
<1>2. QED
  BY <1>1, MigratorInvariant, PTL DEF Spec, NewestFirst

\* No migration leaves a foreign key that points nowhere where there was none
\* (run_with_foreign_keys_off).
THEOREM NothingDangles == Spec => NoNewDangling
<1>1. [Next]_vars => (dangling' => dangling)
  <2>1. SUFFICES ASSUME [Next]_vars, dangling' PROVE dangling
    OBVIOUS
  <2>2. ASSUME NEW p \in Processes, Step(p) \/ TimeOut(p) \/ Fail(p) \/ Drop(p)
        PROVE  dangling
    <3>1. Commit(p) => dangling
      BY Zenon, <2>1 DEF Commit, LeavesDangling
    <3>2. ~Commit(p) => dangling' = dangling
      BY Zenon, <2>2 DEF Step, Acquire, Start, Back, NextMigration, RefuseDangling, Change, Record, Release,
         TimeOut, Fail, Drop, Database
    <3>3. QED
      BY Zenon, <2>1, <3>1, <3>2
  <2>3. ASSUME NEW p \in Processes, NEW op \in Operations, Call(p, op)
        PROVE  dangling
    BY Zenon, <2>1, <2>3 DEF Call, Database
  <2>4. ASSUME NEW work \in Works, LateEnds(work)
        PROVE  dangling
    BY Zenon, <2>1, <2>4 DEF LateEnds
  <2>5. ASSUME NEW v \in Versions, NEW applied \in BOOLEAN, Mark(v, applied)
        PROVE  dangling
    BY Zenon, <2>1, <2>5 DEF Mark
  <2>6. QED
    BY Zenon, <2>1, <2>2, <2>3, <2>4, <2>5 DEF Next, vars
<1>2. QED
  BY <1>1, PTL DEF Spec, NoNewDangling
===============================================================================
