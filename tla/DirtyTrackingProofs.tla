------------------------- MODULE DirtyTrackingProofs -------------------------
(***************************************************************************)
(* InSync and NeverGuessed for every number of rows, pools, tasks and      *)
(* nested transactions, and for every capacity.                            *)
(*                                                                         *)
(* The argument: every sequence was handed out to one place, once.  An     *)
(* undo step that puts a baseline back puts it where its sequence belongs, *)
(* so two entries never share one, whatever happened between the step and  *)
(* its undoing.                                                            *)
(***************************************************************************)
EXTENDS DirtyTracking, FiniteSetTheorems, TLAPS

\* A set of numbers has a least one: eviction finds an oldest entry.
LEMMA LeastNat ==
    ASSUME NEW T, T \subseteq Nat, T # {}
    PROVE  \E x \in T : \A y \in T : x <= y
<1> DEFINE R == OpToRel(<, Nat)
<1>1. IsWellFoundedOn(R, Nat)   BY Zenon, NatLessThanWellFounded
<1>2. R = {ss \in Nat \X Nat : ss[1] < ss[2]}   BY DEF OpToRel
<1> HIDE DEF R
<1>3. \E x \in T : \A y \in T : ~(<<y, x>> \in R)   BY Zenon, <1>1, WFMin
<1>4. ASSUME NEW x \in Nat, NEW y \in Nat, y < x PROVE <<y, x>> \in R   BY <1>2, <1>4
<1>5. PICK x \in T : \A y \in T : ~(<<y, x>> \in R)   BY <1>3
<1>6. \A y \in T : ~(y < x)   BY Zenon, <1>4, <1>5
<1>7. \A y \in T : x <= y   BY <1>6
<1>8. QED   BY <1>7

-------------------------------------------------------------------------------
(* Sequences                                                               *)

\* A sequence of a set is one of any larger set.
LEMMA SeqGrows ==
    ASSUME NEW S, NEW T, S \subseteq T PROVE Seq(S) \subseteq Seq(T)
  OBVIOUS

\* A sequence that is not empty has a length to subtract from, and a last element.
LEMMA NonEmptySeq ==
    ASSUME NEW S, NEW q \in Seq(S), q # <<>> PROVE Len(q) \in Nat \ {0} /\ q[Len(q)] \in S
  OBVIOUS

\* The first element of a sequence, and the others.
LEMMA FirstAndRest ==
    ASSUME NEW S, NEW q \in Seq(S), q # <<>>
    PROVE  Head(q) \in S /\ Tail(q) \in Seq(S) /\ Len(Tail(q)) = Len(q) - 1
  OBVIOUS

\* Append adds one element.
LEMMA AppendInSeq ==
    ASSUME NEW S, NEW q \in Seq(S), NEW e \in S
    PROVE  Append(q, e) \in Seq(S) /\ Append(q, e) # <<>>
<1>1. Append(q, e) \in Seq(S) /\ Len(Append(q, e)) = Len(q) + 1 /\ Len(q) \in Nat
  OBVIOUS
<1>2. Len(Append(q, e)) # Len(<<>>)
  BY <1>1
<1>3. QED
  BY Zenon, <1>1, <1>2

\* Two sequences of a set, joined, are one.
LEMMA JoinedInSeq ==
    ASSUME NEW S, NEW q \in Seq(S), NEW r \in Seq(S) PROVE q \o r \in Seq(S)
  OBVIOUS

-------------------------------------------------------------------------------
(* The store alone                                                         *)

Entries == [sequence : Nat, values : Values \cup {Forgotten}]
Live(st) == {p \in Baselines : st.entries[p] # NoEntry}
Listed(st) == {<<st.entries[p].sequence, p>> : p \in Live(st)}

IsStore(st) ==
    st = [entries |-> st.entries, order |-> st.order, next_sequence |-> st.next_sequence,
          evicted |-> st.evicted]

\* `place` says where each sequence was handed out; entries are where they belong,
\* and `order` lists them.
Placed(st, place) ==
    /\ IsStore(st)
    /\ st.entries \in [Baselines -> Entries \cup {NoEntry}]
    /\ st.next_sequence \in Nat
    /\ \A p \in Live(st) : /\ st.entries[p].sequence < st.next_sequence
                           /\ place[st.entries[p].sequence] = p
    /\ st.order = Listed(st)
    /\ IsFiniteSet(Live(st))


\* Relisted changes two fields.
LEMMA RelistedIs ==
    ASSUME NEW st, NEW entries, NEW order, IsStore(st)
    PROVE  Relisted(st, entries, order) =
             [entries |-> entries, order |-> order, next_sequence |-> st.next_sequence,
              evicted |-> st.evicted]
<1>1. PICK s : s = [st EXCEPT !.entries = entries]
  BY Zenon
<1>2. s = [entries |-> entries, order |-> st.order, next_sequence |-> st.next_sequence,
           evicted |-> st.evicted]
  BY <1>1 DEF IsStore
<1>3. [s EXCEPT !.order = order] =
        [entries |-> entries, order |-> order, next_sequence |-> st.next_sequence,
         evicted |-> st.evicted]
  BY <1>2
<1>4. [s EXCEPT !.order = order] = Relisted(st, entries, order)
  BY <1>1 DEF Relisted
<1>5. QED
  BY <1>3, <1>4

\* To remove sequences from `order` is to remove the places that have them.
LEMMA RemovedFromOrder ==
    ASSUME NEW st, NEW place, Placed(st, place), NEW gone \in SUBSET Live(st)
    PROVE  {o \in st.order : o[1] \notin {st.entries[p].sequence : p \in gone}} =
             {<<st.entries[p].sequence, p>> : p \in Live(st) \ gone}
<1>1. \A p, q \in Live(st) : st.entries[p].sequence = st.entries[q].sequence => p = q
  BY DEF Placed
<1>2. QED
  BY <1>1 DEF Placed, Listed

\* take removes one entry, from both.
LEMMA TakePlaced ==
    ASSUME NEW st, NEW place, Placed(st, place), NEW p \in Baselines, NoEntry \notin Entries
    PROVE  /\ Placed(Take(st, p), place)
           /\ Live(Take(st, p)) = Live(st) \ {p}
           /\ Take(st, p).next_sequence = st.next_sequence
           /\ Take(st, p).evicted = st.evicted
           /\ Take(st, p).entries = [st.entries EXCEPT ![p] = NoEntry]
<1>1. PICK tk : tk = Take(st, p)
  OBVIOUS
<1>2. tk = [entries |-> [st.entries EXCEPT ![p] = NoEntry],
            order |-> Without(st.order, st.entries[p]),
            next_sequence |-> st.next_sequence, evicted |-> st.evicted]
  BY <1>1, RelistedIs DEF Take, Placed, IsStore
<1>3. Live(tk) = Live(st) \ {p}
  BY <1>2 DEF Placed, Live
<1>4. tk.order = Listed(tk)
  <2>1. CASE st.entries[p] = NoEntry
    BY <1>2, <1>3, <2>1 DEF Placed, Listed, Live, Without
  <2>2. CASE st.entries[p] # NoEntry
    <3>1. Listed(tk) = {<<st.entries[q].sequence, q>> : q \in Live(st) \ {p}}
      BY <1>2, <1>3 DEF Placed, Listed, Live
    <3>2. tk.order = {o \in Listed(st) : o[1] # st.entries[p].sequence}
      BY <1>2, <2>2 DEF Placed, Without
    <3>3. \A q \in Live(st) : st.entries[q].sequence = st.entries[p].sequence <=> q = p
      BY <2>2 DEF Placed, Live
    <3>4. QED
      BY <3>1, <3>2, <3>3, <2>2 DEF Listed
  <2>3. QED
    BY <2>1, <2>2
<1>5. IsFiniteSet(Live(tk))
  BY <1>3, FS_RemoveElement DEF Placed
<1>6. QED
  BY <1>1, <1>2, <1>3, <1>4, <1>5 DEF Placed, Live, IsStore

\* `order` is as long as there are entries.
LEMMA OrderCounts ==
    ASSUME NEW st, NEW place, Placed(st, place)
    PROVE  IsFiniteSet(st.order) /\ Cardinality(st.order) = Cardinality(Live(st))
<1> DEFINE f == [p \in Live(st) |-> <<st.entries[p].sequence, p>>]
<1>1. f \in Bijection(Live(st), st.order)
  BY DEF Placed, Listed, Bijection, Injection, Surjection, IsInjective
<1>2. ExistsBijection(Live(st), st.order)
  BY <1>1 DEF ExistsBijection
<1>3. QED
  BY <1>2, FS_Bijection DEF Placed

\* The entries once every pool's baseline of some row has left
RowLeft(from, to) ==
    \E row : /\ to.evicted = {row}
            /\ to.entries = [p \in Baselines |-> IF p[1] = row THEN NoEntry ELSE from[p]]

\* ... or all have stayed
LeftAs(from, to) == RowLeft(from, to) \/ (to.evicted = {} /\ to.entries = from)

\* Eviction removes a row that is there, and only entries of that row.
LEMMA EvictOldestPlaced ==
    ASSUME NEW st, NEW place, Placed(st, place), st.order # {}, NoEntry \notin Entries,
           NEW ev, ev = EvictOldest(st)
    PROVE  /\ Placed(ev, place)
           /\ ev.next_sequence = st.next_sequence
           /\ RowLeft(st.entries, ev)
           /\ Cardinality(Live(ev)) < Cardinality(Live(st))
<1>1. PICK oldest : oldest = CHOOSE o \in st.order : \A q \in st.order : o[1] <= q[1]
  OBVIOUS
<1>2. oldest \in st.order
  <2> DEFINE T == {o[1] : o \in st.order}
  <2>1. T \subseteq Nat /\ T # {}
    BY DEF Placed, Listed, Live, Entries
  <2>2. PICK x \in T : \A y \in T : x <= y
    BY Zenon, <2>1, LeastNat
  <2>3. QED
    BY <1>1, <2>2
<1>3. PICK row : row = oldest[2][1]
  OBVIOUS
<1>4. PICK p \in Live(st) : p[1] = row
  BY <1>2, <1>3 DEF Placed, Listed
<1>6. PICK re : re = Relisted(st, [q \in Baselines |-> IF q[1] = row THEN NoEntry ELSE st.entries[q]],
                              {o \in st.order : o[2][1] # row})
  BY Zenon
<1>7. re = [entries |-> [q \in Baselines |-> IF q[1] = row THEN NoEntry ELSE st.entries[q]],
            order |-> {o \in st.order : o[2][1] # row}, next_sequence |-> st.next_sequence,
            evicted |-> st.evicted]
  BY Zenon, <1>6, RelistedIs DEF Placed, IsStore
<1>8. ev = [re EXCEPT !.evicted = {row}]
  BY <1>1, <1>3, <1>6 DEF EvictOldest
<1>9. ev = [entries |-> [q \in Baselines |-> IF q[1] = row THEN NoEntry ELSE st.entries[q]],
            order |-> {o \in st.order : o[2][1] # row}, next_sequence |-> st.next_sequence,
            evicted |-> {row}]
  BY Zenon, <1>7, <1>8
<1>10. Live(ev) = {q \in Live(st) : q[1] # row}
  BY <1>9 DEF Live
<1>11. ev.order = Listed(ev)
  BY SMTT(60), <1>9, <1>10 DEF Placed, Listed, Live
<1>12. /\ IsFiniteSet(Live(ev))
       /\ Cardinality(Live(ev)) <= Cardinality(Live(st))
       /\ Cardinality(Live(ev)) # Cardinality(Live(st))
       /\ Cardinality(Live(ev)) \in Nat /\ Cardinality(Live(st)) \in Nat
  BY <1>4, <1>10, FS_Subset, FS_CardinalityType DEF Placed
<1>13. Placed(ev, place)
  BY <1>9, <1>10, <1>11, <1>12 DEF Placed, Live, IsStore
<1>14. /\ ev.evicted = {row} /\ ev.next_sequence = st.next_sequence
       /\ ev.entries = [q \in Baselines |-> IF q[1] = row THEN NoEntry ELSE st.entries[q]]
  BY <1>9
<1>15. Cardinality(Live(ev)) < Cardinality(Live(st))
  BY <1>12
<1>16. QED
  BY <1>13, <1>14, <1>15 DEF RowLeft

\* What put finds: p is free, and e has a sequence of p's.
CanPut(st, place, p, e) ==
    /\ Placed(st, place) /\ Cardinality(Live(st)) <= Capacity /\ st.evicted = {}
    /\ p \in Baselines /\ st.entries[p] = NoEntry
    /\ e \in Entries /\ e.sequence < st.next_sequence /\ place[e.sequence] = p

\* put keeps the store in sync and within its capacity.
LEMMA PutPlaced ==
    ASSUME NoEntry \notin Entries, Capacity \in Nat,
           NEW st, NEW place, NEW p, NEW e, CanPut(st, place, p, e), NEW put, put = Put(st, p, e),
           NEW from, from = [st.entries EXCEPT ![p] = e]
    PROVE  /\ Placed(put, place)
           /\ put.next_sequence = st.next_sequence
           /\ Cardinality(Live(put)) <= Capacity
           /\ LeftAs(from, put)
<1>0. /\ Placed(st, place) /\ Cardinality(Live(st)) <= Capacity /\ st.evicted = {}
      /\ p \in Baselines /\ st.entries[p] = NoEntry
      /\ e \in Entries /\ e.sequence < st.next_sequence /\ place[e.sequence] = p
  BY DEF CanPut
<1>1. PICK re : re = Relisted(st, [st.entries EXCEPT ![p] = e],
                              Without(st.order, st.entries[p]) \cup {<<e.sequence, p>>})
  OBVIOUS
<1>2. re = [entries |-> [st.entries EXCEPT ![p] = e], order |-> st.order \cup {<<e.sequence, p>>},
            next_sequence |-> st.next_sequence, evicted |-> {}]
  <2>1. Without(st.order, st.entries[p]) = st.order
    BY <1>0 DEF Without
  <2>2. IsStore(st)
    BY <1>0 DEF Placed
  <2>3. re = [entries |-> [st.entries EXCEPT ![p] = e],
              order |-> Without(st.order, st.entries[p]) \cup {<<e.sequence, p>>},
              next_sequence |-> st.next_sequence, evicted |-> st.evicted]
    BY Zenon, <1>0, <1>1, <2>2, RelistedIs
  <2>4. QED
    BY <1>0, <2>1, <2>3
<1>3. Live(re) = Live(st) \cup {p} /\ p \notin Live(st)
  BY <1>0, <1>2 DEF Live, Placed
<1>4. re.order = Listed(re)
  BY <1>0, <1>2, <1>3 DEF Placed, Listed, Live
<1>5. /\ IsFiniteSet(Live(re)) /\ Cardinality(Live(re)) = Cardinality(Live(st)) + 1
      /\ Cardinality(Live(st)) \in Nat
  BY <1>0, <1>3, FS_AddElement, FS_CardinalityType DEF Placed
<1>6. Placed(re, place)
  <2>1. IsStore(re) /\ re.entries \in [Baselines -> Entries \cup {NoEntry}] /\ re.next_sequence \in Nat
    BY <1>0, <1>2 DEF Placed, IsStore
  <2>2. \A q \in Live(re) : re.entries[q].sequence < re.next_sequence /\ place[re.entries[q].sequence] = q
    BY <1>0, <1>2, <1>3 DEF Placed, Live
  <2>3. QED
    BY <1>0, <1>4, <1>5, <2>1, <2>2 DEF Placed, IsStore
<1>7. Cardinality(re.order) = Cardinality(Live(re))
  BY <1>0, <1>6, OrderCounts
<1>9. put = IF Cardinality(re.order) > Capacity THEN EvictOldest(re) ELSE re
  BY <1>0, <1>1 DEF Put
<1>10. CASE Cardinality(re.order) > Capacity
  <2>1. re.order # {}
    BY Zenon, <1>0, <1>2
  <2>2. PICK ev : ev = EvictOldest(re)
    OBVIOUS
  <2>3. /\ Placed(ev, place)
        /\ ev.next_sequence = re.next_sequence
        /\ RowLeft(re.entries, ev)
        /\ Cardinality(Live(ev)) < Cardinality(Live(re))
    BY <1>0, <1>6, <2>1, <2>2, EvictOldestPlaced
  <2>4. put = ev /\ re.next_sequence = st.next_sequence /\ re.entries = [st.entries EXCEPT ![p] = e]
    BY <1>0, <1>2, <1>9, <1>10, <2>2
  <2>5. Cardinality(Live(ev)) \in Nat
    BY <1>0, <2>3, FS_CardinalityType DEF Placed
  <2>6. Cardinality(Live(put)) <= Capacity
    BY <1>0, <1>5, <2>3, <2>4, <2>5
  <2>7. QED
    BY <1>0, <2>3, <2>4, <2>6 DEF LeftAs
<1>11. CASE ~(Cardinality(re.order) > Capacity)
  <2>1. put = re
    BY <1>0, <1>9, <1>11
  <2>2. Cardinality(Live(put)) <= Capacity
    BY <1>0, <2>1, <1>5, <1>7, <1>11
  <2>3. put.next_sequence = st.next_sequence /\ put.evicted = {} /\ put.entries = [st.entries EXCEPT ![p] = e]
    BY <1>0, <1>2, <2>1
  <2>4. QED
    BY <1>0, <1>6, <2>1, <2>2, <2>3 DEF LeftAs
<1>12. QED
  BY <1>0, <1>10, <1>11

\* restore does, when what it puts back has a sequence of its place.
LEMMA RestorePlaced ==
    ASSUME NEW st, NEW place, Placed(st, place), NoEntry \notin Entries, Capacity \in Nat,
           Cardinality(Live(st)) <= Capacity, st.evicted = {},
           NEW i, i.at \in Baselines, i.previous \in Entries \cup {NoEntry},
           i.previous # NoEntry => /\ i.previous.sequence < st.next_sequence
                                   /\ place[i.previous.sequence] = i.at,
           NEW re, re = Restore(st, i)
    PROVE  /\ Placed(re, place)
           /\ re.next_sequence = st.next_sequence
           /\ Cardinality(Live(re)) <= Capacity
           /\ LeftAs(IF SequenceAt(st, i.at) = i.standing THEN [st.entries EXCEPT ![i.at] = i.previous]
                     ELSE st.entries, re)
<1>1. PICK tk : tk = Take(st, i.at)
  OBVIOUS
<1>2. /\ Placed(tk, place) /\ Live(tk) = Live(st) \ {i.at}
      /\ tk.next_sequence = st.next_sequence /\ tk.evicted = {}
      /\ tk.entries = [st.entries EXCEPT ![i.at] = NoEntry]
  BY <1>1, TakePlaced
<1>3. /\ Cardinality(Live(tk)) <= Cardinality(Live(st))
      /\ Cardinality(Live(tk)) \in Nat /\ Cardinality(Live(st)) \in Nat
  BY <1>2, FS_Subset, FS_CardinalityType DEF Placed
<1>4. Cardinality(Live(tk)) <= Capacity
  BY <1>3
<1>5. tk.entries[i.at] = NoEntry
  BY <1>2 DEF Placed
<1>6. CASE SequenceAt(st, i.at) # i.standing
  <2>1. re = st
    BY Zenon, <1>6 DEF Restore
  <2>2. QED
    BY Zenon, <1>6, <2>1 DEF LeftAs
<1>7. CASE SequenceAt(st, i.at) = i.standing /\ i.previous = NoEntry
  <2>1. re = tk
    BY Zenon, <1>1, <1>7 DEF Restore
  <2>2. QED
    BY Zenon, <1>2, <1>4, <1>7, <2>1 DEF LeftAs
<1>8. CASE SequenceAt(st, i.at) = i.standing /\ i.previous # NoEntry
  <2>1. PICK put : put = Put(tk, i.at, i.previous)
    OBVIOUS
  <2>0. PICK at, previous : at = i.at /\ previous = i.previous
    OBVIOUS
  <2>a. /\ previous \in Entries /\ previous.sequence < tk.next_sequence
        /\ place[previous.sequence] = at /\ at \in Baselines
    BY <1>2, <1>8, <2>0
  <2>b. Placed(tk, place) /\ tk.evicted = {} /\ tk.entries[at] = NoEntry /\ put = Put(tk, at, previous)
    BY <1>2, <1>5, <2>0, <2>1
  <2>c. CanPut(tk, place, at, previous)
    BY <1>4, <2>a, <2>b DEF CanPut
  <2>d. PICK from : from = [tk.entries EXCEPT ![at] = previous]
    BY Zenon
  <2>2. /\ Placed(put, place) /\ put.next_sequence = tk.next_sequence
        /\ Cardinality(Live(put)) <= Capacity /\ LeftAs(from, put)
    BY <2>b, <2>c, <2>d, PutPlaced
  <2>3. re = put
    BY <1>1, <1>8, <2>1 DEF Restore
  <2>4. from = [st.entries EXCEPT ![at] = previous]
    BY <1>2, <2>0, <2>d DEF Placed
  <2>5. QED
    BY Zenon, <1>2, <1>8, <2>0, <2>2, <2>3, <2>4
<1>9. QED
  BY Zenon, <1>6, <1>7, <1>8

\* The items of undo steps: what they put back has the sequence it always had.
Recorded(place, n) ==
    {i \in [at : Baselines, previous : Entries \cup {NoEntry}, standing : Nat \cup {NoSequence}] :
        i.previous # NoEntry => i.previous.sequence < n /\ place[i.previous.sequence] = i.at}

\* A replaced baseline is one item; an invalidation has one for each baseline it
\* found and left forgotten.
UndoSteps(place, n) ==
    {s \in [kind : {"set", "invalidate"}, items : SUBSET Recorded(place, n)] :
        /\ s.kind = "set" => \E i \in s.items : s.items = {i}
        /\ s.kind = "invalidate" => \A i \in s.items : i.previous # NoEntry /\ i.standing \in Nat}

\* Undoing an invalidation changes entries in place.
LEMMA RestoreAllPlaced ==
    ASSUME NEW st, NEW place, Placed(st, place), NoEntry \notin Entries,
           NEW items \in SUBSET Recorded(place, st.next_sequence),
           \A i \in items : i.previous # NoEntry /\ i.standing \in Nat,
           NEW re, re = RestoreAll(st, items)
    PROVE  Placed(re, place) /\ re.next_sequence = st.next_sequence /\ Live(re) = Live(st)
<1>1. PICK left : left = Standing(st, items)
  OBVIOUS
<1>2. PICK gone : gone = {i.at : i \in left}
  BY Zenon
<1>3. \A i \in left : i \in items /\ i.at \in Live(st) /\ i.standing = st.entries[i.at].sequence
  BY <1>1 DEF Standing, SequenceAt, Live, NoSequence, Recorded
<1>4. gone \in SUBSET Live(st) /\ {i.standing : i \in left} = {st.entries[p].sequence : p \in gone}
  BY <1>2, <1>3
<1>5. PICK previous : previous = [p \in gone |-> (CHOOSE i \in left : i.at = p).previous]
  BY Zenon
<1>6. \A p \in gone : /\ previous[p] \in Entries
                      /\ previous[p].sequence < st.next_sequence
                      /\ place[previous[p].sequence] = p
  <2>1. SUFFICES ASSUME NEW p \in gone
                 PROVE  /\ previous[p] \in Entries
                        /\ previous[p].sequence < st.next_sequence
                        /\ place[previous[p].sequence] = p
    OBVIOUS
  <2>2. PICK i : i = CHOOSE j \in left : j.at = p
    OBVIOUS
  <2>3. i \in left /\ i.at = p
    BY <1>2, <2>2
  <2>4. i \in Recorded(place, st.next_sequence) /\ i.previous # NoEntry
    BY <1>3, <2>3
  <2>5. previous[p] = i.previous
    BY <1>5, <2>2
  <2>6. QED
    BY <2>3, <2>4, <2>5 DEF Recorded
<1>7. PICK entries : entries = [p \in Baselines |-> IF p \in gone THEN previous[p] ELSE st.entries[p]]
  BY Zenon
<1>8. PICK order : order = {o \in st.order : o[1] \notin {i.standing : i \in left}} \cup
                           {<<previous[p].sequence, p>> : p \in gone}
  BY Zenon
<1>9. re = Relisted(st, entries, order)
  BY <1>1, <1>2, <1>5, <1>7, <1>8 DEF RestoreAll
<1>10. re = [entries |-> entries, order |-> order, next_sequence |-> st.next_sequence,
             evicted |-> st.evicted]
  <2>1. IsStore(st)
    BY DEF Placed
  <2>2. QED
    BY <1>9, <2>1, RelistedIs
<1>11. entries \in [Baselines -> Entries \cup {NoEntry}]
  BY <1>6, <1>7 DEF Placed
<1>12. Live(re) = Live(st)
  BY <1>4, <1>6, <1>7, <1>10 DEF Live
<1>13. order = {<<st.entries[p].sequence, p>> : p \in Live(st) \ gone} \cup
               {<<previous[p].sequence, p>> : p \in gone}
  <2>1. {o \in st.order : o[1] \notin {st.entries[p].sequence : p \in gone}} =
          {<<st.entries[p].sequence, p>> : p \in Live(st) \ gone}
    BY Zenon, <1>4, RemovedFromOrder
  <2>2. QED
    BY Zenon, <1>4, <1>8, <2>1
<1>14. re.order = Listed(re)
  <2>1. Listed(re) = {<<entries[p].sequence, p>> : p \in Live(st)}
    BY <1>10, <1>12 DEF Listed
  <2>2. \A p \in Live(st) : p \in Baselines
    BY DEF Live
  <2>3. re.order = order
    BY <1>10
  <2>4. QED
    BY <1>4, <1>7, <1>13, <2>1, <2>2, <2>3
<1>15. \A p \in Live(re) : re.entries[p].sequence < re.next_sequence /\ place[re.entries[p].sequence] = p
  BY <1>6, <1>7, <1>10, <1>12 DEF Placed, Live
<1>16. IsStore(re) /\ re.entries \in [Baselines -> Entries \cup {NoEntry}] /\ re.next_sequence = st.next_sequence
  BY <1>10, <1>11 DEF IsStore
<1>17. QED
  BY <1>12, <1>14, <1>15, <1>16 DEF Placed

\* Dropping one removes entries.
LEMMA TakeAllPlaced ==
    ASSUME NEW st, NEW place, Placed(st, place), NoEntry \notin Entries,
           NEW items, \A i \in items : i.at \in Baselines,
           NEW re, re = TakeAll(st, items)
    PROVE  Placed(re, place) /\ re.next_sequence = st.next_sequence /\ Live(re) \subseteq Live(st)
<1>1. PICK left : left = Standing(st, items)
  OBVIOUS
<1>2. PICK gone : gone = {i.at : i \in left} \cap Live(st)
  BY Zenon
<1>3. PICK entries : entries = [p \in Baselines |-> IF p \in {i.at : i \in left} THEN NoEntry ELSE st.entries[p]]
  BY Zenon
<1>4. PICK order : order = {o \in st.order : o[1] \notin {i.standing : i \in left}}
  BY Zenon
<1>5. re = Relisted(st, entries, order)
  BY <1>1, <1>3, <1>4 DEF TakeAll
<1>6. re = [entries |-> entries, order |-> order, next_sequence |-> st.next_sequence,
             evicted |-> st.evicted]
  <2>1. IsStore(st)
    BY DEF Placed
  <2>2. QED
    BY <1>5, <2>1, RelistedIs
<1>7. entries \in [Baselines -> Entries \cup {NoEntry}]
  BY <1>3 DEF Placed
<1>8. Live(re) = Live(st) \ gone
  BY <1>2, <1>3, <1>6 DEF Live
<1>9. order = {o \in st.order : o[1] \notin {st.entries[p].sequence : p \in gone}}
  <2>1. \A i \in left : i.at \in Baselines /\ SequenceAt(st, i.at) = i.standing
    BY <1>1 DEF Standing
  <2>2. \A i \in left : i.at \in gone => i.standing = st.entries[i.at].sequence
    BY <1>2, <2>1 DEF SequenceAt, Live
  <2>3. \A i \in left : i.at \notin gone => i.standing = NoSequence
    BY <1>2, <2>1 DEF SequenceAt, Live
  <2>4. \A o \in st.order : o[1] \in Nat /\ o[1] # NoSequence
    BY DEF Placed, Listed, Live, Entries, NoSequence
  <2>5. QED
    BY <1>2, <1>4, <2>2, <2>3, <2>4
<1>10. gone \in SUBSET Live(st)
  BY <1>2
<1>11. order = {<<st.entries[p].sequence, p>> : p \in Live(st) \ gone}
  BY <1>9, <1>10, RemovedFromOrder
<1>12. re.order = Listed(re)
  <2>1. Listed(re) = {<<entries[p].sequence, p>> : p \in Live(st) \ gone}
    BY <1>6, <1>8 DEF Listed
  <2>2. \A p \in Live(st) \ gone : entries[p] = st.entries[p]
    BY <1>2, <1>3 DEF Live
  <2>3. re.order = order
    BY <1>6
  <2>4. QED
    BY <1>11, <2>1, <2>2, <2>3
<1>13. \A p \in Live(re) : re.entries[p].sequence < re.next_sequence /\ place[re.entries[p].sequence] = p
  BY <1>3, <1>6, <1>8 DEF Placed, Live
<1>14. IsFiniteSet(Live(re))
  BY <1>8, FS_Subset DEF Placed
<1>15. IsStore(re) /\ re.entries \in [Baselines -> Entries \cup {NoEntry}] /\ re.next_sequence = st.next_sequence
  BY <1>6, <1>7 DEF IsStore
<1>16. QED
  BY <1>8, <1>12, <1>13, <1>14, <1>15 DEF Placed

-------------------------------------------------------------------------------
(* The tasks                                                               *)

\* Steps stay good as sequences are handed out.
LEMMA StepsGrow ==
    ASSUME NEW n \in Nat, NEW m \in Nat, n <= m, NEW place, NEW later,
           \A k \in Nat : k < n => later[k] = place[k]
    PROVE  UndoSteps(place, n) \subseteq UndoSteps(later, m)
<1>1. Recorded(place, n) \subseteq Recorded(later, m)
  BY DEF Recorded, Entries
<1>2. QED
  BY <1>1 DEF UndoSteps

\* A call leaves the store it computed.
LEMMA ChangePlaced ==
    ASSUME NEW st, NEW place, NEW t \in Tasks, Placed(st, place), Change(t, st)
    PROVE  /\ Placed(store, place)' /\ store'.evicted = {}
           /\ store'.entries = st.entries /\ store'.next_sequence = st.next_sequence
           /\ Live(store)' = Live(st)
<1>1. PICK s : s = store'
  OBVIOUS
<1>2. s = [entries |-> st.entries, order |-> st.order, next_sequence |-> st.next_sequence,
           evicted |-> {}]
  BY Zenon, <1>1 DEF Change, Placed, IsStore
<1>3. Live(s) = Live(st)
  BY <1>2 DEF Live
<1>4. Listed(s) = Listed(st)
  BY <1>2, <1>3 DEF Listed
<1>5. Placed(s, place)
  BY <1>2, <1>3, <1>4 DEF Placed, IsStore
<1>6. Live(store)' = Live(s)
  BY <1>1 DEF Live
<1>7. Placed(store, place)'
  BY <1>1, <1>5 DEF Placed, Listed, Live, IsStore
<1>8. QED
  BY <1>1, <1>2, <1>3, <1>6, <1>7

\* The records hold steps of S.
Hold(S) == levels \in [Tasks -> Seq(Seq(S))] /\ dropping \in [Tasks -> Seq(S)]

\* Steps of a set are steps of a larger one.
LEMMA HoldGrows ==
    ASSUME NEW S, NEW T, S \subseteq T, Hold(S)
    PROVE  Hold(T)
<1>1. Seq(S) \subseteq Seq(T) /\ Seq(Seq(S)) \subseteq Seq(Seq(T))
  <2>1. Seq(S) \subseteq Seq(T)
    BY SeqGrows
  <2>2. QED
    BY <2>1, SeqGrows
<1>2. QED
  BY <1>1 DEF Hold

\* A task that rolls back has a level to roll back.
RollingBack == \A t \in Tasks : mode[t] = "undo" => levels[t] # <<>>

\* undo_on_rollback records the step, or drops it.
LEMMA UndoOnRollbackHolds ==
    ASSUME NEW S, Hold(S), NEW t \in Tasks, NEW step \in S, UndoOnRollback(t, step),
           RollingBack, mode' = mode
    PROVE  Hold(S)' /\ RollingBack'
<1>1. CASE levels[t] = <<>>
  <2>1. PICK left : left = IF step.kind = "set" THEN <<>> ELSE <<step>>
    BY Zenon
  <2>2. left \in Seq(S)
    BY <2>1
  <2>3. dropping' = [dropping EXCEPT ![t] = left] /\ levels' = levels
    BY <1>1, <2>1 DEF UndoOnRollback
  <2>4. QED
    BY <2>2, <2>3 DEF Hold, RollingBack
<1>2. CASE levels[t] # <<>>
  <2>1. levels[t] \in Seq(Seq(S)) /\ Len(levels[t]) \in 1..Len(levels[t])
    BY <1>2 DEF Hold
  <2>2. PICK own : own = [levels[t] EXCEPT ![Len(levels[t])] = Append(levels[t][Len(levels[t])], step)]
    BY Zenon
  <2>3. own \in Seq(Seq(S)) /\ Len(own) = Len(levels[t])
    BY <2>1, <2>2
  <2>4. levels' = [levels EXCEPT ![t] = own] /\ dropping' = dropping
    BY <1>2, <2>2 DEF UndoOnRollback
  <2>5. QED
    BY <1>2, <2>3, <2>4 DEF Hold, RollingBack
<1>3. QED
  BY <1>1, <1>2

\* Entries and undo steps agree on where sequences were handed out.
Tracked(place) ==
    /\ Placed(store, place)
    /\ Hold(UndoSteps(place, store.next_sequence))

\* The inductive invariant.
IndInv ==
    /\ \E place \in [Nat -> Baselines \cup {NoEntry}] : Tracked(place)
    /\ Cardinality(Live(store)) <= Capacity
    /\ store.evicted = {}
    /\ mode \in [Tasks -> {"run", "undo", "committed", "undone"}]
    /\ RollingBack

\* What replace does to the entries before it makes room
Inserts(p, values) == values # Forgotten \/ OthersDiffer(store, p)
Replaced(p, values) ==
    [store.entries EXCEPT ![p] =
        IF Inserts(p, values) THEN [sequence |-> store.next_sequence, values |-> values] ELSE NoEntry]

\* Where each sequence was handed out, with the next one going to p
IsPlace(place) == place \in [Nat -> Baselines \cup {NoEntry}]
Handed(place, p) == [place EXCEPT ![store.next_sequence] = p]

\* Replacing a baseline hands out the next sequence to its place.
LEMMA ReplacePlaced ==
    ASSUME NoEntry \notin Entries, Capacity \in Nat,
           NEW place, IsPlace(place), Placed(store, place),
           Cardinality(Live(store)) <= Capacity, store.evicted = {},
           NEW p \in Baselines, NEW values \in Values \cup {Forgotten},
           NEW st, st = Replace(store, p, values).store,
           NEW step, step = Replace(store, p, values).step,
           NEW later, later = Handed(place, p)
    PROVE  /\ Placed(st, later)
           /\ Cardinality(Live(st)) <= Capacity
           /\ step \in UndoSteps(later, st.next_sequence)
           /\ st.next_sequence \in {store.next_sequence, store.next_sequence + 1}
           /\ LeftAs(Replaced(p, values), st)
<1> DEFINE n == store.next_sequence
<1>a. PICK from : from = Replaced(p, values)
  OBVIOUS
<1>1. PICK tk : tk = Take(store, p)
  OBVIOUS
<1>2. /\ Placed(tk, place) /\ Live(tk) = Live(store) \ {p}
      /\ tk.next_sequence = n /\ tk.evicted = {}
      /\ tk.entries = [store.entries EXCEPT ![p] = NoEntry]
  BY <1>1, TakePlaced
<1>3. /\ Cardinality(Live(tk)) <= Cardinality(Live(store))
      /\ Cardinality(Live(tk)) \in Nat /\ Cardinality(Live(store)) \in Nat
  BY <1>2, FS_Subset, FS_CardinalityType DEF Placed
<1>4. Cardinality(Live(tk)) <= Capacity
  BY <1>3
<1>5. n \in Nat /\ (\A k \in Nat : k < n => later[k] = place[k]) /\ later[n] = p
  BY DEF Placed, IsPlace, Handed
<1>6. Placed(tk, later)
  <2>1. ASSUME NEW q \in Live(tk) PROVE later[tk.entries[q].sequence] = q
    <3>1. tk.entries[q] \in Entries
      BY <1>2 DEF Placed, Live
    <3>2. tk.entries[q].sequence \in Nat
      BY <3>1 DEF Entries
    <3>3. tk.entries[q].sequence < n /\ place[tk.entries[q].sequence] = q
      BY <1>2 DEF Placed
    <3>4. QED
      BY <1>5, <3>2, <3>3
  <2>2. QED
    BY <1>2, <2>1 DEF Placed
<1>7. step \in UndoSteps(later, n)
  <2>1. PICK i : i = [at |-> p, previous |-> store.entries[p], standing |-> IF Inserts(p, values) THEN n ELSE NoSequence]
    BY Zenon
  <2>2. i \in Recorded(later, n)
    BY <1>5, <2>1 DEF Recorded, Placed, Live, Entries
  <2>3. step = [kind |-> "set", items |-> {i}]
    BY <2>1 DEF Replace, Inserts
  <2>4. QED
    BY <2>2, <2>3 DEF UndoSteps
<1>8. CASE ~Inserts(p, values)
  <2>1. st = tk
    BY Zenon, <1>1, <1>8 DEF Replace, Inserts
  <2>2. LeftAs(Replaced(p, values), st)
    BY <1>2, <1>8, <2>1 DEF LeftAs, Replaced
  <2>3. QED
    BY <1>2, <1>4, <1>6, <1>7, <2>1, <2>2
<1>9. CASE Inserts(p, values)
  <2>1. PICK nx : nx = [tk EXCEPT !.next_sequence = tk.next_sequence + 1]
    BY Zenon
  <2>2. nx = [entries |-> tk.entries, order |-> tk.order, next_sequence |-> n + 1, evicted |-> {}]
    BY Zenon, <1>2, <2>1 DEF Placed, IsStore
  <2>3. Live(nx) = Live(tk) /\ Listed(nx) = Listed(tk)
    BY Zenon, <2>2 DEF Live, Listed
  <2>4. Placed(nx, later)
    <3>1. IsStore(nx) /\ nx.entries \in [Baselines -> Entries \cup {NoEntry}] /\ nx.next_sequence \in Nat
      BY <1>5, <1>6, <2>2 DEF Placed, IsStore
    <3>2. \A q \in Live(nx) : nx.entries[q].sequence < nx.next_sequence /\ later[nx.entries[q].sequence] = q
      BY <1>2, <1>5, <1>6, <2>2, <2>3 DEF Placed, Live, Entries
    <3>3. QED
      BY Zenon, <1>6, <2>2, <2>3, <3>1, <3>2 DEF Placed
  <2>5. PICK e : e = [sequence |-> n, values |-> values]
    BY Zenon
  <2>6. CanPut(nx, later, p, e)
    <3>1. nx.entries[p] = NoEntry /\ nx.evicted = {} /\ nx.next_sequence = n + 1
      BY Zenon, <1>2, <2>2 DEF Placed
    <3>2. e \in Entries /\ e.sequence = n
      BY Zenon, <1>5, <2>5 DEF Entries
    <3>3. e.sequence < nx.next_sequence /\ later[e.sequence] = p
      BY <1>5, <3>1, <3>2
    <3>4. QED
      BY <1>4, <2>3, <2>4, <3>1, <3>2, <3>3 DEF CanPut
  <2>7. st = Put(nx, p, e)
    BY <1>1, <1>2, <1>9, <2>1, <2>5 DEF Replace, Insert, Inserts
  <2>8. from = [nx.entries EXCEPT ![p] = e]
    BY Zenon, <1>2, <1>9, <1>a, <2>2, <2>5 DEF Placed, Replaced
  <2>9. /\ Placed(st, later) /\ st.next_sequence = nx.next_sequence
        /\ Cardinality(Live(st)) <= Capacity /\ LeftAs(from, st)
    <3> HIDE DEF n
    <3>1. QED
      BY SMTT(60), <2>6, <2>7, <2>8, PutPlaced
  <2>10. UndoSteps(later, n) \subseteq UndoSteps(later, n + 1)
    <3>0. n \in Nat
      BY <1>5
    <3>1. n \in Nat /\ n + 1 \in Nat /\ n <= n + 1
      BY <3>0
    <3> HIDE DEF n
    <3>2. QED
      BY Zenon, <3>1, StepsGrow
  <2>11. QED
    BY Zenon, <1>7, <1>a, <2>2, <2>9, <2>10
<1>10. QED
  BY Zenon, <1>8, <1>9

\* The empty store is tracked.
LEMMA InitInv ==
    ASSUME Capacity \in Nat, NoEntry \notin Entries, Init
    PROVE  IndInv
<1>1. Live(store) = {} /\ Listed(store) = {} /\ store.order = {}
  BY DEF Init, Live, Listed
<1>2. PICK place : place = [n \in Nat |-> NoEntry]
  BY Zenon
<1>3. Placed(store, place)
  BY Zenon, <1>1, FS_EmptySet DEF Init, Placed, IsStore
<1>4. Hold(UndoSteps(place, store.next_sequence))
  BY DEF Init, Hold
<1>5. Cardinality(Live(store)) <= Capacity /\ store.evicted = {}
  <2>1. Cardinality({}) = 0
    BY FS_EmptySet
  <2>2. Cardinality(Live(store)) <= Capacity
    BY <1>1, <2>1
  <2>3. store.evicted = {}
    BY DEF Init
  <2>4. QED
    BY <2>2, <2>3
<1>6. place \in [Nat -> Baselines \cup {NoEntry}] /\ Tracked(place)
  BY <1>2, <1>3, <1>4 DEF Tracked
<1>7. mode \in [Tasks -> {"run", "undo", "committed", "undone"}] /\ RollingBack
  BY DEF Init, RollingBack
<1>8. QED
  BY <1>5, <1>6, <1>7 DEF IndInv

\* set_baseline keeps the invariant.
LEMMA SetBaselineKeeps ==
    ASSUME Capacity \in Nat, NoEntry \notin Entries, IndInv,
           NEW t \in Tasks, NEW p \in Baselines, NEW values \in Values \cup {Forgotten},
           SetBaseline(t, p, values)
    PROVE  IndInv'
<1>1. PICK place \in [Nat -> Baselines \cup {NoEntry}] : Tracked(place)
  BY DEF IndInv
<1>2. PICK st : st = Replace(store, p, values).store
  OBVIOUS
<1>3. PICK step : step = Replace(store, p, values).step
  OBVIOUS
<1>4. PICK later : later = Handed(place, p)
  OBVIOUS
<1>7. /\ Placed(st, later) /\ Cardinality(Live(st)) <= Capacity
      /\ step \in UndoSteps(later, st.next_sequence)
      /\ st.next_sequence \in {store.next_sequence, store.next_sequence + 1}
  <2>1. Placed(store, place) /\ Cardinality(Live(store)) <= Capacity /\ store.evicted = {}
    BY Zenon, <1>1 DEF IndInv, Tracked
  <2>2. IsPlace(place)
    BY DEF IsPlace
  <2>3. QED
    BY Zenon, <1>2, <1>3, <1>4, <2>1, <2>2, ReplacePlaced
<1>8. Change(t, st) /\ UndoOnRollback(t, step) /\ mode' = mode
  BY <1>2, <1>3 DEF SetBaseline
<1>9. store.next_sequence \in Nat /\ later \in [Nat -> Baselines \cup {NoEntry}]
  BY <1>1, <1>4 DEF Tracked, Placed, Handed
<1>10. UndoSteps(place, store.next_sequence) \subseteq UndoSteps(later, st.next_sequence)
  <2>1. \A k \in Nat : k < store.next_sequence => later[k] = place[k]
    BY <1>1, <1>4, <1>9 DEF Handed
  <2>2. st.next_sequence \in Nat /\ store.next_sequence <= st.next_sequence
    BY <1>7, <1>9
  <2>3. QED
    BY <1>9, <2>1, <2>2, StepsGrow
<1>11. PICK S : S = UndoSteps(later, st.next_sequence)
  OBVIOUS
<1>12. Hold(S)
  BY <1>1, <1>10, <1>11, HoldGrows DEF Tracked
<1>13. Hold(S)' /\ RollingBack'
  BY Zenon, <1>7, <1>8, <1>11, <1>12, UndoOnRollbackHolds DEF IndInv
<1>14. /\ Placed(store, later)' /\ store'.evicted = {} /\ store'.next_sequence = st.next_sequence
       /\ Live(store)' = Live(st)
  BY <1>7, <1>8, ChangePlaced
<1>15. Tracked(later)'
  <2>1. Hold(UndoSteps(later, store.next_sequence))'
    BY <1>11, <1>13, <1>14 DEF Hold
  <2>2. QED
    BY <1>14, <2>1 DEF Tracked
<1>16. QED
  BY Zenon, <1>7, <1>8, <1>9, <1>13, <1>14, <1>15 DEF IndInv

\* What calls leave of the records when they hand out no sequence
LEMMA StoreChanges ==
    ASSUME IndInv, NEW t \in Tasks, NEW place, IsPlace(place), Tracked(place),
           NEW st, Placed(st, place), st.next_sequence = store.next_sequence,
           Cardinality(Live(st)) <= Capacity, Change(t, st),
           NEW S, S = UndoSteps(place, store.next_sequence), Hold(S)',
           mode' = mode, RollingBack'
    PROVE  IndInv'
<1>1. /\ Placed(store, place)' /\ store'.evicted = {} /\ store'.next_sequence = st.next_sequence
      /\ Live(store)' = Live(st)
  BY ChangePlaced
<1>2. Hold(UndoSteps(place, store.next_sequence))'
  BY <1>1 DEF Hold
<1>3. Tracked(place)'
  BY <1>1, <1>2 DEF Tracked
<1>4. QED
  BY Zenon, <1>1, <1>3 DEF IndInv, IsPlace

\* clear_all forgets the entries, while the undo steps remember their sequences.
LEMMA ClearAllKeeps ==
    ASSUME Capacity \in Nat, IndInv, NEW t \in Tasks, ClearAll(t)
    PROVE  IndInv'
<1>1. PICK place \in [Nat -> Baselines \cup {NoEntry}] : Tracked(place)
  BY DEF IndInv
<1>2. PICK re : re = Relisted(store, [p \in Baselines |-> NoEntry], {})
  OBVIOUS
<1>3. re = [entries |-> [p \in Baselines |-> NoEntry], order |-> {},
            next_sequence |-> store.next_sequence, evicted |-> store.evicted]
  <2>1. IsStore(store)
    BY <1>1 DEF Tracked, Placed
  <2>2. QED
    BY Zenon, <1>2, <2>1, RelistedIs
<1>4. PICK st : st = [re EXCEPT !.evicted = Rows]
  BY Zenon
<1>5. st = [entries |-> [p \in Baselines |-> NoEntry], order |-> {},
            next_sequence |-> store.next_sequence, evicted |-> Rows]
  BY <1>3, <1>4
<1>6. Live(st) = {} /\ Listed(st) = {}
  BY <1>5 DEF Live, Listed
<1>7. IsFiniteSet(Live(st)) /\ Cardinality(Live(st)) = 0
  BY <1>6, FS_EmptySet
<1>8. Placed(st, place)
  BY Zenon, <1>1, <1>5, <1>6, <1>7 DEF Placed, IsStore, Tracked
<1>9. Change(t, st) /\ levels' = levels /\ dropping' = dropping /\ mode' = mode
  BY <1>2, <1>4 DEF ClearAll
<1>10. PICK S : S = UndoSteps(place, store.next_sequence)
  OBVIOUS
<1>11. Hold(S)' /\ RollingBack'
  BY Zenon, <1>1, <1>9, <1>10 DEF Hold, Tracked, RollingBack, IndInv
<1>12. IsPlace(place) /\ st.next_sequence = store.next_sequence /\ Cardinality(Live(st)) <= Capacity
  BY <1>5, <1>7 DEF IsPlace
<1>13. QED
  BY <1>1, <1>8, <1>9, <1>10, <1>11, <1>12, StoreChanges

\* What is left of a record that lost its last or first step
LEMMA FrontInSeq ==
    ASSUME NEW S, NEW s \in Seq(S), s # <<>>
    PROVE  /\ Front(s) \in Seq(S) /\ Last(s) \in S /\ Front(s) # s
           /\ Tail(s) \in Seq(S) /\ Head(s) \in S /\ Tail(s) # s
<1>1. Len(s) \in Nat \ {0} /\ s[Len(s)] \in S
  BY NonEmptySeq
<1>2. Front(s) \in Seq(S) /\ Len(Front(s)) = Len(s) - 1
  <2>1. PICK n : n = Len(s) - 1
    OBVIOUS
  <2>2. Front(s) = SubSeq(s, 1, n) /\ n \in 0..Len(s) /\ n + 1 = Len(s)
    BY <1>1, <2>1 DEF Front
  <2>3. SubSeq(s, 1, n) \in Seq(S) /\ Len(SubSeq(s, 1, n)) = n
    BY <1>1, <2>2
  <2>4. QED
    BY <2>1, <2>2, <2>3
<1>3. Tail(s) \in Seq(S) /\ Len(Tail(s)) = Len(s) - 1 /\ Head(s) \in S
  BY FirstAndRest
<1>4. QED
  BY <1>1, <1>2, <1>3 DEF Last

\* An undo step keeps the invariant and leaves the record.
LEMMA UndoKeeps ==
    ASSUME Capacity \in Nat, NoEntry \notin Entries, IndInv, NEW t \in Tasks, Undo(t)
    PROVE  IndInv' /\ levels'[t] # levels[t]
<1>1. PICK place \in [Nat -> Baselines \cup {NoEntry}] : Tracked(place)
  BY DEF IndInv
<1>2. PICK S : S = UndoSteps(place, store.next_sequence)
  OBVIOUS
<1>3. PICK n : n = Len(levels[t])
  BY Zenon
<1>4. /\ levels \in [Tasks -> Seq(Seq(S))] /\ dropping \in [Tasks -> Seq(S)] /\ Hold(S)
      /\ mode[t] = "undo" /\ levels[t] # <<>>
  BY <1>1, <1>2 DEF Tracked, Hold, IndInv, RollingBack, Undo
<1>5. levels[t] \in Seq(Seq(S)) /\ n \in 1..Len(levels[t]) /\ levels[t][n] \in Seq(S)
  BY <1>3, <1>4
<1>6. levels[t][n] # <<>>
  BY <1>3 DEF Undo
<1>7. PICK step : step = Last(levels[t][n])
  OBVIOUS
<1>8. PICK front : front = Front(levels[t][n])
  OBVIOUS
<1>9. step \in S /\ front \in Seq(S) /\ front # levels[t][n]
  BY <1>5, <1>6, <1>7, <1>8, FrontInSeq
<1>10. PICK own : own = [levels[t] EXCEPT ![n] = front]
  BY Zenon
<1>11. own \in Seq(Seq(S)) /\ Len(own) = Len(levels[t]) /\ own # levels[t] /\ own # <<>>
  BY <1>4, <1>5, <1>9, <1>10
<1>12. levels' = [levels EXCEPT ![t] = own] /\ dropping' = dropping /\ mode' = mode
  BY <1>3, <1>8, <1>10 DEF Undo
<1>13. Hold(S)' /\ RollingBack' /\ levels'[t] # levels[t]
  BY <1>4, <1>11, <1>12 DEF Hold, RollingBack, IndInv
<1>14. PICK st : st = Undone(store, step)
  OBVIOUS
<1>15. Change(t, st)
  BY <1>3, <1>7, <1>14 DEF Undo
<1>16. Placed(st, place) /\ st.next_sequence = store.next_sequence /\ Cardinality(Live(st)) <= Capacity
  <2>1. Placed(store, place) /\ Cardinality(Live(store)) <= Capacity /\ store.evicted = {}
    BY <1>1 DEF Tracked, IndInv
  <2>2. CASE step.kind = "set"
    <3>1. PICK i : i \in step.items /\ step.items = {i} /\ i \in Recorded(place, store.next_sequence)
      BY <1>2, <1>9, <2>2 DEF UndoSteps
    <3>2. (CHOOSE j \in step.items : TRUE) = i
      BY <3>1
    <3>3. st = Restore(store, i)
      BY Zenon, <1>14, <2>2, <3>2 DEF Undone
    <3>4. /\ i.at \in Baselines /\ i.previous \in Entries \cup {NoEntry}
          /\ i.previous # NoEntry => /\ i.previous.sequence < store.next_sequence
                                     /\ place[i.previous.sequence] = i.at
      BY <3>1 DEF Recorded
    <3>5. QED
      BY <2>1, <3>3, <3>4, RestorePlaced
  <2>3. CASE step.kind # "set"
    <3>1. /\ step.items \in SUBSET Recorded(place, store.next_sequence)
          /\ \A i \in step.items : i.previous # NoEntry /\ i.standing \in Nat
      BY <1>2, <1>9, <2>3 DEF UndoSteps
    <3>2. st = RestoreAll(store, step.items)
      BY <1>14, <2>3 DEF Undone
    <3>3. Placed(st, place) /\ st.next_sequence = store.next_sequence /\ Live(st) = Live(store)
      BY <2>1, <3>1, <3>2, RestoreAllPlaced
    <3>4. QED
      BY <2>1, <3>3
  <2>4. QED
    BY <2>2, <2>3
<1>17. IsPlace(place) /\ mode' = mode
  BY <1>12 DEF IsPlace
<1>18. IndInv'
  BY Zenon, <1>1, <1>2, <1>13, <1>15, <1>16, <1>17, StoreChanges
<1>19. QED
  BY <1>13, <1>18

\* So does a dropped one.
LEMMA DropStepKeeps ==
    ASSUME Capacity \in Nat, NoEntry \notin Entries, IndInv, NEW t \in Tasks, DropStep(t)
    PROVE  IndInv' /\ dropping'[t] # dropping[t]
<1>1. PICK place \in [Nat -> Baselines \cup {NoEntry}] : Tracked(place)
  BY DEF IndInv
<1>2. PICK S : S = UndoSteps(place, store.next_sequence)
  OBVIOUS
<1>3. /\ levels \in [Tasks -> Seq(Seq(S))] /\ dropping \in [Tasks -> Seq(S)]
      /\ dropping[t] # <<>> /\ dropping[t] \in Seq(S)
  BY <1>1, <1>2 DEF Tracked, Hold, DropStep
<1>4. PICK step : step = Head(dropping[t])
  OBVIOUS
<1>5. PICK tail : tail = Tail(dropping[t])
  BY Zenon
<1>6. step \in S /\ tail \in Seq(S) /\ tail # dropping[t]
  BY <1>3, <1>4, <1>5, FrontInSeq
<1>7. PICK st : st = Spared(store, step)
  OBVIOUS
<1>8. /\ Change(t, st) /\ dropping' = [dropping EXCEPT ![t] = tail] /\ levels' = levels
      /\ mode' = mode
  BY <1>4, <1>5, <1>7 DEF DropStep
<1>9. Hold(S)' /\ RollingBack' /\ dropping'[t] # dropping[t]
  BY <1>3, <1>6, <1>8 DEF Hold, RollingBack, IndInv
<1>10. Placed(st, place) /\ st.next_sequence = store.next_sequence /\ Cardinality(Live(st)) <= Capacity
  <2>1. Placed(store, place) /\ Cardinality(Live(store)) <= Capacity
    BY <1>1 DEF Tracked, IndInv
  <2>2. CASE step.kind = "set"
    BY <1>7, <2>1, <2>2 DEF Spared
  <2>3. CASE step.kind # "set"
    <3>1. \A i \in step.items : i.at \in Baselines
      BY <1>2, <1>6 DEF UndoSteps, Recorded
    <3>2. st = TakeAll(store, step.items)
      BY <1>7, <2>3 DEF Spared
    <3>3. PICK items : items = step.items
      OBVIOUS
    <3>4. Placed(st, place) /\ st.next_sequence = store.next_sequence /\ Live(st) \subseteq Live(store)
      BY <2>1, <3>1, <3>2, <3>3, TakeAllPlaced
    <3>5. /\ Cardinality(Live(st)) <= Cardinality(Live(store))
          /\ Cardinality(Live(st)) \in Nat /\ Cardinality(Live(store)) \in Nat
      BY Zenon, <2>1, <3>4, FS_Subset, FS_CardinalityType DEF Placed
    <3>6. QED
      BY <2>1, <3>4, <3>5
  <2>4. QED
    BY <2>2, <2>3
<1>11. IsPlace(place)
  BY DEF IsPlace
<1>12. IndInv'
  BY Zenon, <1>1, <1>2, <1>8, <1>9, <1>10, <1>11, StoreChanges
<1>13. QED
  BY <1>9, <1>12

\* What begins and ends transactions leaves the store alone.
LEMMA StoreStays ==
    ASSUME IndInv, store' = store, mode' \in [Tasks -> {"run", "undo", "committed", "undone"}],
           RollingBack',
           NEW place, IsPlace(place), Tracked(place),
           NEW S, S = UndoSteps(place, store.next_sequence), Hold(S)'
    PROVE  IndInv'
<1>1. Live(store)' = Live(store)
  BY DEF Live
<1>2. Placed(store, place)'
  BY DEF Tracked, Placed, Live, Listed, IsStore
<1>3. Tracked(place)'
  BY <1>2 DEF Tracked, Hold
<1>4. QED
  BY <1>1, <1>3 DEF IndInv, IsPlace

\* Begin, commit and rollback only move undo steps between records.
LEMMA BoundariesKeep ==
    ASSUME IndInv, NEW t \in Tasks, Begin(t) \/ Commit(t) \/ Rollback(t) \/ EndUndo(t)
    PROVE  IndInv'
<1>1. PICK place \in [Nat -> Baselines \cup {NoEntry}] : Tracked(place)
  BY DEF IndInv
<1>2. PICK S : S = UndoSteps(place, store.next_sequence)
  OBVIOUS
<1>3. /\ levels \in [Tasks -> Seq(Seq(S))] /\ dropping \in [Tasks -> Seq(S)]
      /\ mode \in [Tasks -> {"run", "undo", "committed", "undone"}] /\ RollingBack
      /\ levels[t] \in Seq(Seq(S))
  BY <1>1, <1>2 DEF Tracked, Hold, IndInv
<1>4. IsPlace(place)
  BY DEF IsPlace
<1>5. ASSUME Begin(t) PROVE IndInv'
  <2>0. PICK own, new : own = Append(levels[t], new) /\ new = <<>>
    BY Zenon
  <2>1. own \in Seq(Seq(S)) /\ own # <<>>
    <3>1. new \in Seq(S)
      BY <2>0
    <3>2. QED
      BY Zenon, <1>3, <2>0, <3>1, AppendInSeq
  <2>2. store' = store /\ Hold(S)' /\ mode' = mode /\ RollingBack'
    BY <1>3, <1>5, <2>0, <2>1 DEF Begin, Hold, RollingBack
  <2>3. QED
    BY <1>1, <1>2, <1>3, <1>4, <2>2, StoreStays
<1>6. ASSUME Rollback(t) PROVE IndInv'
  <2>1. store' = store /\ Hold(S)' /\ mode' \in [Tasks -> {"run", "undo", "committed", "undone"}]
    BY <1>3, <1>6 DEF Rollback, Hold
  <2>2. RollingBack'
    BY <1>3, <1>6 DEF Rollback, RollingBack
  <2>3. QED
    BY <1>1, <1>2, <1>3, <1>4, <2>1, <2>2, StoreStays
<1>7. ASSUME Commit(t) PROVE IndInv'
  <2>1. PICK n : n = Len(levels[t])
    BY Zenon
  <2>2. levels[t] # <<>> /\ n \in Nat \ {0} /\ mode[t] = "run" /\ store' = store
    BY Zenon, <1>3, <1>7, <2>1, NonEmptySeq DEF Commit, Running
  <2>3. CASE n > 1
    <3>1. levels[t][n - 1] \in Seq(S) /\ levels[t][n] \in Seq(S)
      BY <1>3, <2>1, <2>2, <2>3
    <3>2. PICK own : own = Append(SubSeq(levels[t], 1, n - 2), levels[t][n - 1] \o levels[t][n])
      BY Zenon
    <3>3. levels[t][n - 1] \o levels[t][n] \in Seq(S)
      BY Zenon, <3>1, JoinedInSeq
    <3>4. SubSeq(levels[t], 1, n - 2) \in Seq(Seq(S))
      BY <1>3, <2>1, <2>2, <2>3
    <3>5. own \in Seq(Seq(S)) /\ own # <<>>
      <4>1. PICK kept, joined : /\ kept = SubSeq(levels[t], 1, n - 2)
                                /\ joined = levels[t][n - 1] \o levels[t][n]
        BY Zenon
      <4>2. kept \in Seq(Seq(S)) /\ joined \in Seq(S) /\ own = Append(kept, joined)
        BY <3>2, <3>3, <3>4, <4>1
      <4>3. QED
        BY Zenon, <4>2, AppendInSeq
    <3>6. levels' = [levels EXCEPT ![t] = own] /\ dropping' = dropping /\ mode' = mode
      BY Zenon, <1>7, <2>1, <2>3, <3>2 DEF Commit
    <3>7. Hold(S)' /\ RollingBack'
      BY <1>3, <3>5, <3>6 DEF Hold, RollingBack
    <3>8. QED
      BY <1>1, <1>2, <1>3, <1>4, <2>2, <3>6, <3>7, StoreStays
  <2>4. CASE ~(n > 1)
    <3>1. /\ levels' = [levels EXCEPT ![t] = <<>>] /\ mode' = [mode EXCEPT ![t] = "committed"]
          /\ dropping' = [dropping EXCEPT ![t] = levels[t][1]]
      BY Zenon, <1>7, <2>1, <2>4 DEF Commit
    <3>2. levels[t][1] \in Seq(S) /\ <<>> \in Seq(Seq(S))
      BY <1>3, <2>1, <2>2
    <3>3. Hold(S)'
      BY <1>3, <3>1, <3>2 DEF Hold
    <3>4. RollingBack' /\ mode' \in [Tasks -> {"run", "undo", "committed", "undone"}]
      BY <1>3, <3>1 DEF RollingBack
    <3>5. QED
      BY <1>1, <1>2, <1>4, <2>2, <3>3, <3>4, StoreStays
  <2>5. QED
    BY <2>3, <2>4
<1>8. ASSUME EndUndo(t) PROVE IndInv'
  <2>1. mode[t] = "undo" /\ levels[t] # <<>> /\ store' = store
    BY <1>3, <1>8 DEF EndUndo, RollingBack
  <2>2. PICK own : own = Front(levels[t])
    OBVIOUS
  <2>3. own \in Seq(Seq(S))
    BY <1>3, <2>1, <2>2, FrontInSeq
  <2>4. PICK after : after = IF Len(levels[t]) = 1 THEN "undone" ELSE "run"
    OBVIOUS
  <2>5. levels' = [levels EXCEPT ![t] = own] /\ mode' = [mode EXCEPT ![t] = after] /\ dropping' = dropping
    BY <1>8, <2>2, <2>4 DEF EndUndo
  <2>6. Hold(S)'
    BY <1>3, <2>3, <2>5 DEF Hold
  <2>7. RollingBack' /\ mode' \in [Tasks -> {"run", "undo", "committed", "undone"}]
    BY <1>3, <2>4, <2>5 DEF RollingBack
  <2>8. QED
    BY <1>1, <1>2, <1>4, <2>1, <2>6, <2>7, StoreStays
<1>9. QED
  BY <1>5, <1>6, <1>7, <1>8

\* The places of the sequences an invalidation hands out
Known(model) == {p \in Baselines : ModelOf[p[1]] = model /\ store.entries[p] # NoEntry}

\* invalidate_model gives new sequences to the places it finds; nothing else changes.
LEMMA InvalidateModelKeeps ==
    ASSUME Capacity \in Nat, NoEntry \notin Entries, IndInv, NEW t \in Tasks, NEW model,
           InvalidateModel(t, model)
    PROVE  /\ IndInv'
           /\ \A p \in Known(model) : store'.entries[p] # NoEntry /\ store'.entries[p].values = Forgotten
           /\ \A p \in Baselines \ Known(model) : store'.entries[p] = store.entries[p]
<1>1. PICK place \in [Nat -> Baselines \cup {NoEntry}] : Tracked(place)
  BY Zenon DEF IndInv
<1>2. PICK known : known = Known(model)
  OBVIOUS
<1>3. PICK next : next = store.next_sequence
  OBVIOUS
<1>4. PICK count : count = Cardinality(known)
  OBVIOUS
<1>5. /\ Placed(store, place) /\ Cardinality(Live(store)) <= Capacity /\ known \in SUBSET Live(store)
      /\ next \in Nat /\ IsFiniteSet(Live(store))
  BY Zenon, <1>1, <1>2, <1>3 DEF Tracked, Placed, IndInv, Live, Known
<1>6. IsFiniteSet(known) /\ count \in Nat
  BY <1>4, <1>5, FS_Subset, FS_CardinalityType
<1>7. PICK number \in [known -> next .. next + count - 1] :
        /\ \A p, q \in known : number[p] = number[q] => p = q
        /\ Change(t, [Relisted(store,
              [p \in Baselines |-> IF p \in known
                  THEN [sequence |-> number[p], values |-> Forgotten] ELSE store.entries[p]],
              {o \in store.order : o[1] \notin {store.entries[p].sequence : p \in known}} \cup
                  {<<number[p], p>> : p \in known})
           EXCEPT !.next_sequence = @ + count])
        /\ UndoOnRollback(t, [kind |-> "invalidate",
               items |-> {[at |-> p, previous |-> store.entries[p], standing |-> number[p]] : p \in known}])
  BY Zenon, <1>2, <1>3, <1>4 DEF InvalidateModel, Known
<1>8. mode' = mode
  BY Zenon DEF InvalidateModel
<1>9. /\ \A p \in known : number[p] \in Nat /\ next <= number[p] /\ number[p] < next + count
      /\ \A p, q \in known : number[p] = number[q] => p = q
  BY <1>5, <1>6, <1>7
<1>10. PICK entries : entries = [p \in Baselines |-> IF p \in known
                         THEN [sequence |-> number[p], values |-> Forgotten] ELSE store.entries[p]]
  BY Zenon
<1>11. PICK order : order = {o \in store.order : o[1] \notin {store.entries[p].sequence : p \in known}}
                            \cup {<<number[p], p>> : p \in known}
  BY Zenon
<1>12. PICK re : re = Relisted(store, entries, order)
  OBVIOUS
<1>13. re = [entries |-> entries, order |-> order, next_sequence |-> next, evicted |-> store.evicted]
  <2>1. IsStore(store)
    BY <1>5 DEF Placed
  <2>2. QED
    BY <1>3, <1>12, <2>1, RelistedIs
<1>14. PICK st : st = [re EXCEPT !.next_sequence = re.next_sequence + count]
  BY Zenon
<1>15. st = [entries |-> entries, order |-> order, next_sequence |-> next + count, evicted |-> store.evicted]
  BY <1>13, <1>14
<1>16. Change(t, st)
  BY Zenon, <1>7, <1>10, <1>11, <1>12, <1>14
<1>17. PICK later : later = [n \in Nat |-> IF \E p \in known : number[p] = n
                                           THEN CHOOSE p \in known : number[p] = n ELSE place[n]]
  BY Zenon
<1>18. /\ later \in [Nat -> Baselines \cup {NoEntry}]
       /\ \A k \in Nat : k < next => later[k] = place[k]
       /\ \A p \in known : later[number[p]] = p
  <2>1. known \subseteq Baselines
    BY <1>5 DEF Live
  <2>2. \A n \in Nat : (\E p \in known : number[p] = n) => (CHOOSE p \in known : number[p] = n) \in known
    OBVIOUS
  <2>3. \A k \in Nat : k < next => ~ \E p \in known : number[p] = k
    BY <1>5, <1>9
  <2>4. ASSUME NEW p \in known PROVE later[number[p]] = p
    <3>1. PICK q : q = CHOOSE r \in known : number[r] = number[p]
      OBVIOUS
    <3>2. q \in known /\ number[q] = number[p]
      BY <3>1
    <3>3. later[number[p]] = q
      BY <1>9, <1>17, <3>1
    <3>4. QED
      BY <1>9, <3>2, <3>3
  <2>5. QED
    BY <1>17, <2>1, <2>2, <2>3, <2>4
<1>19. Live(st) = Live(store)
  <2>1. \A p \in known : entries[p] \in Entries
    BY <1>5, <1>9, <1>10 DEF Entries, Live
  <2>2. \A p \in Baselines \ known : entries[p] = store.entries[p]
    BY <1>10
  <2>3. st.entries = entries
    BY <1>15
  <2>4. QED
    BY <1>5, <2>1, <2>2, <2>3 DEF Live
<1>20. Placed(st, later)
  <2>1. \A p \in known : entries[p] \in Entries /\ entries[p].sequence = number[p]
    BY <1>5, <1>9, <1>10 DEF Entries, Live
  <2>2. \A p \in Baselines \ known : entries[p] = store.entries[p]
    BY <1>10
  <2>3. entries \in [Baselines -> Entries \cup {NoEntry}]
    BY Zenon, <1>5, <1>10, <2>1 DEF Placed
  <2>4. order = {<<store.entries[p].sequence, p>> : p \in Live(store) \ known} \cup
                {<<number[p], p>> : p \in known}
    <3>1. {o \in store.order : o[1] \notin {store.entries[p].sequence : p \in known}} =
            {<<store.entries[p].sequence, p>> : p \in Live(store) \ known}
      <4>1. \A p, q \in Live(store) : store.entries[p].sequence = store.entries[q].sequence => p = q
        BY <1>5 DEF Placed
      <4>2. store.order = {<<store.entries[p].sequence, p>> : p \in Live(store)}
        BY <1>5 DEF Placed, Listed
      <4>3. \A p \in Live(store) \ known : store.entries[p].sequence \notin {store.entries[q].sequence : q \in known}
        BY <1>5, <4>1
      <4>4. QED
        BY <4>2, <4>3
    <3>2. QED
      BY <1>11, <3>1
  <2>5. st.order = Listed(st)
    <3>1. Listed(st) = {<<entries[p].sequence, p>> : p \in Live(store)}
      BY <1>15, <1>19 DEF Listed
    <3>2. \A p \in Live(store) \ known : entries[p] = store.entries[p]
      BY <2>2 DEF Live
    <3>3. \A p \in known : entries[p].sequence = number[p] /\ p \in Live(store)
      BY <1>5, <2>1
    <3>4. st.order = order
      BY <1>15
    <3>5. QED
      BY <2>4, <3>1, <3>2, <3>3, <3>4
  <2>6. \A p \in Live(st) : entries[p].sequence < next + count /\ later[entries[p].sequence] = p
    <3>1. \A p \in Live(store) : store.entries[p].sequence \in Nat /\ store.entries[p].sequence < next
                                 /\ place[store.entries[p].sequence] = p
      BY <1>3, <1>5 DEF Placed, Live, Entries
    <3>2. \A p \in Live(store) \ known : entries[p] = store.entries[p]
      BY <2>2 DEF Live
    <3>3. \A p \in known : entries[p].sequence = number[p]
      BY <2>1
    <3>4. ASSUME NEW p \in Live(store) \ known
          PROVE  entries[p].sequence < next + count /\ later[entries[p].sequence] = p
      <4>1. entries[p] = store.entries[p]
        BY <3>2
      <4>2. /\ store.entries[p].sequence \in Nat /\ store.entries[p].sequence < next
            /\ place[store.entries[p].sequence] = p
        BY <3>1
      <4>3. store.entries[p].sequence < next + count
        BY <1>5, <1>6, <4>2
      <4>4. QED
        BY <1>18, <4>1, <4>2, <4>3
    <3>5. ASSUME NEW p \in known
          PROVE  entries[p].sequence < next + count /\ later[entries[p].sequence] = p
      BY <1>9, <1>18, <3>3
    <3>6. QED
      BY <1>19, <3>4, <3>5
  <2>7. IsStore(st) /\ st.entries = entries /\ st.next_sequence = next + count /\ next + count \in Nat
    BY <1>5, <1>6, <1>15 DEF IsStore
  <2>8. IsFiniteSet(Live(st))
    BY <1>5, <1>19
  <2>9. QED
    BY <2>3, <2>5, <2>6, <2>7, <2>8 DEF Placed
<1>21. PICK step : step = [kind |-> "invalidate",
          items |-> {[at |-> p, previous |-> store.entries[p], standing |-> number[p]] : p \in known}]
  BY Zenon
<1>22. step \in UndoSteps(later, next + count)
  <2>1. ASSUME NEW p \in known
        PROVE  /\ [at |-> p, previous |-> store.entries[p], standing |-> number[p]]
                     \in Recorded(later, next + count)
               /\ store.entries[p] # NoEntry /\ number[p] \in Nat
    <3>1. /\ p \in Baselines /\ store.entries[p] \in Entries /\ store.entries[p] # NoEntry
          /\ store.entries[p].sequence \in Nat /\ store.entries[p].sequence < next
          /\ place[store.entries[p].sequence] = p
      BY Zenon, <1>3, <1>5 DEF Placed, Live, Entries
    <3>2. store.entries[p].sequence < next + count /\ later[store.entries[p].sequence] = p
      <4>1. PICK n : n = store.entries[p].sequence
        BY Zenon
      <4>2. n \in Nat /\ n < next /\ place[n] = p
        BY Zenon, <3>1, <4>1
      <4>3. n < next + count
        BY <1>5, <1>6, <4>2
      <4>4. later[n] = p
        BY Zenon, <1>18, <4>2
      <4>5. QED
        BY Zenon, <4>1, <4>3, <4>4
    <3>3. QED
      BY <1>9, <3>1, <3>2 DEF Recorded
  <2>2. PICK items : items = {[at |-> p, previous |-> store.entries[p], standing |-> number[p]] : p \in known}
    BY Zenon
  <2>3. items \in SUBSET Recorded(later, next + count)
    BY Zenon, <2>1, <2>2
  <2>4. ASSUME NEW i \in items PROVE i.previous # NoEntry /\ i.standing \in Nat
    <3>1. PICK p \in known : i = [at |-> p, previous |-> store.entries[p], standing |-> number[p]]
      BY Zenon, <2>2
    <3>2. i.previous = store.entries[p] /\ i.standing = number[p]
      BY Zenon, <3>1
    <3>3. QED
      BY Zenon, <2>1, <3>2
  <2>5. step = [kind |-> "invalidate", items |-> items]
    BY Zenon, <1>21, <2>2
  <2>6. QED
    BY <2>3, <2>4, <2>5 DEF UndoSteps
<1>23. PICK S : S = UndoSteps(later, next + count)
  OBVIOUS
<1>24. Hold(S)
  <2>1. next + count \in Nat /\ next <= next + count
    BY <1>5, <1>6
  <2>2. UndoSteps(place, next) \subseteq S
    BY <1>5, <1>18, <1>23, <2>1, StepsGrow
  <2>3. QED
    BY <1>1, <1>3, <2>2, HoldGrows DEF Tracked
<1>25. Hold(S)' /\ RollingBack'
  <2>1. UndoOnRollback(t, step)
    BY <1>7, <1>21
  <2>2. RollingBack /\ step \in S
    BY <1>22, <1>23 DEF IndInv
  <2>3. QED
    BY <1>8, <1>24, <2>1, <2>2, UndoOnRollbackHolds
<1>26. /\ Placed(store, later)' /\ store'.evicted = {} /\ store'.next_sequence = st.next_sequence
       /\ Live(store)' = Live(st) /\ store'.entries = st.entries
  BY <1>16, <1>20, ChangePlaced
<1>27. st.next_sequence = next + count /\ st.entries = entries
  BY <1>15
<1>28. Tracked(later)'
  <2>1. Hold(UndoSteps(later, store.next_sequence))'
    BY <1>23, <1>25, <1>26, <1>27 DEF Hold
  <2>2. QED
    BY <1>26, <2>1 DEF Tracked
<1>29. IndInv'
  BY Zenon, <1>5, <1>8, <1>18, <1>19, <1>25, <1>26, <1>28 DEF IndInv
<1>30. \A p \in Baselines : store'.entries[p] = IF p \in known THEN [sequence |-> number[p], values |-> Forgotten]
                                                 ELSE store.entries[p]
  BY ZenonT(60), <1>10, <1>26, <1>27
<1>31. \A p \in known : store'.entries[p] # NoEntry /\ store'.entries[p].values = Forgotten
  <2>1. SUFFICES ASSUME NEW p \in known
                 PROVE  store'.entries[p] # NoEntry /\ store'.entries[p].values = Forgotten
    OBVIOUS
  <2>2. PICK e : e = [sequence |-> number[p], values |-> Forgotten]
    BY Zenon
  <2>3. e \in Entries /\ e.values = Forgotten
    BY <1>9, <2>2 DEF Entries
  <2>4. store'.entries[p] = e
    BY Zenon, <1>5, <1>30, <2>2 DEF Live
  <2>5. QED
    BY <2>3, <2>4
<1>32. QED
  BY Zenon, <1>2, <1>29, <1>30, <1>31

\* Every step keeps the invariant.
LEMMA NextKeeps ==
    ASSUME Capacity \in Nat, NoEntry \notin Entries, IndInv, [Next]_vars
    PROVE  IndInv'
<1>1. CASE UNCHANGED vars
  <2>1. PICK place \in [Nat -> Baselines \cup {NoEntry}] : Tracked(place)
    BY DEF IndInv
  <2>2. PICK S : S = UndoSteps(place, store.next_sequence)
    OBVIOUS
  <2>3. store' = store /\ levels' = levels /\ dropping' = dropping /\ mode' = mode
    BY <1>1 DEF vars
  <2>4. /\ Hold(S)' /\ RollingBack' /\ mode' \in [Tasks -> {"run", "undo", "committed", "undone"}]
        /\ IsPlace(place)
    BY <2>1, <2>2, <2>3 DEF Tracked, Hold, IndInv, RollingBack, IsPlace
  <2>5. QED
    BY <2>1, <2>2, <2>3, <2>4, StoreStays
<1>2. ASSUME NEW t \in Tasks, NEW p \in Baselines, NEW v \in Values, RememberModel(t, p, v)
      PROVE  IndInv'
  BY <1>2, SetBaselineKeeps DEF RememberModel
<1>3. ASSUME NEW t \in Tasks, NEW p \in Baselines, ForgetModel(t, p)
      PROVE  IndInv'
  BY <1>3, SetBaselineKeeps DEF ForgetModel
<1>4. ASSUME NEW t \in Tasks, NEW model, InvalidateModel(t, model)
      PROVE  IndInv'
  BY <1>4, InvalidateModelKeeps
<1>5. ASSUME NEW t \in Tasks, Begin(t) \/ Commit(t) \/ Rollback(t) \/ EndUndo(t)
      PROVE  IndInv'
  BY <1>5, BoundariesKeep
<1>6. ASSUME NEW t \in Tasks, Undo(t) \/ DropStep(t) \/ ClearAll(t)
      PROVE  IndInv'
  BY <1>6, UndoKeeps, DropStepKeeps, ClearAllKeeps
<1>7. QED
  BY Zenon, <1>1, <1>2, <1>3, <1>4, <1>5, <1>6 DEF Next

\* IndInv always holds.
LEMMA IndInvIsInvariant ==
    ASSUME Capacity \in Nat, NoEntry \notin Entries
    PROVE  Spec => []IndInv
<1>1. Init => IndInv
  BY InitInv
<1>2. IndInv /\ [Next]_vars => IndInv'
  BY NextKeeps
<1>3. QED
  BY <1>1, <1>2, PTL DEF Spec

\* SnapshotStore's `order` and `entries` never part, whatever sets, forgets,
\* invalidates and clears baselines while transactions roll back, and the store
\* never outgrows its capacity.
THEOREM StoreStaysInSync ==
    Spec => []InSync
<1>1. IndInv => InSync
  <2>1. SUFFICES ASSUME IndInv PROVE InSync
    OBVIOUS
  <2>2. PICK place \in [Nat -> Baselines \cup {NoEntry}] : Tracked(place)
    BY <2>1 DEF IndInv
  <2>3. Placed(store, place)
    BY <2>2 DEF Tracked
  <2>4. store.order = {<<store.entries[p].sequence, p>> :
                          p \in {q \in Baselines : store.entries[q] # NoEntry}}
    BY Zenon, <2>3 DEF Placed, Listed, Live
  <2>5. \A o, q \in store.order : o[1] = q[1] => o = q
    BY <2>3 DEF Placed, Listed
  <2>6. \A o \in store.order : o[1] < store.next_sequence
    BY <2>3 DEF Placed, Listed
  <2>7. Cardinality(store.order) = Cardinality(Live(store))
    BY <2>3, OrderCounts
  <2>8. QED
    BY <2>1, <2>4, <2>5, <2>6, <2>7 DEF InSync, IndInv
<1>2. Capacity \in Nat /\ NoEntry \notin Entries
  BY BaselinesAssumption DEF Entries
<1>3. Spec => []IndInv
  BY <1>2, IndInvIsInvariant
<1>4. QED
  BY <1>1, <1>3, PTL

-------------------------------------------------------------------------------
(* What rows report                                                        *)

\* What Get reports, without its CHOOSE
Reported(entries, row) == {entries[p].values : p \in {q \in Baselines : q[1] = row /\ entries[q] # NoEntry}}

\* Get reports the one baseline there is, if it is not a forgotten one.
LEMMA GetIs ==
    ASSUME NEW st, NEW row
    PROVE  /\ Get(st, row) # NoEntry => /\ Reported(st.entries, row) = {Get(st, row)}
                                        /\ Get(st, row) # Forgotten
           /\ \A v : Reported(st.entries, row) = {v} /\ v # Forgotten => Get(st, row) = v
  BY Zenon DEF Get, Reported

\* A row whose baselines a call leaves alone reports what it did, and one that
\* loses them all reports none.
LEMMA RowSettled ==
    ASSUME NEW st, NEW to, NEW row,
           \/ \A p \in Baselines : p[1] = row => to.entries[p] = st.entries[p]
           \/ \A p \in Baselines : p[1] = row => to.entries[p] = NoEntry
           \/ Forgotten \in Reported(to.entries, row)
    PROVE  Get(to, row) \in {NoEntry, Get(st, row)}
<1>1. CASE \A p \in Baselines : p[1] = row => to.entries[p] = st.entries[p]
  <2>1. {q \in Baselines : q[1] = row /\ to.entries[q] # NoEntry} =
          {q \in Baselines : q[1] = row /\ st.entries[q] # NoEntry}
    BY <1>1
  <2>2. Reported(to.entries, row) = Reported(st.entries, row)
    BY <1>1, <2>1 DEF Reported
  <2>3. CASE Get(to, row) = NoEntry
    BY <2>3
  <2>4. CASE Get(to, row) # NoEntry
    BY <2>2, <2>4, GetIs
  <2>5. QED
    BY <2>3, <2>4
<1>2. CASE \A p \in Baselines : p[1] = row => to.entries[p] = NoEntry
  BY <1>2, GetIs DEF Reported
<1>3. CASE Forgotten \in Reported(to.entries, row)
  BY <1>3, GetIs
<1>4. QED
  BY <1>1, <1>2, <1>3

\* set_baseline reports what it remembered, if anything new: a baseline it forgets
\* goes only when the other pools agreed with it.
LEMMA SetBaselineNeverGuesses ==
    ASSUME Capacity \in Nat, NoEntry \notin Entries, IndInv,
           NEW t \in Tasks, NEW p \in Baselines, NEW values \in Values \cup {Forgotten},
           SetBaseline(t, p, values), NEW row \in Rows
    PROVE  \/ Get(store', row) \in {NoEntry, Get(store, row)}
           \/ \E q \in Baselines : /\ q[1] = row /\ store'.entries[q] \notin {NoEntry, store.entries[q]}
                                   /\ store'.entries[q].values = Get(store', row)
<1>1. PICK place \in [Nat -> Baselines \cup {NoEntry}] : Tracked(place)
  BY DEF IndInv
<1>2. PICK st : st = Replace(store, p, values).store
  OBVIOUS
<1>3. PICK step : step = Replace(store, p, values).step
  OBVIOUS
<1>4. PICK later : later = Handed(place, p)
  OBVIOUS
<1>5. Placed(store, place) /\ Cardinality(Live(store)) <= Capacity /\ store.evicted = {} /\ IsPlace(place)
  BY <1>1 DEF IndInv, Tracked, IsPlace
<1>6. Placed(st, later) /\ LeftAs(Replaced(p, values), st)
  BY Zenon, <1>2, <1>3, <1>4, <1>5, ReplacePlaced
<1>7. Change(t, st)
  BY <1>2 DEF SetBaseline
<1>8. store'.entries = st.entries
  BY Zenon, <1>6, <1>7, ChangePlaced
<1>9. PICK to : to = store'
  OBVIOUS
<1>10. PICK now : now = store
  OBVIOUS
<1>11. PICK e : e = IF Inserts(p, values) THEN [sequence |-> store.next_sequence, values |-> values] ELSE NoEntry
  BY Zenon
<1>12. Replaced(p, values) = [now.entries EXCEPT ![p] = e] /\ now.entries \in [Baselines -> Entries \cup {NoEntry}]
  BY Zenon, <1>5, <1>10, <1>11 DEF Replaced, Placed
<1>13. \/ \A q \in Baselines : q[1] = row => to.entries[q] = NoEntry
       \/ \A q \in Baselines : q[1] = row => to.entries[q] = IF q = p THEN e ELSE now.entries[q]
  <2>1. CASE st.evicted = {} /\ st.entries = Replaced(p, values)
    BY ZenonT(60), <1>8, <1>9, <1>12, <2>1
  <2>2. CASE RowLeft(Replaced(p, values), st)
    <3>1. PICK r : st.entries = [q \in Baselines |-> IF q[1] = r THEN NoEntry ELSE Replaced(p, values)[q]]
      BY Zenon, <2>2 DEF RowLeft
    <3>2. QED
      BY ZenonT(60), <1>8, <1>9, <1>12, <3>1
  <2>3. QED
    BY Zenon, <1>6, <2>1, <2>2 DEF LeftAs
<1>14. CASE \/ \A q \in Baselines : q[1] = row => to.entries[q] = NoEntry
            \/ p[1] # row
  <2>1. Get(to, row) \in {NoEntry, Get(now, row)}
    BY <1>13, <1>14, RowSettled
  <2>2. QED
    BY <1>9, <1>10, <2>1
<1>15. CASE /\ p[1] = row
            /\ \A q \in Baselines : q[1] = row => to.entries[q] = IF q = p THEN e ELSE now.entries[q]
  <2>1. to.entries[p] = e
    BY <1>15
  <2>2. CASE Inserts(p, values)
    <3>1. e \in Entries /\ e.values = values /\ e.sequence = store.next_sequence
      BY Zenon, <1>5, <1>11, <2>2 DEF Entries, Placed
    <3>2. e # now.entries[p]
      <4>1. CASE p \notin Live(store)
        <5>1. now.entries[p] = NoEntry
          BY <1>10, <4>1 DEF Live
        <5>2. QED
          BY <3>1, <5>1
      <4>2. CASE p \in Live(store)
        <5>1. store.next_sequence \in Nat /\ store.entries[p].sequence < store.next_sequence
          BY <1>5, <4>2 DEF Placed
        <5>2. store.entries[p] \in Entries
          BY <1>5, <4>2 DEF Placed, Live
        <5>3. store.entries[p].sequence \in Nat
          BY <5>2 DEF Entries
        <5>4. store.entries[p].sequence # e.sequence
          BY <3>1, <5>1, <5>3
        <5>5. QED
          BY <1>10, <5>4
      <4>3. QED
        BY <4>1, <4>2
    <3>3. values \in Reported(to.entries, row)
      BY Zenon, <1>15, <2>1, <3>1 DEF Reported
    <3>4. Get(to, row) = NoEntry \/ values = Get(to, row)
      BY <3>3, GetIs
    <3>5. QED
      BY <1>9, <1>10, <1>15, <2>1, <3>1, <3>2, <3>4
  <2>3. CASE ~Inserts(p, values)
    <3>1. e = NoEntry /\ ~OthersDiffer(now, p)
      BY <1>10, <1>11, <2>3 DEF Inserts
    <3>2. CASE now.entries[p] = NoEntry
      <4>1. \A q \in Baselines : q[1] = row => to.entries[q] = now.entries[q]
        BY <1>15, <3>1, <3>2
      <4>2. Get(to, row) \in {NoEntry, Get(now, row)}
        BY <4>1, RowSettled
      <4>3. QED
        BY Zenon, <1>9, <1>10, <4>2
    <3>3. CASE now.entries[p] # NoEntry
      <4>1. PICK v : v = now.entries[p].values
        OBVIOUS
      <4>2. \A q \in Baselines \ {p} : q[1] = row /\ now.entries[q] # NoEntry =>
                v # Forgotten /\ now.entries[q].values = v
        BY Zenon, <1>15, <3>1, <3>3, <4>1 DEF OthersDiffer
      <4>3. Reported(now.entries, row) = {v}
        BY <1>15, <3>3, <4>1, <4>2 DEF Reported
      <4>4. Reported(to.entries, row) \subseteq {v}
        BY <1>15, <3>1, <4>2 DEF Reported
      <4>5. CASE Reported(to.entries, row) = {}
        BY <1>9, <4>5, GetIs
      <4>6. CASE Reported(to.entries, row) = {v}
        <5>1. v # Forgotten
          BY <1>15, <3>1, <4>2, <4>6 DEF Reported
        <5>2. Get(to, row) = v /\ Get(now, row) = v
          BY Zenon, <4>3, <4>6, <5>1, GetIs
        <5>3. QED
          BY <1>9, <1>10, <5>2
      <4>7. QED
        BY Zenon, <4>4, <4>5, <4>6
    <3>4. QED
      BY Zenon, <3>2, <3>3
  <2>4. QED
    BY Zenon, <2>2, <2>3
<1>16. QED
  BY Zenon, <1>13, <1>14, <1>15

\* No call guesses.
LEMMA NextNeverGuesses ==
    ASSUME Capacity \in Nat, NoEntry \notin Entries, IndInv, [Next]_vars, Calls, NEW row \in Rows
    PROVE  \/ Get(store', row) \in {NoEntry, Get(store, row)}
           \/ \E p \in Baselines : /\ p[1] = row /\ store'.entries[p] \notin {NoEntry, store.entries[p]}
                                   /\ store'.entries[p].values = Get(store', row)
<1>1. CASE store' = store
  BY Zenon, <1>1
<1>2. ASSUME NEW t \in Tasks, NEW p \in Baselines, NEW v \in Values \cup {Forgotten}, SetBaseline(t, p, v)
      PROVE  \/ Get(store', row) \in {NoEntry, Get(store, row)}
             \/ \E q \in Baselines : /\ q[1] = row /\ store'.entries[q] \notin {NoEntry, store.entries[q]}
                                     /\ store'.entries[q].values = Get(store', row)
  BY <1>2, SetBaselineNeverGuesses
<1>3. ASSUME NEW t \in Tasks, NEW model, InvalidateModel(t, model)
      PROVE  Get(store', row) \in {NoEntry, Get(store, row)}
  <2>1. PICK to, now : to = store' /\ now = store
    OBVIOUS
  <2>2. /\ \A p \in Known(model) : to.entries[p] # NoEntry /\ to.entries[p].values = Forgotten
        /\ \A p \in Baselines \ Known(model) : to.entries[p] = now.entries[p]
    BY <1>3, <2>1, InvalidateModelKeeps
  <2>3. \/ \A p \in Baselines : p[1] = row => to.entries[p] = now.entries[p]
        \/ Forgotten \in Reported(to.entries, row)
    BY <2>2 DEF Known, Reported
  <2>4. Get(to, row) \in {NoEntry, Get(now, row)}
    BY <2>3, RowSettled
  <2>5. QED
    BY <2>1, <2>4
<1>4. ASSUME NEW t \in Tasks, ClearAll(t)
      PROVE  Get(store', row) \in {NoEntry, Get(store, row)}
  <2>1. PICK place \in [Nat -> Baselines \cup {NoEntry}] : Tracked(place)
    BY DEF IndInv
  <2>2. PICK none : none = [p \in Baselines |-> NoEntry]
    BY Zenon
  <2>3. PICK re : re = Relisted(store, none, {})
    OBVIOUS
  <2>4. re = [entries |-> none, order |-> {}, next_sequence |-> store.next_sequence, evicted |-> store.evicted]
    <3>1. IsStore(store)
      BY <2>1 DEF Tracked, Placed
    <3>2. QED
      BY <2>3, <3>1, RelistedIs
  <2>5. PICK st : st = [re EXCEPT !.evicted = Rows]
    BY Zenon
  <2>6. st = [entries |-> none, order |-> {}, next_sequence |-> store.next_sequence, evicted |-> Rows]
    BY <2>4, <2>5
  <2>7. store' = [st EXCEPT !.evicted = {}]
    BY <1>4, <2>2, <2>3, <2>5 DEF ClearAll, Change
  <2>8. PICK to, now : to = store' /\ now = store
    OBVIOUS
  <2>9. to.entries = none
    BY <2>6, <2>7, <2>8
  <2>10. \A p \in Baselines : p[1] = row => to.entries[p] = NoEntry
    BY <2>2, <2>9
  <2>11. Get(to, row) \in {NoEntry, Get(now, row)}
    BY <2>10, RowSettled
  <2>12. QED
    BY <2>8, <2>11
<1>5. ASSUME NEW t \in Tasks, Undo(t) PROVE FALSE
  BY Zenon, <1>5, UndoKeeps DEF Calls, Undo
<1>6. ASSUME NEW t \in Tasks, DropStep(t) PROVE FALSE
  BY Zenon, <1>6, DropStepKeeps DEF Calls, DropStep
<1>7. ASSUME NEW t \in Tasks, Begin(t) \/ Commit(t) \/ Rollback(t) \/ EndUndo(t)
      PROVE  store' = store
  BY Zenon, <1>7 DEF Begin, Commit, Rollback, EndUndo
<1>8. CASE UNCHANGED vars
  BY <1>1, <1>8 DEF vars
<1>9. QED
  BY Zenon, <1>1, <1>2, <1>3, <1>4, <1>5, <1>6, <1>7, <1>8 DEF Next, RememberModel, ForgetModel

\* A call of the store never makes a row report a baseline that was another
\* pool's and differed: eviction takes a row's baselines together, and forgetting
\* leaves a mark where others differ (SnapshotStore::replace, get).
THEOREM CallsNeverGuess ==
    Spec => NeverGuessed
<1>1. Capacity \in Nat /\ NoEntry \notin Entries
  BY BaselinesAssumption DEF Entries
<1>2. IndInv /\ [Next]_vars => [GuessesNothing]_vars
  <2>1. SUFFICES ASSUME IndInv, [Next]_vars PROVE GuessesNothing
    OBVIOUS
  <2>2. QED
    BY <1>1, <2>1, NextNeverGuesses DEF GuessesNothing
<1>3. Spec => []IndInv
  BY <1>1, IndInvIsInvariant
<1>4. QED
  BY <1>2, <1>3, PTL DEF Spec, NeverGuessed
===============================================================================
