-------------------------------- MODULE Pivot --------------------------------
(***************************************************************************)
(* attach, detach and sync of a HasManyThrough relation, called at the     *)
(* same time for one owner (src/src/relations/many_to_many.rs).            *)
(* A pivot row links an owner, here "p", and may be trashed; one of another *)
(* owner is there because a unique key may span owners.  Statements read   *)
(* what is committed; sync's are one transaction.                          *)
(***************************************************************************)
EXTENDS Integers, Sequences, FiniteSets

CONSTANTS
    Callers,
    Related,    \* related ids
    Wishes      \* the lists sync may be called with

VARIABLES pivot, setting, calls

pivot_vars == <<pivot, setting, calls>>

PivotRow(owner, related, trashed, by) == [owner |-> owner, related |-> related, trashed |-> trashed, by |-> by]

Operations ==
    [op : {"attach", "detach"}, related : Related, wanted : {<<>>}] \cup
    [op : {"sync"}, related : {0}, wanted : Wishes]

\* What the pivot model and its table are
Settings == [backend : {"Postgres", "MySQL", "SQLite"}, soft : BOOLEAN, unique : {"none", "pair", "related"}]

\* `by` tells rows of one pair apart; "" is a row that was there before.
FirstRows(s) ==
    {rows \in SUBSET ({PivotRow("p", r, t, "") : r \in Related, t \in IF s.soft THEN BOOLEAN ELSE {FALSE}}
                      \cup {PivotRow("q", 1, FALSE, "")}) :
        \A x, y \in rows : x # y => x.related # y.related \/ (x.owner # y.owner /\ s.unique # "related")}

PivotInit ==
    /\ setting \in Settings
    /\ pivot \in FirstRows(setting)
    /\ \E ops \in [Callers -> Operations] :
           calls = [c \in Callers |->
               [op |-> ops[c].op, related |-> ops[c].related, asked |-> ops[c].wanted, wanted |-> ops[c].wanted,
                pc |-> "start", deleted |-> {}, inserted |-> {}, read |-> FALSE, linked |-> {}, alone |-> TRUE]]

-------------------------------------------------------------------------------
(* The database                                                            *)

Others(c) == Callers \ {c}

\* What a caller's statement reads: its own transaction's rows are its own.
View(c) == (pivot \ calls[c].deleted) \cup calls[c].inserted

IsPair(row, r) == row.owner = "p" /\ row.related = r
Pair(rows, r) == {row \in rows : IsPair(row, r)}
LivePair(rows, r) == {row \in Pair(rows, r) : ~row.trashed}

\* Whether a unique key holds one of the two rows
Conflicts(row, other) ==
    /\ row.related = other.related
    /\ setting.unique = "related" \/ (setting.unique = "pair" /\ row.owner = other.owner)

\* A write waits for the transaction that holds what it touches, on SQLite
\* for any that writes.
WaitsFor(c, touched, added, d) ==
    /\ calls[d].pc \in {"insert", "confirm", "commit"} /\ calls[d].op = "sync"
    /\ \/ setting.backend = "SQLite"
       \/ calls[d].deleted \cap touched # {}
       \/ \E row \in added, other \in calls[d].deleted \cup calls[d].inserted : Conflicts(row, other)

IsFree(c, touched, added) == \A d \in Others(c) : ~WaitsFor(c, touched, added, d)

\* After a step, what every caller under way has seen linked, and whether it
\* is the only one
Linked(rows) == {r \in Related : LivePair(rows, r) # {}}
IsUnderWay(call) == call.pc \notin {"start", "ok", "error"}
Witness(cs, rows) ==
    [c \in Callers |->
        IF cs[c].pc = "start" \/ calls[c].pc \in {"ok", "error"} THEN cs[c]
        ELSE [cs[c] EXCEPT !.linked = @ \cup Linked(rows),
                           !.alone = @ /\ \A d \in Others(c) : ~IsUnderWay(cs[d])]]

\* A statement of caller c: it replaces rows, and the caller goes on at pc.
Write(c, gone, added, call) ==
    IF call.op = "sync"
    THEN /\ calls' = Witness([calls EXCEPT ![c] = [call EXCEPT !.deleted = @ \cup (gone \cap pivot),
                                                               !.inserted = (@ \ gone) \cup added]], pivot)
         /\ UNCHANGED pivot
    ELSE /\ pivot' = (pivot \ gone) \cup added
         /\ calls' = Witness([calls EXCEPT ![c] = call], pivot')

Go(c, call) == Write(c, {}, {}, call)

-------------------------------------------------------------------------------
(* The calls                                                               *)

At(c, pc) == calls[c].pc = pc
Goto(c, pc) == [calls[c] EXCEPT !.pc = pc]

\* The id this step is about: sync's next one
Asked(c) == IF calls[c].op = "sync" THEN Head(calls[c].wanted) ELSE calls[c].related

Start(c) ==
    /\ At(c, "start")
    /\ Go(c, Goto(c, CASE calls[c].op = "attach" -> IF setting.soft THEN "restore"
                                                    ELSE IF setting.backend = "MySQL" THEN "exists" ELSE "insert"
                       [] calls[c].op = "detach" -> "detach"
                       [] calls[c].op = "sync" -> "force_delete"))
    /\ UNCHANGED setting

\* attach: a trashed row of the pair is restored, and that is all.
Restore(c) ==
    /\ At(c, "restore")
    /\ LET trashed == {row \in Pair(pivot, calls[c].related) : row.trashed}
       IN  /\ IsFree(c, trashed, {})
           /\ Write(c, trashed, {[row EXCEPT !.trashed = FALSE] : row \in trashed},
                    Goto(c, IF trashed # {} THEN "ok"
                            ELSE IF setting.backend = "MySQL" THEN "exists" ELSE "insert"))
    /\ UNCHANGED setting

\* MySQL reads first: with_trashed().exists()
Exists(c) ==
    /\ At(c, "exists")
    /\ Go(c, Goto(c, IF Pair(pivot, calls[c].related) # {} THEN "ok" ELSE "insert"))
    /\ UNCHANGED setting

\* Mutant: build_pivot_insert without NOT EXISTS
pivot_insert_bare(c, row) ==
    IF \E other \in View(c) : Conflicts(row, other) THEN {} ELSE {row}

\* build_pivot_insert: the rows it inserts
pivot_insert(c, row) ==
    IF \/ setting.backend # "MySQL" /\ Pair(View(c), row.related) # {}
       \/ \E other \in View(c) : Conflicts(row, other)
    THEN {} ELSE {row}

\* Mutant: only an insert that wrote nothing is checked.
unconfirmed_unless_written(added) == added = {} /\ setting.backend # "MySQL"

\* MySQL counts a duplicate it left alone as written, so it always reads back.
unconfirmed(added) == added = {} \/ setting.backend = "MySQL"

\* Where insert_pivot_pair's success leads
AfterPair(c) ==
    IF calls[c].op = "sync"
    THEN [calls[c] EXCEPT !.wanted = Tail(@), !.pc = IF Len(calls[c].wanted) = 1 THEN "commit" ELSE "insert"]
    ELSE Goto(c, "ok")

Insert(c) ==
    /\ At(c, "insert")
    /\ LET row == PivotRow("p", Asked(c), FALSE, c)
           added == pivot_insert(c, row)
       IN  /\ IsFree(c, {}, IF setting.backend = "SQLite" THEN {row} ELSE added)
           /\ Write(c, {}, added, IF unconfirmed(added) THEN Goto(c, "confirm") ELSE AfterPair(c))
    /\ UNCHANGED setting

\* pivot_pair(..).exists(): inside a MySQL transaction that has read before,
\* rows committed since are not seen.
Confirm(c) ==
    /\ At(c, "confirm")
    /\ LET seen == LivePair(View(c), Asked(c))
           stale == setting.backend = "MySQL" /\ calls[c].op = "sync" /\ calls[c].read
       IN  \/ /\ seen # {} /\ Go(c, [AfterPair(c) EXCEPT !.read = TRUE])
           \/ /\ seen = {} \/ (stale /\ seen \cap calls[c].inserted = {})
              /\ Go(c, [Goto(c, "error") EXCEPT !.deleted = {}, !.inserted = {}])
    /\ UNCHANGED setting

\* delete(): trashes the live rows of the pair where there is a trash
Detach(c) ==
    /\ At(c, "detach")
    /\ LET live == LivePair(pivot, calls[c].related)
       IN  /\ IsFree(c, live, {})
           /\ Write(c, live, IF setting.soft THEN {[row EXCEPT !.trashed = TRUE] : row \in live} ELSE {}, Goto(c, "ok"))
    /\ UNCHANGED setting

\* sync: the owner's rows go, trashed ones too, then each wanted id is inserted.
ForceDelete(c) ==
    /\ At(c, "force_delete")
    /\ LET mine == {row \in pivot : row.owner = "p"}
       IN  /\ IsFree(c, mine, {})
           /\ Write(c, mine, {}, Goto(c, IF calls[c].wanted = <<>> THEN "commit" ELSE "insert"))
    /\ UNCHANGED setting

Commit(c) ==
    /\ At(c, "commit")
    /\ pivot' = View(c)
    /\ calls' = Witness([calls EXCEPT ![c] = [@ EXCEPT !.pc = "ok", !.deleted = {}, !.inserted = {}, !.linked = {}]],
                        View(c))
    /\ UNCHANGED setting

\* Two transactions wait for each other's rows: the database ends one.
IsStuck(c) ==
    /\ At(c, "insert") /\ calls[c].op = "sync"
    /\ ~IsFree(c, {}, pivot_insert(c, PivotRow("p", Asked(c), FALSE, c)))

Deadlock(c) ==
    /\ IsStuck(c) /\ \E d \in Others(c) : IsStuck(d)
    /\ Go(c, [Goto(c, "error") EXCEPT !.deleted = {}, !.inserted = {}])
    /\ UNCHANGED setting

PivotNext ==
    \E c \in Callers :
        \/ Start(c) \/ Restore(c) \/ Exists(c) \/ Insert(c) \/ Confirm(c) \/ Detach(c)
        \/ ForceDelete(c) \/ Commit(c) \/ Deadlock(c)

-------------------------------------------------------------------------------
(* Properties                                                              *)

\* attach returns Ok only if the pair was linked at some moment of the call,
\* whoever detached it meanwhile; a lone sync leaves exactly what it was asked
\* for; and a pair has one row wherever a unique key or SQLite's lock can see
\* to it, whatever the calls' order.
LinksAreAsAsked ==
    /\ \A c \in Callers :
          /\ At(c, "ok") /\ calls[c].op = "attach" => calls[c].related \in calls[c].linked
          /\ calls[c].op = "sync" /\ calls[c].alone =>
                IF At(c, "ok") THEN calls[c].linked = {calls[c].asked[i] : i \in DOMAIN calls[c].asked}
                ELSE At(c, "error") => setting.unique = "related"
    /\ setting.backend = "SQLite" \/ setting.unique # "none" =>
          \A x, y \in pivot : x # y => ~(x.owner = y.owner /\ x.related = y.related)
===============================================================================
