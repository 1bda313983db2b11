------------------------------- MODULE Chunks -------------------------------
(***************************************************************************)
(* chunk(): a query read batch by batch behind a cursor on the primary key, *)
(* each batch a statement of its own, while others write the table         *)
(* (src/src/query/sql/execution.rs).  A join may repeat a key: the table   *)
(* is how many rows of the query each key has.                             *)
(***************************************************************************)
EXTENDS Integers, Sequences, SequencesExt

CONSTANTS
    None, RowKeys,      \* RowKeys: the primary keys, an interval of integers
    MaxRepeats,         \* bound on the rows a join makes of one key
    MaxWrites           \* bound on the writes beside one chunk()

VARIABLES table, chunk

chunk_vars == <<table, chunk>>

\* What chunk() is called with: without a join no key repeats.
ChunkCalls == [size : 1..2, order : {"Asc", "Desc"}, limit : {None} \cup 1..3, joins : BOOLEAN]

Repeats(joins) == 0..(IF joins THEN MaxRepeats ELSE 1)

ChunkInit ==
    \E call \in ChunkCalls :
        /\ table \in [RowKeys -> Repeats(call.joins)]
        /\ chunk = [pc |-> "fetch", size |-> call.size, order |-> call.order, joins |-> call.joins,
                    limit |-> call.limit, remaining |-> call.limit, cursor |-> None, inclusive |-> FALSE,
                    batch |-> <<>>, last_key |-> None, fetched |-> 0, batches |-> <<>>,
                    written |-> {}, writes |-> 0]

Lesser(a, b) == IF a < b THEN a ELSE b

\* The rows of the query in its order, behind the cursor
RowsBehind(cursor, inclusive) ==
    LET keys == {k \in RowKeys :
                    \/ cursor = None
                    \/ IF chunk.order = "Asc" THEN k > cursor ELSE k < cursor
                    \/ inclusive /\ k = cursor}
        sorted == SetToSortSeq(keys, LAMBDA a, b : IF chunk.order = "Asc" THEN a < b ELSE a > b)
    IN  FlattenSeq([i \in DOMAIN sorted |-> [n \in 1..table[sorted[i]] |-> sorted[i]]])

BatchLimit == IF chunk.remaining = None THEN chunk.size ELSE Lesser(chunk.remaining, chunk.size)

TailOf(batch) == SelectSeq(batch, LAMBDA k : k = Last(batch))

Finish(outcome) == chunk' = [chunk EXCEPT !.pc = outcome]

\* One batch.  A full one may end within the rows of a key: that key is left
\* for the next batch, or read whole if it is all the batch has.
Fetch ==
    /\ chunk.pc = "fetch"
    /\ LET rows == RowsBehind(chunk.cursor, chunk.inclusive)
           batch == SubSeq(rows, 1, Lesser(BatchLimit, Len(rows)))
           more_may_follow == chunk.remaining = None \/ chunk.remaining > BatchLimit
           splits == chunk.joins /\ Len(batch) = BatchLimit /\ more_may_follow
           tail == TailOf(batch)
           read == [chunk EXCEPT !.last_key = Last(batch), !.fetched = Len(batch)]
       IN  IF batch = <<>> THEN Finish("done")
           ELSE IF splits /\ Len(tail) = Len(batch)
           THEN chunk' = [read EXCEPT !.pc = "run"]
           ELSE IF splits
           THEN chunk' = [read EXCEPT !.pc = "call", !.inclusive = TRUE,
                                      !.batch = SubSeq(batch, 1, Len(batch) - Len(tail))]
           ELSE chunk' = [read EXCEPT !.pc = "call", !.inclusive = FALSE, !.batch = batch]
    /\ UNCHANGED table

\* The rows of one key, more of which than a batch are refused
FetchRun ==
    /\ chunk.pc = "run"
    /\ IF table[chunk.last_key] > chunk.size THEN Finish("error")
       ELSE chunk' = [chunk EXCEPT !.pc = "call", !.inclusive = FALSE,
                                   !.batch = [n \in 1..table[chunk.last_key] |-> chunk.last_key]]
    /\ UNCHANGED table

\* Mutant: the loop goes on behind the last row read, not the last handed over.
HandOverPast ==
    /\ chunk.pc = "call"
    /\ LET left == IF chunk.remaining = None THEN None ELSE chunk.remaining - Lesser(chunk.remaining, Len(chunk.batch))
       IN  chunk' = [chunk EXCEPT
               !.pc = IF left = 0 \/ chunk.fetched < BatchLimit THEN "done" ELSE "fetch",
               !.batches = Append(@, chunk.batch), !.remaining = left,
               !.cursor = chunk.last_key, !.inclusive = FALSE]
    /\ UNCHANGED table

\* The callback has the batch; it may fail, which ends the call.
HandOver ==
    /\ chunk.pc = "call"
    /\ LET left == IF chunk.remaining = None THEN None ELSE chunk.remaining - Lesser(chunk.remaining, Len(chunk.batch))
       IN  chunk' = [chunk EXCEPT
               !.pc = IF left = 0 \/ chunk.fetched < BatchLimit THEN "done" ELSE "fetch",
               !.batches = Append(@, chunk.batch), !.remaining = left, !.cursor = chunk.last_key]
    /\ UNCHANGED table

CallbackFails ==
    /\ chunk.pc = "call"
    /\ chunk' = [chunk EXCEPT !.pc = "failed", !.batches = Append(@, chunk.batch)]
    /\ UNCHANGED table

\* Someone else inserts, deletes or moves rows of a key.
WriteKey(k, n) ==
    /\ chunk.pc \in {"fetch", "run", "call"} /\ chunk.writes < MaxWrites
    /\ table[k] # n /\ table' = [table EXCEPT ![k] = n]
    /\ chunk' = [chunk EXCEPT !.written = @ \cup {k}, !.writes = @ + 1]

ChunkNext ==
    \/ Fetch \/ FetchRun \/ HandOver \/ CallbackFails
    \/ \E k \in RowKeys, n \in Repeats(chunk.joins) : WriteKey(k, n)

-------------------------------------------------------------------------------
(* Properties                                                              *)

Handed(k) == Len(SelectSeq(FlattenSeq(chunk.batches), LAMBDA x : x = k))

\* chunk() hands the rows of a key over in one batch, at most as many rows as
\* its limit, in batches no larger than asked for; it hands over every row of
\* a key nobody wrote meanwhile, when it has no limit, and the first ones when
\* it has; and it gives up only where a key fills more than a batch.
ChunksHandEachRowOnce ==
    /\ \A i, j \in DOMAIN chunk.batches : i # j => Range(chunk.batches[i]) \cap Range(chunk.batches[j]) = {}
    /\ chunk.limit # None => Len(FlattenSeq(chunk.batches)) <= chunk.limit
    /\ \A i \in DOMAIN chunk.batches : Len(chunk.batches[i]) <= chunk.size
    /\ chunk.pc = "done" /\ chunk.limit = None =>
          \A k \in RowKeys \ chunk.written : Handed(k) = table[k]
    /\ chunk.pc = "done" /\ chunk.written = {} =>
          LET rows == RowsBehind(None, FALSE)
          IN  FlattenSeq(chunk.batches) =
                 IF chunk.limit = None THEN rows ELSE SubSeq(rows, 1, Lesser(chunk.limit, Len(rows)))
    /\ chunk.pc = "error" => chunk.written # {} \/ \E k \in RowKeys : table[k] > chunk.size
===============================================================================
