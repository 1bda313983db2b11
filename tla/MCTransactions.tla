---------------------------- MODULE MCTransactions ----------------------------
(* Instances of Transactions for TLC.                                       *)
EXTENDS Transactions, TLC

CONSTANTS r1, s1, s2

\* Nested transactions one inside the other, side by side, or one and another
\* transaction before or after it on the same connection
Chain == r1 :> <<r1>> @@ s1 :> <<r1, s1>> @@ s2 :> <<r1, s1, s2>>
Fork == r1 :> <<r1>> @@ s1 :> <<r1, s1>> @@ s2 :> <<r1, s2>>
Pair == r1 :> <<r1>> @@ s1 :> <<r1, s1>> @@ s2 :> <<s2>>

Setting(backends, path, concurrency, cancel, leak) ==
    [backends |-> backends, path |-> path, concurrency |-> concurrency,
     cancel |-> cancel, leak |-> leak]

\* One after the other: cancellation where the driver copes with it, leaks, and
\* both together
Sequential ==
    {Setting({"Postgres", "MySql"}, Chain, "none", TRUE, FALSE),
     Setting({"Sqlite"}, Chain, "none", FALSE, FALSE),
     Setting(Backends, Fork, "none", FALSE, TRUE),
     Setting({"Postgres", "MySql"}, Pair, "none", TRUE, TRUE)}

\* Side by side in one task, and SQLite with cancellation
Beside ==
    {Setting({"Postgres"}, Fork, "join", TRUE, FALSE),
     Setting({"Sqlite"}, Chain, "none", TRUE, FALSE)}

\* The settings in which the code does not do what it says
LeakTwoLevelsDown == {Setting(Backends, Chain, "none", FALSE, TRUE)}

\* CommitsItsOwn and OnlyCommittedIsDurable: the slot of Executor::begin keeps
\* savepoints opened side by side apart, and what is durable was committed.
CommitsOnlyItsOwn == CommitsItsOwn /\ OnlyCommittedIsDurable
===============================================================================
