--------------------------------- MODULE Lock ---------------------------------
(* What a ledger lock promises: nobody takes it while somebody holds it.    *)

CONSTANT Processes

VARIABLE holders

Free == holders = {}

Acquire(p) == Free /\ holders' = {p}

\* By its release, or by the end of whoever held it
Release(p) == p \in holders /\ holders' = holders \ {p}

Next == \E p \in Processes : Acquire(p) \/ Release(p)

Spec == Free /\ [][Next]_holders
===============================================================================
