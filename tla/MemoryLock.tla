------------------------------ MODULE MemoryLock ------------------------------
(***************************************************************************)
(* The ledger lock of an in-memory SQLite database: a mutex the migrators  *)
(* of one process find in a registry, which holds it weakly.  Whoever      *)
(* waits for the mutex or holds it owns a reference; the last one to give  *)
(* its reference up runs the destructor, which takes the registry's lock   *)
(* only later, when another migrator may have come.                        *)
(*                                                                         *)
(* Source: migration/memory_lock.rs.                                       *)
(***************************************************************************)
EXTENDS Naturals, FiniteSets

CONSTANTS
    Migrators,  \* the tasks that migrate, all on one database
    Mutexes,    \* addresses
    None

ASSUME MemoryLockAssumption == None \notin Mutexes \cup Migrators

VARIABLES
    registry,   \* locks(): where the Weak under the database's name points
    entry,      \* per task, the MemoryMutex it has a reference to
    owner,      \* per mutex, the task that locked it
    dying,      \* mutexes without references, before their destructor ran
    pc          \* "idle", "waiting", "holding", "unlocked"

lock_vars == <<registry, entry, owner, dying, pc>>

LockTypeOK ==
    /\ registry \in Mutexes \cup {None}
    /\ entry \in [Migrators -> Mutexes \cup {None}]
    /\ owner \in [Mutexes -> Migrators \cup {None}]
    /\ dying \subseteq Mutexes
    /\ pc \in [Migrators -> {"idle", "waiting", "holding", "unlocked"}]

LockInit ==
    /\ registry = None
    /\ entry = [p \in Migrators |-> None]
    /\ owner = [m \in Mutexes |-> None]
    /\ dying = {}
    /\ pc = [p \in Migrators |-> "idle"]

Owners(m) == {p \in Migrators : entry[p] = m}

\* A Weak keeps the address of what it points to, and so does a destructor.
Unused(m) == Owners(m) = {} /\ m \notin dying /\ m # registry

\* acquire, up to the wait
Look(p) ==
    /\ pc[p] = "idle"
    /\ pc' = [pc EXCEPT ![p] = "waiting"]
    /\ \/ /\ registry # None /\ Owners(registry) # {}
          /\ entry' = [entry EXCEPT ![p] = registry]
          /\ UNCHANGED registry
       \/ /\ registry = None \/ Owners(registry) = {}
          /\ \E m \in Mutexes :
                 /\ Unused(m)
                 /\ entry' = [entry EXCEPT ![p] = m]
                 /\ registry' = m
    /\ UNCHANGED <<owner, dying>>

\* lock_owned().await returns
Take(p) ==
    /\ pc[p] = "waiting"
    /\ owner[entry[p]] = None
    /\ owner' = [owner EXCEPT ![entry[p]] = p]
    /\ pc' = [pc EXCEPT ![p] = "holding"]
    /\ UNCHANGED <<registry, entry, dying>>

\* A reference goes; the last one leaves the mutex to its destructor.
DropEntry(p) ==
    /\ entry' = [entry EXCEPT ![p] = None]
    /\ dying' = IF Owners(entry[p]) = {p} THEN dying \cup {entry[p]} ELSE dying
    /\ pc' = [pc EXCEPT ![p] = "idle"]
    /\ UNCHANGED <<registry, owner>>

\* Dropping a MemoryLock drops its guard first ...
Unlock(p) ==
    /\ pc[p] = "holding"
    /\ owner' = [owner EXCEPT ![entry[p]] = None]
    /\ pc' = [pc EXCEPT ![p] = "unlocked"]
    /\ UNCHANGED <<registry, entry, dying>>

\* ... and its entry second.
Leave(p) == pc[p] = "unlocked" /\ DropEntry(p)

\* A task cancelled while it waits
Cancel(p) == pc[p] = "waiting" /\ DropEntry(p)

\* Mutant: whatever the registry points to goes.
DestroyAny(m) ==
    /\ m \in dying
    /\ registry' = None
    /\ dying' = dying \ {m}
    /\ UNCHANGED <<entry, owner, pc>>

\* Drop for MemoryMutex: another migrator may have put its own mutex there.
Destroy(m) ==
    /\ m \in dying
    /\ registry' = IF registry = m THEN None ELSE registry
    /\ dying' = dying \ {m}
    /\ UNCHANGED <<entry, owner, pc>>

LockStep(p) == Take(p) \/ Unlock(p) \/ Leave(p)

LockNext ==
    \/ \E p \in Migrators : Look(p) \/ LockStep(p) \/ Cancel(p)
    \/ \E m \in Mutexes : Destroy(m)

\* Tasks are polled and destructors run; nobody has to come.
LockSpec ==
    /\ LockInit /\ [][LockNext]_lock_vars
    /\ \A p \in Migrators : WF_lock_vars(LockStep(p))
    /\ \A m \in Mutexes : WF_lock_vars(Destroy(m))

-------------------------------------------------------------------------------
(* Properties                                                              *)

\* The mutexes, the weak references and the destructors come down to one lock.
Abstract == INSTANCE Lock WITH Processes <- Migrators, holders <- {p \in Migrators : pc[p] = "holding"}
IsALock == Abstract!Spec
===============================================================================
