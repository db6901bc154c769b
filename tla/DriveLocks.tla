----------------------------- MODULE DriveLocks -----------------------------
(***************************************************************************)
(* The drive-lock registry of codypendentd/src/workflows.rs, for one run:  *)
(* run_lock hands out clones of a reference-counted mutex kept in a map,   *)
(* and prune_run_lock removes the map's entry when its strong count says   *)
(* that nobody else has a clone.  If an entry were removed while a task    *)
(* still had a clone, the next task would lock a second mutex and two      *)
(* drives would advance one run.                                           *)
(***************************************************************************)
EXTENDS Naturals, FiniteSets

CONSTANTS Task,     \* drive tasks and retry handlers of the run
          Mutex,    \* mutex objects that may be allocated
          NoMutex

ASSUME LockAssumption == IsFiniteSet(Task) /\ NoMutex \notin Mutex

VARIABLES entry,    \* the registry's mutex for the run, or NoMutex
          clone,    \* the clone each task owns, or NoMutex
          pc        \* where each task is

vars == <<entry, clone, pc>>

Pc == {"idle", "waiting", "holding", "prune", "drop"}

Owners(m) == {t \in Task : clone[t] = m}

(* Arc::strong_count: the clones and the registry's own reference. *)
StrongCount(m) == Cardinality(Owners(m)) + (IF entry = m THEN 1 ELSE 0)

Allocatable == {m \in Mutex : m # entry /\ Owners(m) = {}}

(* run_lock, under the registry's mutex: entry().or_default().clone(). *)
RunLock(t) ==
    /\ pc[t] = "idle"
    /\ entry' \in IF entry = NoMutex THEN Allocatable ELSE {entry}
    /\ clone' = [clone EXCEPT ![t] = entry']
    /\ pc' = [pc EXCEPT ![t] = "waiting"]

(* lock().await returns the guard. *)
Lock(t) ==
    /\ pc[t] = "waiting"
    /\ \A u \in Owners(clone[t]) : pc[u] # "holding"
    /\ pc' = [pc EXCEPT ![t] = "holding"]
    /\ UNCHANGED <<entry, clone>>

(* The guard is dropped: a drive that ran goes on to prune; a drive that   *)
(* returned early, and a retry handler, only drop their clone.             *)
Unlock(t) ==
    /\ pc[t] = "holding"
    /\ \E next \in {"prune", "drop"} : pc' = [pc EXCEPT ![t] = next]
    /\ UNCHANGED <<entry, clone>>

(* Fault: the count allows for one waiter too many. *)
PruneTooSoon(t) ==
    /\ pc[t] = "prune"
    /\ entry' = IF StrongCount(clone[t]) <= 3 THEN NoMutex ELSE entry
    /\ pc' = [pc EXCEPT ![t] = "drop"]
    /\ UNCHANGED clone

(* prune_run_lock, under the registry's mutex; whatever entry is there goes. *)
PruneRunLock(t) ==
    /\ pc[t] = "prune"
    /\ entry' = IF StrongCount(clone[t]) <= 2 THEN NoMutex ELSE entry
    /\ pc' = [pc EXCEPT ![t] = "drop"]
    /\ UNCHANGED clone

(* The task's own clone goes out of scope. *)
DropClone(t) ==
    /\ pc[t] = "drop"
    /\ clone' = [clone EXCEPT ![t] = NoMutex]
    /\ pc' = [pc EXCEPT ![t] = "idle"]
    /\ UNCHANGED entry

Init ==
    /\ entry = NoMutex
    /\ clone = [t \in Task |-> NoMutex]
    /\ pc = [t \in Task |-> "idle"]

Next == \E t \in Task :
    RunLock(t) \/ Lock(t) \/ Unlock(t) \/ PruneRunLock(t) \/ DropClone(t)

Spec == Init /\ [][Next]_vars

----------------------------------------------------------------------------
(* A task owns at most one clone, and the registry has at most one entry. *)
TypeOK ==
    /\ entry \in Mutex \cup {NoMutex}
    /\ clone \in [Task -> Mutex \cup {NoMutex}]
    /\ pc \in [Task -> Pc]

(* Whoever waits for, holds or is about to prune a lock of the run has the *)
(* registered one: the strong-count test of prune_run_lock never detaches  *)
(* a lock that is still in use, nor removes another task's entry.          *)
OneLockPerRun == \A t \in Task : pc[t] \in {"waiting", "holding", "prune"} => clone[t] = entry

Guard == INSTANCE DriveMutex WITH holders <- {t \in Task : pc[t] = "holding"}

(* The registry implements mutual exclusion between the run's tasks: at    *)
(* most one drive or retry advances the run at a time.                     *)
ImplementsMutex == Guard!Spec
=============================================================================
