-------------------------- MODULE DriveLocksProofs --------------------------
(* The drive-lock registry implements one mutex per run, for any number of *)
(* tasks and any allocation of mutex objects.                              *)
EXTENDS DriveLocks, FiniteSetTheorems, TLAPS

(* OneLockPerRun made inductive: who owns a clone, and one holder. *)
LockInv ==
    /\ TypeOK
    /\ OneLockPerRun
    /\ \A t \in Task : pc[t] = "idle" <=> clone[t] = NoMutex
    /\ \A t, u \in Task : (pc[t] = "holding" /\ pc[u] = "holding") => t = u

(* A count of at most two, with the entry and t's own clone in it, leaves  *)
(* no other owner.                                                         *)
LEMMA CountMeansAlone ==
    ASSUME NEW t \in Task, TypeOK, clone[t] = entry, StrongCount(clone[t]) <= 2,
           NEW u \in Task, clone[u] = entry
    PROVE  u = t
<1>1. IsFiniteSet(Owners(entry))
  <2>1. Owners(entry) \in SUBSET Task
    BY DEF Owners
  <2> QED
    BY <2>1, LockAssumption, FS_Subset, Zenon
<1>2. Cardinality(Owners(entry)) \in Nat /\ Cardinality(Owners(entry)) <= 1
  <2>1. Cardinality(Owners(entry)) \in Nat
    BY <1>1, FS_CardinalityType, Zenon
  <2> QED
    BY <2>1 DEF StrongCount
<1>3. t \in Owners(entry) /\ u \in Owners(entry)
  BY DEF Owners
<1>4. IsFiniteSet({t}) /\ Cardinality({t}) = 1
  BY FS_Singleton
<1>5. Cardinality({t}) = Cardinality(Owners(entry))
  <2>1. {t} \in SUBSET Owners(entry)
    BY <1>3
  <2>2. Cardinality({t}) <= Cardinality(Owners(entry))
    BY <1>1, <2>1, FS_Subset, Zenon
  <2> QED
    BY <1>2, <1>4, <2>2
<1>6. Owners(entry) = {t}
  <2>1. {t} \in SUBSET Owners(entry)
    BY <1>3
  <2> QED
    BY <1>1, <1>5, <2>1, FS_Subset
<1> QED
  BY <1>3, <1>6

(* Every step keeps the lock invariant. *)
LEMMA LockInvKept == LockInv /\ [Next]_vars => LockInv'
<1> SUFFICES ASSUME LockInv, [Next]_vars PROVE LockInv'
  OBVIOUS
<1> USE LockAssumption DEF LockInv, TypeOK, OneLockPerRun, Pc
<1>1. ASSUME NEW t \in Task, RunLock(t) PROVE LockInv'
  <2>1. entry' \in Mutex /\ (entry # NoMutex => entry' = entry)
    BY <1>1 DEF RunLock, Allocatable
  <2>2. \A u \in Task : pc[u] \in {"waiting", "holding", "prune"} => entry' = entry
    BY <2>1
  <2> QED
    BY <1>1, <2>1, <2>2 DEF RunLock
<1>2. ASSUME NEW t \in Task, Lock(t) PROVE LockInv'
  BY <1>2 DEF Lock, Owners
<1>3. ASSUME NEW t \in Task, Unlock(t) PROVE LockInv'
  BY <1>3 DEF Unlock
<1>4. ASSUME NEW t \in Task, PruneRunLock(t) PROVE LockInv'
  <2>1. \A u \in Task : (u # t /\ pc[u] \in {"waiting", "holding", "prune"}) => entry' = entry
    BY <1>4, CountMeansAlone DEF PruneRunLock
  <2> QED
    BY <1>4, <2>1 DEF PruneRunLock
<1>5. ASSUME NEW t \in Task, DropClone(t) PROVE LockInv'
  BY <1>5 DEF DropClone
<1>6. CASE UNCHANGED vars
  BY <1>6 DEF vars
<1> QED
  BY <1>1, <1>2, <1>3, <1>4, <1>5, <1>6 DEF Next

(* No task has started initially. *)
LEMMA LockInvInit == Init => LockInv
  BY DEF Init, LockInv, TypeOK, OneLockPerRun, Pc

(* The registered mutex is the only one in use. *)
THEOREM RegistryIsSound == Spec => []OneLockPerRun
<1>1. LockInv => OneLockPerRun
  BY DEF LockInv
<1> QED
  BY <1>1, LockInvInit, LockInvKept, PTL DEF Spec

(* The registry refines the mutex that the workflow host relies on. *)
THEOREM RegistryIsMutex == Spec => ImplementsMutex
<1> DEFINE H == {t \in Task : pc[t] = "holding"}
<1>1. Init => Guard!Init
  BY DEF Init, Guard!Init
<1>2. LockInv /\ [Next]_vars => [Guard!Next]_(H)
  <2> SUFFICES ASSUME LockInv, [Next]_vars PROVE [Guard!Next]_(H)
    OBVIOUS
  <2> USE DEF LockInv, TypeOK, Pc, OneLockPerRun
  <2>1. ASSUME NEW t \in Task, Lock(t) PROVE Guard!Acquire(t)
    BY <2>1 DEF Lock, Owners, Guard!Acquire
  <2>2. ASSUME NEW t \in Task, Unlock(t) PROVE Guard!Release(t)
    BY <2>2 DEF Unlock, Guard!Release
  <2>3. ASSUME NEW t \in Task, RunLock(t) \/ PruneRunLock(t) \/ DropClone(t) PROVE H' = H
    BY <2>3 DEF RunLock, PruneRunLock, DropClone
  <2>4. CASE UNCHANGED vars
    BY <2>4 DEF vars
  <2> QED
    BY <2>1, <2>2, <2>3, <2>4 DEF Next, Guard!Next
<1> QED
  BY <1>1, <1>2, LockInvInit, LockInvKept, PTL DEF Spec, ImplementsMutex, Guard!Spec
=============================================================================
