----------------------------- MODULE DriveMutex -----------------------------
(* What the per-run drive lock promises the rest of the host: the tasks of *)
(* one run enter one at a time.  WorkflowEngine relies on exactly this.    *)
CONSTANT Task
VARIABLE holders

Init == holders = {}

Acquire(t) == holders = {} /\ holders' = {t}
Release(t) == holders = {t} /\ holders' = {}

Next == \E t \in Task : Acquire(t) \/ Release(t)

Spec == Init /\ [][Next]_holders
=============================================================================
