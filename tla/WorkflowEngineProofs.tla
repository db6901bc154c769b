------------------------ MODULE WorkflowEngineProofs ------------------------
(* Proofs about WorkflowEngine, for every graph, bound and client set. *)
EXTENDS WorkflowEngine, FiniteSetTheorems, TLAPS

----------------------------------------------------------------------------
(* Every step keeps the types; fairness is not needed. *)
LEMMA TypeSafe == SafetySpec => []TypeOK
<1>1. Init => TypeOK
  <2> SUFFICES ASSUME Init PROVE TypeOK
    OBVIOUS
  <2>1. attempt \in [Node -> 0..MaxAttempts] /\ att \in [Node -> 0..MaxAttempts]
    BY BoundAssumption DEF Init
  <2>2. commands \in 0..MaxCommands /\ crashes \in 0..MaxCrashes /\ dbErrors \in 0..MaxDbErrors
    BY BoundAssumption DEF Init
  <2> QED
    BY <2>1, <2>2 DEF Init, TypeOK, RunState, NodeState, DrivePc, ExecPc, CmdPc
<1>2. TypeOK /\ [Next]_vars => TypeOK'
  <2> SUFFICES ASSUME TypeOK, [Next]_vars PROVE TypeOK'
    OBVIOUS
  <2> USE DEF TypeOK
  <2>1. CASE DriveStep
    <3>1. CASE DriveAcquire
      BY <3>1 DEF DriveAcquire, DrivePc, durable, driveVars, locals, futures, registry, world,
           bounds
    <3>2. CASE DriveCheck
      BY <3>2 DEF DriveCheck, DrivePc, durable, driveVars, locals, futures, registry, world,
           bounds
    <3>3. CASE DriveBegin
      BY <3>3 DEF DriveBegin, RegistryBegin, RunState, DrivePc, durable, locals, futures, bounds
    <3>4. CASE DriveEnter
      BY <3>4 DEF DriveEnter, DrivePc, durable, locals, futures, registry, world, bounds
    <3>5. CASE DriveStart
      BY <3>5 DEF DriveStart, SetRunStateIfLegal, Moved, RunState, DrivePc, locals, futures,
                  registry, world, bounds
    <3>6. ASSUME NEW n \in Node, DriveReset(n) PROVE TypeOK'
      BY <3>6 DEF DriveReset, TransitionNode, NodeState, driveVars, locals, futures, registry,
           world, bounds
    <3>7. CASE DriveRound
      BY <3>7 DEF DriveRound, DrivePc, durable, futures, registry, world, bounds
    <3>8. CASE DriveFrontier
      BY <3>8 DEF DriveFrontier, Ready, DrivePc, durable, futures, registry, world, bounds
    <3>9. CASE DriveFill
      BY <3>9 DEF DriveFill, Launchable, ExecPc, DrivePc, durable, registry, world, bounds
    <3>10. CASE DriveRecheck
      BY <3>10 DEF DriveRecheck, DrivePc, durable, futures, registry, world, bounds
    <3>11. CASE DriveReread
      BY <3>11 DEF DriveReread, DrivePc, durable, futures, registry, world, bounds
    <3>12. ASSUME NEW n \in Node, DriveCollect(n) PROVE TypeOK'
      <4>1. att' \in [Node -> 0..MaxAttempts]
        BY <3>12, BoundAssumption DEF DriveCollect
      <4>2. exec' \in [Node -> ExecPc]
        BY <3>12 DEF DriveCollect, ExecPc
      <4>3. stop' \in BOOLEAN /\ erred' \in BOOLEAN /\ drive' \in DrivePc
        BY <3>12 DEF DriveCollect, DrivePc
      <4> QED
        BY <3>12, <4>1, <4>2, <4>3 DEF DriveCollect, durable, registry, world, bounds
    <3>13. CASE DriveFinal
      BY <3>13 DEF DriveFinal, RunState, DrivePc, durable, futures, registry, world, bounds
    <3>14. CASE DriveSettle
      BY <3>14 DEF DriveSettle, SetRunStateIfLegal, Moved, DrivePc, locals, futures, registry,
           world, bounds
    <3>15. CASE DriveAbort
      BY <3>15 DEF DriveAbort, RunState, DrivePc, futures, registry, world, bounds
    <3>16. CASE DrivePublish
      BY <3>16 DEF DrivePublish, DrivePc, durable, locals, futures, registry, bounds
    <3>17. CASE DriveFinish
      BY <3>17 DEF DriveFinish, RegistryFinish, DrivePc, durable, futures, world, bounds
    <3> QED
      BY <2>1, <3>1, <3>2, <3>3, <3>4, <3>5, <3>6, <3>7, <3>8, <3>9, <3>10, <3>11, <3>12, <3>13,
         <3>14, <3>15, <3>16, <3>17 DEF DriveStep
  <2>2. ASSUME NEW n \in Node, NodeStep(n) PROVE TypeOK'
    <3>1. CASE NodeReadAttempt(n)
      BY <3>1, BoundAssumption DEF NodeReadAttempt, NodeGoes, world, ExecPc, durable, registry,
           driveVars, locals, bounds
    <3>2. CASE NodeRun(n)
      BY <3>2 DEF NodeRun, TransitionNode, NodeGoes, world, NodeState, ExecPc, registry,
           driveVars, locals, bounds
    <3>3. CASE NodeAgent(n) \/ NodeParkRegister(n)
      BY <3>3 DEF NodeAgent, NodeParkRegister, RegistryRegister, NodeGoes, world, ExecPc, durable,
                  driveVars, locals, bounds
    <3>4. CASE NodeTool(n)
      BY <3>4 DEF NodeTool, NodeGoes, world, ExecPc, durable, registry, driveVars, locals, bounds
    <3>5. CASE NodePark(n)
      BY <3>5 DEF NodePark, TransitionNode, NodeGoes, world, NodeState, ExecPc, registry,
           driveVars, locals, bounds
    <3>6. CASE \E o \in {"blocked", "failed"} : NodeGate(n, o)
      BY <3>6 DEF NodeGate, NodeGoes, world, ExecPc, durable, registry, driveVars, locals, bounds
    <3>7. CASE \E o \in {"completed", "blocked", "failed"} : NodeOutcome(n, o) \/ NodeEffect(n, o)
      BY <3>7 DEF NodeOutcome, NodeEffect, RegistryDeregister, NodeGoes, world, ExecPc, durable,
           registry, driveVars, locals, bounds
    <3>8. CASE NodeParkCancelled(n)
      BY <3>8 DEF NodeParkCancelled, BankWrite, TransitionNode, NodeState, RegistryDeregister,
           NodeGoes, world, ExecPc, driveVars, locals, bounds
    <3>9. CASE NodeUnpark(n)
      BY <3>9 DEF NodeUnpark, TransitionNode, NodeGoes, world, NodeState, ExecPc, registry,
           driveVars, locals, bounds
    <3>10. CASE NodeCompleted(n) \/ NodeBlocked(n) \/ NodeFailed(n)
      BY <3>10 DEF NodeCompleted, NodeBlocked, NodeFailed, TransitionNode, NodeGoes, world,
           NodeState, ExecPc, registry, driveVars, locals, bounds
    <3>11. CASE NodePauseRun(n)
      BY <3>11 DEF NodePauseRun, SetRunStateIfLegal, Moved, NodeGoes, world, RunState, ExecPc,
           registry, driveVars, locals, bounds
    <3>12. CASE NodeRetry(n)
      <4>1. att[n] + 1 \in 0..MaxAttempts
        BY <3>12, BoundAssumption DEF NodeRetry
      <4> QED
        BY <3>12, <4>1 DEF NodeRetry, TransitionNode, NodeGoes, world, NodeState, ExecPc,
             registry, driveVars, locals, bounds
    <3> QED
      BY <2>2, <3>1, <3>2, <3>3, <3>4, <3>5, <3>6, <3>7, <3>8, <3>9, <3>10, <3>11, <3>12
      DEF NodeStep
  <2>3. ASSUME NEW n \in Node, Decide(n) PROVE TypeOK'
    BY <2>3 DEF Decide, NodeDecided, RegistryDeregister, NodeGoes, world, ExecPc, durable,
         driveVars, locals, bounds
  <2>4. ASSUME NEW n \in Node, NodeFault(n) PROVE TypeOK'
    BY <2>4, BoundAssumption DEF NodeFault, NodeDbError,
       NodeParkFails, BankWrite, TransitionNode, NodeState, ExecPc, durable, driveVars, locals,
       registry
  <2>5. ASSUME NEW c \in Client, HandlerStep(c) PROVE TypeOK'
    <3>1. CASE PausePublish(c) \/ CancelPublish(c)
      BY <3>1 DEF PausePublish, CancelPublish, RunState, CmdPc, durable, driveVars, locals,
           futures, registry, bounds
    <3>2. CASE CancelSkip(c)
      BY <3>2 DEF CancelSkip, SkipPendingNodes, NodeState, CmdPc, driveVars, locals, futures,
                  registry, bounds
    <3>3. CASE CancelFire(c)
      <4>1. cmd' \in [Client -> CmdPc] /\ fired' \in SUBSET Node
        BY <3>3 DEF CancelFire, RegistryCancel, CmdPc
      <4>2. acked' \in BOOLEAN /\ cancelled' \in BOOLEAN
        BY <3>3, Zenon DEF CancelFire, RegistryCancel
      <4> QED
        BY <3>3, <4>1, <4>2 DEF CancelFire, RegistryCancel, durable, driveVars, locals, futures,
                                bounds
    <3>4. CASE RetryRejected(c)
      BY <3>4 DEF RetryRejected, CmdPc, durable, driveVars, locals, futures, registry, bounds
    <3>5. ASSUME NEW n \in Node, RetryReset(c, n) PROVE TypeOK'
      <4>1. nodeState' \in [Node -> NodeState] /\ attempt' \in [Node -> 0..MaxAttempts]
        BY <3>5, BoundAssumption DEF RetryReset, RetryFromNode, NodeState
      <4>2. cmd' \in [Client -> CmdPc] /\ runState' \in RunState /\ queued' \in Nat
        BY <3>5 DEF RetryReset, RetryFromNode, SpawnDrive, CmdPc, RunState
      <4> QED
        BY <3>5, <4>1, <4>2 DEF RetryReset, locals, futures, registry, bounds
    <3> QED
      BY <2>5, <3>1, <3>2, <3>3, <3>4, <3>5 DEF HandlerStep
  <2>6. ASSUME NEW c \in Client, Command(c) PROVE TypeOK'
    <3> USE BoundAssumption DEF Issue
    <3>1. CASE StartAgain(c)
      BY <3>1 DEF StartAgain, SpawnDrive, durable, locals, futures, registry
    <3>2. CASE Pause(c)
      BY <3>2 DEF Pause, SetRunStateIfLegal, Moved, RunState, CmdPc, driveVars, locals, futures,
                  registry
    <3>3. CASE Resume(c)
      BY <3>3 DEF Resume, SetRunStateIfLegal, Moved, SpawnDrive, RunState, locals, futures,
           registry
    <3>4. CASE Retry(c)
      BY <3>4 DEF Retry, CmdPc, durable, driveVars, locals, futures, registry
    <3>5. CASE Cancel(c)
      BY <3>5 DEF Cancel, SetRunStateIfLegal, Moved, RunState, CmdPc, driveVars, locals, futures,
                  registry
    <3> QED
      BY <2>6, <3>1, <3>2, <3>3, <3>4, <3>5 DEF Command
  <2>7. CASE DriveDbError
    BY <2>7, BoundAssumption DEF DriveDbError, ExecPc, DrivePc, durable, locals, registry
  <2>8. CASE CrashRestart
    <3>1. compiles' \in BOOLEAN
      BY <2>8, Zenon DEF CrashRestart
    <3>2. att' \in [Node -> 0..MaxAttempts] /\ exec' \in [Node -> ExecPc]
          /\ crashes' \in 0..MaxCrashes
      BY <2>8, BoundAssumption DEF CrashRestart, ExecPc
    <3> QED
      BY <2>8, <3>1, <3>2 DEF CrashRestart, RunState, DrivePc, CmdPc, durable
  <2>9. CASE UNCHANGED vars
    BY <2>9 DEF vars, durable, driveVars, locals, futures, registry, world, bounds
  <2> QED
    BY <2>1, <2>2, <2>3, <2>4, <2>5, <2>6, <2>7, <2>8, <2>9 DEF Next
<1> QED
  BY <1>1, <1>2, PTL DEF SafetySpec

(* Every variable keeps its type; the attempts of a node stay within the   *)
(* retry policy's limit.                                                   *)
THEOREM TypeCorrect == Spec => []TypeOK
  BY TypeSafe DEF Spec

----------------------------------------------------------------------------
(* The run row and its drive *)

(* No future is in flight while a drive is outside its wave loop, and a    *)
(* wave that was halted by a state change is marked so only inside a wave  *)
(* or on the way out.                                                      *)
EarlyDrive == {"idle", "check", "begin", "enter", "reset", "round", "frontier"}

(* The strengthening that makes NoStrandedRun and CompletedRunIsDone       *)
(* inductive.                                                              *)
RunInv ==
    /\ NoOrphanFuture
    /\ drive \in EarlyDrive => ~halted
    /\ erred => dbErrors > 0
    /\ \A n \in Node : exec[n] = "error" => dbErrors > 0
    /\ drive = "settle" => result \in {"completed", "failed"}
    /\ (drive = "settle" /\ result = "completed") => \A n \in Node : nodeState[n] = "completed"
    /\ runState = "completed" => drive \in {"idle", "check", "publish", "finish"}
    /\ runState = "pending" =>
          drive \in {"idle", "check", "begin", "enter", "reset", "abort", "finish"}
    /\ CompletedRunIsDone
    /\ NoStrandedRun

(* A run starts consistent. *)
LEMMA RunInvInit == Init => RunInv
  BY DEF Init, RunInv, NoOrphanFuture, Inflight, EarlyDrive, CompletedRunIsDone, NoStrandedRun

(* The drive keeps the run consistent. *)
LEMMA RunInvDrive == TypeOK /\ RunInv /\ DriveStep => RunInv'
<1> SUFFICES ASSUME TypeOK, RunInv, DriveStep PROVE RunInv'
  OBVIOUS
<1> USE DEF TypeOK, RunInv, NoOrphanFuture, Inflight, EarlyDrive, CompletedRunIsDone,
            NoStrandedRun, LastLook, durable, locals, futures, registry, world, bounds
<1>1. CASE DriveAcquire
  BY <1>1 DEF DriveAcquire
<1>2. CASE DriveCheck
  BY <1>2 DEF DriveCheck, IsTerminal
<1>3. CASE DriveBegin
  BY <1>3 DEF DriveBegin
<1>4. CASE DriveEnter
  BY <1>4 DEF DriveEnter
<1>5. CASE DriveStart
  BY <1>5 DEF DriveStart, SetRunStateIfLegal, Moved
<1>6. CASE DriveRound
  BY <1>6 DEF DriveRound
<1>7. CASE DriveFrontier
  BY <1>7 DEF DriveFrontier
<1>8. CASE DriveFill
  BY <1>8 DEF DriveFill, Launchable
<1>9. CASE DriveRecheck
  BY <1>9 DEF DriveRecheck
<1>10. CASE DriveReread
  BY <1>10 DEF DriveReread
<1>11. CASE DriveFinal
  BY <1>11 DEF DriveFinal
<1>12. CASE DriveSettle
  BY <1>12 DEF DriveSettle, SetRunStateIfLegal, Moved
<1>13. CASE DriveAbort
  BY <1>13 DEF DriveAbort
<1>14. CASE DrivePublish
  BY <1>14 DEF DrivePublish
<1>15. CASE DriveFinish
  BY <1>15 DEF DriveFinish
<1>16. ASSUME NEW n \in Node, DriveReset(n) PROVE RunInv'
  BY <1>16 DEF DriveReset, TransitionNode, driveVars
<1>17. ASSUME NEW n \in Node, DriveCollect(n) PROVE RunInv'
  BY <1>17 DEF DriveCollect
<1> QED
  BY <1>1, <1>2, <1>3, <1>4, <1>5, <1>6, <1>7, <1>8, <1>9, <1>10, <1>11, <1>12,
     <1>13, <1>14, <1>15, <1>16, <1>17 DEF DriveStep

(* A node's steps keep the run consistent. *)
LEMMA RunInvNode ==
    ASSUME TypeOK, RunInv, NEW n \in Node, NodeStep(n) \/ Decide(n) \/ NodeFault(n)
    PROVE  RunInv'
<1> USE DEF TypeOK, RunInv, NoOrphanFuture, Inflight, EarlyDrive, CompletedRunIsDone,
            NoStrandedRun, LastLook, durable, driveVars, locals, world, bounds
<1>1. exec[n] # "idle" => drive \in {"fill", "await", "recheck"} /\ runState # "completed"
  BY DEF DrivePc
<1>2. CASE NodeReadAttempt(n)
  BY <1>1, <1>2 DEF NodeReadAttempt, NodeGoes
<1>3. CASE NodeRun(n)
  BY <1>1, <1>3 DEF NodeRun, TransitionNode, NodeGoes
<1>4. CASE NodeAgent(n) \/ NodeTool(n) \/ NodeParkRegister(n)
  BY <1>1, <1>4 DEF NodeAgent, NodeTool, NodeParkRegister, NodeGoes
<1>5. CASE NodePark(n)
  BY <1>1, <1>5 DEF NodePark, TransitionNode, NodeGoes
<1>6. CASE \E o \in {"blocked", "failed"} : NodeGate(n, o)
  BY <1>1, <1>6 DEF NodeGate, NodeGoes
<1>7. CASE \E o \in {"completed", "blocked", "failed"} : NodeOutcome(n, o) \/ NodeEffect(n, o)
  BY <1>1, <1>7 DEF NodeOutcome, NodeEffect, NodeGoes
<1>8. CASE NodeParkCancelled(n)
  BY <1>1, <1>8 DEF NodeParkCancelled, BankWrite, NodeGoes
<1>9. CASE NodeUnpark(n)
  BY <1>1, <1>9 DEF NodeUnpark, TransitionNode, NodeGoes
<1>10. CASE NodeCompleted(n) \/ NodeBlocked(n) \/ NodeFailed(n)
  BY <1>1, <1>10 DEF NodeCompleted, NodeBlocked, NodeFailed, TransitionNode, NodeGoes
<1>11. CASE NodePauseRun(n)
  BY <1>1, <1>11 DEF NodePauseRun, SetRunStateIfLegal, Moved, NodeGoes
<1>12. CASE NodeRetry(n)
  BY <1>1, <1>12 DEF NodeRetry, TransitionNode, NodeGoes
<1>13. CASE Decide(n)
  BY <1>1, <1>13 DEF Decide, NodeDecided, NodeGoes
<1>14. CASE NodeFault(n)
  BY <1>1, <1>14 DEF NodeFault, NodeDbError,
       NodeParkFails, BankWrite, NodeGoes
<1> QED
  BY <1>2, <1>3, <1>4, <1>5, <1>6, <1>7, <1>8, <1>9, <1>10, <1>11, <1>12, <1>13, <1>14 DEF NodeStep

(* Commands keep the run consistent. *)
LEMMA RunInvClient ==
    ASSUME TypeOK, RunInv, NEW c \in Client, HandlerStep(c) \/ Command(c)
    PROVE  RunInv'
<1> USE DEF TypeOK, RunInv, NoOrphanFuture, Inflight, EarlyDrive, CompletedRunIsDone,
            NoStrandedRun, LastLook, durable, driveVars, locals, futures, bounds, Issue
<1>1. CASE PausePublish(c) \/ CancelPublish(c)
  BY <1>1 DEF PausePublish, CancelPublish
<1>2. CASE CancelSkip(c)
  BY <1>2 DEF CancelSkip, SkipPendingNodes
<1>3. CASE CancelFire(c)
  BY <1>3 DEF CancelFire
<1>4. CASE RetryRejected(c)
  BY <1>4 DEF RetryRejected
<1>5. CASE \E n \in Node : RetryReset(c, n)
  BY <1>5 DEF RetryReset, RetryFromNode, SpawnDrive
<1>6. CASE StartAgain(c)
  BY <1>6 DEF StartAgain, SpawnDrive
<1>7. CASE Pause(c)
  BY <1>7 DEF Pause, SetRunStateIfLegal, Moved
<1>8. CASE Resume(c)
  BY <1>8 DEF Resume, SetRunStateIfLegal, Moved, SpawnDrive
<1>9. CASE Retry(c)
  BY <1>9 DEF Retry
<1>10. CASE Cancel(c)
  BY <1>10 DEF Cancel, SetRunStateIfLegal, Moved
<1> QED
  BY <1>1, <1>2, <1>3, <1>4, <1>5, <1>6, <1>7, <1>8, <1>9, <1>10 DEF HandlerStep, Command

(* The run row and its drive stay consistent along every behaviour. *)
LEMMA RunSafe == SafetySpec => []RunInv
<1>1. TypeOK /\ RunInv /\ [Next]_vars => RunInv'
  <2> SUFFICES ASSUME TypeOK, RunInv, [Next]_vars PROVE RunInv'
    OBVIOUS
  <2>1. CASE DriveDbError
    BY <2>1 DEF DriveDbError, TypeOK, RunInv, NoOrphanFuture, Inflight, EarlyDrive,
                CompletedRunIsDone, NoStrandedRun, LastLook, durable, locals
  <2>2. CASE CrashRestart
    BY <2>2 DEF CrashRestart, TypeOK, RunInv, NoOrphanFuture, Inflight, EarlyDrive,
                CompletedRunIsDone, NoStrandedRun, LastLook, durable
  <2>3. CASE UNCHANGED vars
    BY <2>3 DEF vars, RunInv, NoOrphanFuture, Inflight, EarlyDrive, CompletedRunIsDone,
                NoStrandedRun, LastLook, durable, driveVars, locals, futures, world, bounds
  <2> QED
    BY <2>1, <2>2, <2>3, RunInvDrive, RunInvNode, RunInvClient DEF Next
<1> QED
  BY <1>1, RunInvInit, TypeSafe, PTL DEF SafetySpec

(* A run that can advance is never left without a drive, whatever commands *)
(* and crashes interleave with the drive that is ending.                   *)
THEOREM NeverStranded == Spec => []NoStrandedRun
  BY RunSafe, PTL DEF RunInv, Spec

(* A run recorded as completed has all its nodes completed. *)
THEOREM CompletedIsDone == Spec => []CompletedRunIsDone
  BY RunSafe, PTL DEF RunInv, Spec

(* No node future outlives the wave that polls it, so a retry that holds   *)
(* the lock cannot be overwritten by an earlier attempt.                   *)
THEOREM NoFutureEscapes == Spec => []NoOrphanFuture
  BY RunSafe, PTL DEF RunInv, Spec

----------------------------------------------------------------------------
(* The node rows and the futures that write them *)

InWave == drive \in {"fill", "await", "recheck"}

(* The strengthening that makes DependencyOrder inductive: what is queued  *)
(* for launch has its inputs, an executing node is not completed, and its  *)
(* local attempt is not behind the recorded one.                           *)
NodeInv ==
    /\ InWave => \A n \in wave : /\ exec[n] = "idle" /\ nodeState[n] # "completed"
                                 /\ \A d \in DependsOn[n] : nodeState[d] = "completed"
    /\ \A n \in Executing : nodeState[n] # "completed"
    /\ \A n \in Node : exec[n] \notin {"idle", "launched", "error"} => att[n] >= attempt[n]
    /\ DependencyOrder

(* The rows start consistent. *)
LEMMA NodeInvInit == Init => NodeInv
  BY DEF Init, NodeInv, InWave, Executing, DependencyOrder

(* The drive keeps the rows and futures consistent. *)
LEMMA NodeInvDrive == TypeOK /\ RunInv /\ NodeInv /\ DriveStep => NodeInv'
<1> SUFFICES ASSUME TypeOK, RunInv, NodeInv, DriveStep PROVE NodeInv'
  OBVIOUS
<1> USE GraphAssumption DEF TypeOK, RunInv, NoOrphanFuture, Inflight, NodeInv, InWave, Executing,
            DependencyOrder, durable, locals, futures, registry, world, bounds
<1>1. CASE DriveAcquire
  BY <1>1 DEF DriveAcquire
<1>2. CASE DriveCheck
  BY <1>2 DEF DriveCheck
<1>3. CASE DriveBegin
  BY <1>3 DEF DriveBegin
<1>4. CASE DriveEnter
  BY <1>4 DEF DriveEnter
<1>5. CASE DriveStart
  BY <1>5 DEF DriveStart
<1>6. CASE DriveRound
  BY <1>6 DEF DriveRound
<1>7. CASE DriveFrontier
  BY <1>7 DEF DriveFrontier, Ready
<1>8. CASE DriveFill
  BY <1>8 DEF DriveFill, Launchable
<1>9. CASE DriveRecheck
  BY <1>9 DEF DriveRecheck
<1>10. CASE DriveReread
  BY <1>10 DEF DriveReread
<1>11. CASE DriveFinal
  BY <1>11 DEF DriveFinal
<1>12. CASE DriveSettle
  BY <1>12 DEF DriveSettle
<1>13. CASE DriveAbort
  BY <1>13 DEF DriveAbort
<1>14. CASE DrivePublish
  BY <1>14 DEF DrivePublish
<1>15. CASE DriveFinish
  BY <1>15 DEF DriveFinish
<1>16. ASSUME NEW n \in Node, DriveReset(n) PROVE NodeInv'
  BY <1>16 DEF DriveReset, Interrupted, TransitionNode, driveVars
<1>17. ASSUME NEW n \in Node, DriveCollect(n) PROVE NodeInv'
  BY <1>17 DEF DriveCollect
<1> QED
  BY <1>1, <1>2, <1>3, <1>4, <1>5, <1>6, <1>7, <1>8, <1>9, <1>10, <1>11, <1>12,
     <1>13, <1>14, <1>15, <1>16, <1>17 DEF DriveStep

(* A node's steps keep the rows and futures consistent. *)
LEMMA NodeInvNode ==
    ASSUME TypeOK, RunInv, NodeInv, NEW n \in Node, NodeStep(n) \/ Decide(n) \/ NodeFault(n)
    PROVE  NodeInv'
<1> USE GraphAssumption DEF TypeOK, NodeInv, InWave, Executing, DependencyOrder, durable,
            driveVars, locals, NodeGoes
<1>1. CASE NodeReadAttempt(n)
  BY <1>1 DEF NodeReadAttempt
<1>2. CASE NodeRun(n)
  BY <1>2 DEF NodeRun, TransitionNode
<1>3. CASE NodeAgent(n) \/ NodeTool(n) \/ NodeParkRegister(n)
  BY <1>3 DEF NodeAgent, NodeTool, NodeParkRegister
<1>4. CASE NodePark(n)
  BY <1>4 DEF NodePark, TransitionNode
<1>5. CASE \E o \in {"blocked", "failed"} : NodeGate(n, o)
  BY <1>5 DEF NodeGate
<1>6. CASE \E o \in {"completed", "blocked", "failed"} : NodeOutcome(n, o) \/ NodeEffect(n, o)
  BY <1>6 DEF NodeOutcome, NodeEffect
<1>7. CASE NodeParkCancelled(n)
  BY <1>7 DEF NodeParkCancelled, BankWrite, TransitionNode
<1>8. CASE NodeUnpark(n)
  BY <1>8 DEF NodeUnpark, TransitionNode
<1>9. CASE NodeCompleted(n) \/ NodeBlocked(n) \/ NodeFailed(n)
  BY <1>9 DEF NodeCompleted, NodeBlocked, NodeFailed, TransitionNode
<1>10. CASE NodePauseRun(n)
  BY <1>10 DEF NodePauseRun
<1>11. CASE NodeRetry(n)
  BY <1>11 DEF NodeRetry, TransitionNode
<1>12. CASE Decide(n)
  BY <1>12 DEF Decide, NodeDecided
<1>13. CASE NodeFault(n)
  BY <1>13 DEF NodeFault, NodeDbError, NodeParkFails, BankWrite, TransitionNode
<1> QED
  BY <1>1, <1>2, <1>3, <1>4, <1>5, <1>6, <1>7, <1>8, <1>9, <1>10, <1>11, <1>12, <1>13 DEF NodeStep

(* Commands keep the rows and futures consistent. *)
LEMMA NodeInvClient ==
    ASSUME TypeOK, RunInv, NodeInv, NEW c \in Client, HandlerStep(c) \/ Command(c)
    PROVE  NodeInv'
<1> USE GraphAssumption DEF TypeOK, RunInv, NoOrphanFuture, Inflight, NodeInv, InWave, Executing,
            DependencyOrder, durable, driveVars, locals, futures
<1>1. CASE PausePublish(c) \/ CancelPublish(c)
  BY <1>1 DEF PausePublish, CancelPublish
<1>2. CASE CancelSkip(c)
  BY <1>2 DEF CancelSkip, SkipPendingNodes
<1>3. CASE CancelFire(c)
  BY <1>3 DEF CancelFire
<1>4. CASE RetryRejected(c)
  BY <1>4 DEF RetryRejected
<1>5. CASE \E n \in Node : RetryReset(c, n)
  <2>1. drive = "idle" /\ drive' = "idle" /\ exec' = exec
    BY <1>5 DEF RetryReset
  <2>2. Executing' = {} /\ \A n \in Node : exec'[n] = "idle"
    BY <2>1
  <2> QED
    BY <2>1, <2>2
<1>6. CASE StartAgain(c)
  BY <1>6 DEF StartAgain
<1>7. CASE Pause(c)
  BY <1>7 DEF Pause
<1>8. CASE Resume(c)
  BY <1>8 DEF Resume
<1>9. CASE Retry(c)
  BY <1>9 DEF Retry
<1>10. CASE Cancel(c)
  BY <1>10 DEF Cancel
<1> QED
  BY <1>1, <1>2, <1>3, <1>4, <1>5, <1>6, <1>7, <1>8, <1>9, <1>10 DEF HandlerStep, Command

(* Node rows and futures stay consistent along every behaviour. *)
LEMMA NodesSafe == SafetySpec => []NodeInv
<1>1. TypeOK /\ RunInv /\ NodeInv /\ [Next]_vars => NodeInv'
  <2> SUFFICES ASSUME TypeOK, RunInv, NodeInv, [Next]_vars PROVE NodeInv'
    OBVIOUS
  <2>1. CASE DriveDbError
    BY <2>1 DEF DriveDbError, NodeInv, InWave, Executing, DependencyOrder, durable, locals
  <2>2. CASE CrashRestart
    BY <2>2 DEF CrashRestart, NodeInv, InWave, Executing, DependencyOrder, durable
  <2>3. CASE UNCHANGED vars
    BY <2>3 DEF vars, NodeInv, InWave, Executing, DependencyOrder, durable, driveVars, locals,
                futures
  <2> QED
    BY <2>1, <2>2, <2>3, NodeInvDrive, NodeInvNode, NodeInvClient DEF Next
<1> QED
  BY <1>1, NodeInvInit, TypeSafe, RunSafe, PTL DEF SafetySpec

(* No node executes before its dependencies completed, and none of them    *)
(* stops being completed under it.                                         *)
THEOREM DependenciesHold == Spec => []DependencyOrder
  BY NodesSafe, PTL DEF NodeInv, Spec

(* What one step of the drive may do to a completed row and to an attempt. *)
LEMMA RowsKept == TypeOK /\ RunInv /\ NodeInv /\ [Next]_vars => KeepsCompleted /\ KeepsAttempts
<1> SUFFICES ASSUME TypeOK, NodeInv, [Next]_vars, ~RetryTaken
             PROVE  \A m \in Node : /\ nodeState[m] = "completed" => nodeState'[m] = "completed"
                                    /\ attempt'[m] >= attempt[m]
  BY DEF KeepsCompleted, KeepsAttempts
<1> USE BoundAssumption DEF TypeOK
<1>1. CASE UNCHANGED durable
  BY <1>1 DEF durable
<1>2. CASE UNCHANGED <<nodeState, attempt>>
  BY <1>2
<1>3. ASSUME NEW n \in Node, DriveReset(n)
      PROVE  nodeState[n] # "completed" /\ TransitionNode(n, "pending", attempt[n])
  BY <1>3 DEF DriveReset, Interrupted
<1>4. ASSUME NEW n \in Node, NEW s \in NodeState, NEW x \in Nat, TransitionNode(n, s, x),
             nodeState[n] # "completed", x >= attempt[n]
      PROVE  \A m \in Node : /\ nodeState[m] = "completed" => nodeState'[m] = "completed"
                             /\ attempt'[m] >= attempt[m]
  BY <1>4 DEF TransitionNode
<1>5. CASE DriveStep
  <2>1. CASE \E n \in Node : DriveReset(n)
    BY <2>1, <1>3, <1>4 DEF NodeState
  <2>2. CASE UNCHANGED <<nodeState, attempt>>
    BY <2>2, <1>2
  <2> QED
    BY <1>5, <2>1, <2>2 DEF DriveStep, DriveAcquire, DriveCheck, DriveBegin, DriveEnter,
       DriveStart, DriveRound, DriveFrontier, DriveFill, DriveRecheck, DriveReread, DriveCollect,
       DriveFinal, DriveSettle, DriveAbort, DrivePublish, DriveFinish, durable
<1>6. ASSUME NEW n \in Node, NodeStep(n)
      PROVE  \A m \in Node : /\ nodeState[m] = "completed" => nodeState'[m] = "completed"
                             /\ attempt'[m] >= attempt[m]
  <2>1. CASE NodeRun(n) \/ NodePark(n) \/ NodeUnpark(n) \/ NodeCompleted(n) \/ NodeBlocked(n)
             \/ NodeFailed(n) \/ (NodeParkCancelled(n) /\ TransitionNode(n, "running", att[n]))
    <3>1. nodeState[n] # "completed" /\ att[n] >= attempt[n] /\ att[n] \in Nat
      BY <2>1 DEF NodeInv, Executing, NodeRun, NodePark, NodeUnpark, NodeCompleted, NodeBlocked,
                  NodeFailed, NodeParkCancelled
    <3>2. \E s \in NodeState : TransitionNode(n, s, att[n])
      BY <2>1 DEF NodeState, NodeRun, NodePark, NodeUnpark, NodeCompleted, NodeBlocked, NodeFailed
    <3> QED
      BY <3>1, <3>2, <1>4
  <2>2. CASE NodeRetry(n)
    <3>1. nodeState[n] # "completed" /\ att[n] + 1 >= attempt[n] /\ att[n] + 1 \in Nat
      BY <2>2 DEF NodeInv, Executing, NodeRetry
    <3> QED
      BY <2>2, <3>1, <1>4 DEF NodeRetry, NodeState
  <2>3. CASE UNCHANGED <<nodeState, attempt>>
    BY <2>3, <1>2
  <2> QED
    BY <1>6, <2>1, <2>2, <2>3 DEF NodeStep, NodeReadAttempt, NodeAgent, NodeTool, NodeGate,
       NodeOutcome, NodeEffect, NodeParkRegister, NodeParkCancelled, BankWrite,
       NodePauseRun, durable
<1>7. ASSUME NEW c \in Client, HandlerStep(c) \/ Command(c)
      PROVE  \A m \in Node : /\ nodeState[m] = "completed" => nodeState'[m] = "completed"
                             /\ attempt'[m] >= attempt[m]
  <2>1. CASE CancelSkip(c)
    BY <2>1 DEF CancelSkip, SkipPendingNodes
  <2>2. CASE UNCHANGED <<nodeState, attempt>>
    BY <2>2, <1>2
  <2> QED
    BY <1>7, <2>1, <2>2 DEF HandlerStep, Command, PausePublish, CancelFire, CancelPublish,
       RetryRejected, RetryTaken, StartAgain, Pause, Resume, Retry, Cancel, durable
<1>8. ASSUME NEW n \in Node, Decide(n) \/ NodeFault(n)
      PROVE  \A m \in Node : /\ nodeState[m] = "completed" => nodeState'[m] = "completed"
                             /\ attempt'[m] >= attempt[m]
  <2>1. CASE NodeParkFails(n) /\ TransitionNode(n, "running", att[n])
    <3>1. nodeState[n] # "completed" /\ att[n] >= attempt[n] /\ att[n] \in Nat
      BY <2>1 DEF NodeInv, Executing, NodeParkFails
    <3> QED
      BY <2>1, <3>1, <1>4 DEF NodeState
  <2>2. CASE UNCHANGED <<nodeState, attempt>>
    BY <2>2, <1>2
  <2> QED
    BY <1>8, <2>1, <2>2 DEF Decide, NodeDecided, NodeFault, NodeDbError, NodeParkFails, BankWrite,
       durable
<1>9. CASE DriveDbError \/ CrashRestart \/ UNCHANGED vars
  BY <1>9, <1>1 DEF DriveDbError, CrashRestart, vars
<1> QED
  BY <1>5, <1>6, <1>7, <1>8, <1>9 DEF Next

(* Completed nodes are redone only on a client's retry. *)
THEOREM CompletedKept == Spec => CompletedNodesStay
  BY RowsKept, TypeCorrect, RunSafe, NodesSafe, PTL DEF Spec, SafetySpec, CompletedNodesStay

(* A recorded attempt never goes back except by a client's retry. *)
THEOREM AttemptsKept == Spec => AttemptsOnlyGrow
  BY RowsKept, TypeCorrect, RunSafe, NodesSafe, PTL DEF Spec, SafetySpec, AttemptsOnlyGrow

----------------------------------------------------------------------------
(* What a drive leaves behind *)

(* The strengthening that makes SettledRunHasNoLiveNode inductive: absent  *)
(* crashes and store errors, a row that says running or parked has a       *)
(* future that will still write it.                                        *)
LiveRowHasFuture ==
    (dbErrors = 0 /\ crashes = 0) =>
        \A n \in Node : nodeState[n] \in {"running", "waitingApproval"} =>
                         exec[n] \notin {"idle", "pausing", "done", "error"}

(* No step lets a future end before its row left running. *)
LEMMA LiveRowKept == TypeOK /\ LiveRowHasFuture /\ [Next]_vars => LiveRowHasFuture'
<1> SUFFICES ASSUME TypeOK, LiveRowHasFuture, [Next]_vars PROVE LiveRowHasFuture'
  OBVIOUS
<1> USE DEF TypeOK, LiveRowHasFuture
<1>1. ASSUME NEW n \in Node, DriveReset(n) PROVE LiveRowHasFuture'
  BY <1>1 DEF DriveReset, TransitionNode, driveVars, futures, world, bounds
<1>2. ASSUME NEW n \in Node, DriveCollect(n) PROVE LiveRowHasFuture'
  BY <1>2 DEF DriveCollect, durable, world, bounds
<1>3. CASE DriveFill
  BY <1>3 DEF DriveFill, durable, world, bounds
<1>4. CASE \/ DriveAcquire \/ DriveCheck \/ DriveBegin \/ DriveEnter \/ DriveStart
           \/ DriveRound \/ DriveFrontier \/ DriveRecheck \/ DriveReread
           \/ DriveFinal \/ DriveSettle \/ DriveAbort \/ DrivePublish \/ DriveFinish
  <2>1. UNCHANGED <<nodeState, exec, dbErrors, crashes>>
    BY <1>4 DEF DriveAcquire, DriveCheck, DriveBegin, DriveEnter, DriveStart, DriveRound,
                DriveFrontier, DriveRecheck, DriveReread, DriveFinal, DriveSettle, DriveAbort,
                DrivePublish, DriveFinish, durable, futures, world, bounds
  <2> QED
    BY <2>1
<1>5. ASSUME NEW n \in Node, NodeStep(n) \/ Decide(n) PROVE LiveRowHasFuture'
  <2> USE DEF NodeGoes, TransitionNode, durable, world, bounds
  <2>1. CASE NodeReadAttempt(n) \/ NodeRun(n) \/ NodeAgent(n) \/ NodeTool(n) \/ NodePark(n)
    BY <2>1 DEF NodeReadAttempt, NodeRun, NodeAgent, NodeTool, NodePark
  <2>2. CASE \E o \in {"blocked", "failed"} : NodeGate(n, o)
    BY <2>2 DEF NodeGate
  <2>3. CASE \E o \in {"completed", "blocked", "failed"} : NodeOutcome(n, o) \/ NodeEffect(n, o)
    BY <2>3 DEF NodeOutcome, NodeEffect
  <2>4. CASE NodeParkRegister(n) \/ NodeParkCancelled(n) \/ NodeUnpark(n)
    BY <2>4 DEF NodeParkRegister, NodeParkCancelled, NodeUnpark, BankWrite
  <2>5. CASE NodeCompleted(n) \/ NodeBlocked(n) \/ NodeRetry(n) \/ NodeFailed(n)
    BY <2>5 DEF NodeCompleted, NodeBlocked, NodeRetry, NodeFailed
  <2>6. CASE NodePauseRun(n)
    BY <2>6 DEF NodePauseRun
  <2>7. CASE Decide(n)
    BY <2>7 DEF Decide, NodeDecided
  <2> QED
    BY <1>5, <2>1, <2>2, <2>3, <2>4, <2>5, <2>6, <2>7 DEF NodeStep
<1>6. CASE (\E n \in Node : NodeFault(n)) \/ DriveDbError \/ CrashRestart
  BY <1>6 DEF NodeFault, NodeDbError, NodeParkFails, DriveDbError, CrashRestart
<1>7. ASSUME NEW c \in Client, HandlerStep(c) \/ Command(c) PROVE LiveRowHasFuture'
  <2>1. UNCHANGED <<exec, dbErrors, crashes>>
    BY <1>7 DEF HandlerStep, Command, PausePublish, CancelSkip, CancelFire, CancelPublish,
                RetryRejected, RetryReset, StartAgain, Pause, Resume, Retry, Cancel, Issue,
                futures, bounds
  <2>2. \A m \in Node : nodeState'[m] \in {nodeState[m], "pending", "skipped"}
    BY <1>7 DEF HandlerStep, Command, PausePublish, CancelSkip, CancelFire, CancelPublish,
                RetryRejected, RetryReset, RetryFromNode, SkipPendingNodes, StartAgain, Pause,
                Resume, Retry, Cancel, durable
  <2> QED
    BY <2>1, <2>2
<1>8. CASE UNCHANGED vars
  BY <1>8 DEF vars, durable, futures, world, bounds
<1> QED
  BY <1>1, <1>2, <1>3, <1>4, <1>5, <1>6, <1>7, <1>8 DEF Next, DriveStep

(* Rows and futures agree along every behaviour without faults. *)
LEMMA LiveRowsSafe == SafetySpec => []LiveRowHasFuture
<1>1. Init => LiveRowHasFuture
  BY DEF Init, LiveRowHasFuture
<1> QED
  BY <1>1, LiveRowKept, TypeSafe, PTL DEF SafetySpec

(* Absent crashes and store errors, a drive that ended left no row running *)
(* or parked, however its wave was stopped: by a cancel, a pause, a failed *)
(* node or a block (drive.rs: the drain of run_observed's in-flight set).  *)
THEOREM NothingLeftRunning == Spec => []SettledRunHasNoLiveNode
<1>1. TypeOK /\ RunInv /\ LiveRowHasFuture => SettledRunHasNoLiveNode
  BY DEF RunInv, NoOrphanFuture, Inflight, LiveRowHasFuture, SettledRunHasNoLiveNode
<1> QED
  BY <1>1, TypeSafe, RunSafe, LiveRowsSafe, PTL DEF Spec

----------------------------------------------------------------------------
(* Accepted commands *)

(* As long as no restart brings a binary that rejects the manifest, no     *)
(* drive aborts, and then only commands undo an accepted pause or cancel.  *)
CompilesInv == compiles = TRUE /\ drive # "abort"

(* A restart with the same binary keeps the manifest compiling. *)
LEMMA CompilesKept ==
    ASSUME ~MayUpgrade PROVE TypeOK /\ CompilesInv /\ [Next]_vars => CompilesInv'
<1> SUFFICES ASSUME TypeOK, CompilesInv, [Next]_vars PROVE CompilesInv'
  OBVIOUS
<1> USE DEF CompilesInv
<1>1. CASE DriveStep
  BY <1>1 DEF DriveStep, DriveAcquire, DriveCheck, DriveBegin, DriveEnter, DriveReset, DriveStart,
     DriveRound, DriveFrontier, DriveFill, DriveRecheck, DriveReread, DriveCollect, DriveFinal,
     DriveSettle, DriveAbort, DrivePublish, DriveFinish, driveVars, world
<1>2. ASSUME NEW n \in Node, NodeStep(n) \/ Decide(n) \/ NodeFault(n) PROVE CompilesInv'
  BY <1>2 DEF NodeStep, Decide, NodeReadAttempt, NodeRun, NodeAgent, NodeTool, NodePark, NodeGate,
     NodeOutcome, NodeEffect, NodeParkRegister, NodeParkCancelled, NodeUnpark, NodeCompleted,
     NodeBlocked, NodePauseRun, NodeRetry, NodeFailed, NodeDecided, NodeFault,
       NodeDbError, NodeParkFails, BankWrite, NodeGoes,
     driveVars, world
<1>3. ASSUME NEW c \in Client, HandlerStep(c) \/ Command(c) PROVE CompilesInv'
  BY <1>3 DEF HandlerStep, Command, PausePublish, CancelSkip, CancelFire, CancelPublish,
     RetryRejected, RetryReset, StartAgain, Pause, Resume, Retry, Cancel, driveVars
<1>4. CASE DriveDbError
  BY <1>4 DEF DriveDbError
<1>5. CASE CrashRestart
  BY <1>5 DEF CrashRestart
<1>6. CASE UNCHANGED vars
  BY <1>6 DEF vars, driveVars, world
<1> QED
  BY <1>1, <1>2, <1>3, <1>4, <1>5, <1>6 DEF Next

(* No step but a command moves an accepted run state. *)
LEMMA AcceptedKept == TypeOK /\ CompilesInv /\ [Next]_vars => KeepsAccepted
<1> SUFFICES ASSUME TypeOK, CompilesInv, [Next]_vars, runState \in {"paused", "cancelled"},
                    ~CommandTaken
             PROVE  runState' = runState
  BY DEF KeepsAccepted
<1> USE DEF CompilesInv
<1>1. CASE DriveStep
  BY <1>1 DEF DriveStep, DriveAcquire, DriveCheck, DriveBegin, DriveEnter, DriveReset, DriveStart,
     DriveRound, DriveFrontier, DriveFill, DriveRecheck, DriveReread, DriveCollect, DriveFinal,
     DriveSettle, DriveAbort, DrivePublish, DriveFinish, SetRunStateIfLegal, Moved, durable
<1>2. ASSUME NEW n \in Node, NodeStep(n) \/ Decide(n) \/ NodeFault(n) PROVE runState' = runState
  BY <1>2 DEF NodeStep, Decide, NodeReadAttempt, NodeRun, NodeAgent, NodeTool, NodePark, NodeGate,
     NodeOutcome, NodeEffect, NodeParkRegister, NodeParkCancelled, NodeUnpark, NodeCompleted,
     NodeBlocked, NodePauseRun, NodeRetry, NodeFailed, NodeDecided, NodeFault,
       NodeDbError, NodeParkFails, BankWrite,
     SetRunStateIfLegal, Moved, durable
<1>3. ASSUME NEW c \in Client, HandlerStep(c) \/ Command(c) PROVE runState' = runState
  BY <1>3 DEF HandlerStep, Command, CommandTaken, PausePublish, CancelSkip, CancelFire,
     CancelPublish, RetryRejected, StartAgain, Pause, Retry, SetRunStateIfLegal, Moved, durable
<1>4. CASE DriveDbError \/ CrashRestart \/ UNCHANGED vars
  BY <1>4 DEF DriveDbError, CrashRestart, vars, durable
<1> QED
  BY <1>1, <1>2, <1>3, <1>4 DEF Next

(* The driver never wins against an accepted pause or cancel: its writes   *)
(* of the run row are conditional on the state it may leave.               *)
THEOREM CommandsStick == ASSUME ~MayUpgrade PROVE Spec => AcceptedCommandSticks
<1>1. Init => CompilesInv
  BY DEF Init, CompilesInv
<1> QED
  BY <1>1, CompilesKept, AcceptedKept, TypeCorrect, PTL DEF Spec, SafetySpec, AcceptedCommandSticks

----------------------------------------------------------------------------
(* Cancelling a parked node *)

Bracketed == {"enter", "reset", "round", "frontier", "fill", "await", "recheck", "reread", "final",
              "settle", "abort", "publish", "finish"}

(* The begin/finish bracket spans the drive, and from the driver's first   *)
(* look at the run to its last the sticky flag records every cancel that   *)
(* fired while the run was cancelled.                                      *)
CancelInv ==
    /\ driveActive <=> drive \in Bracketed
    /\ acked => runState \in {"cancelled", "failed"}
    /\ (acked /\ runState = "cancelled"
          /\ drive \in Bracketed \ {"enter", "reread", "abort", "publish", "finish"}) => cancelled

(* What a fired cancel leaves behind keeps every token fired or sticky. *)
LEMMA CancelInvKept == TypeOK /\ CancelInv /\ [Next]_vars => CancelInv'
<1> SUFFICES ASSUME TypeOK, CancelInv, [Next]_vars PROVE CancelInv'
  OBVIOUS
<1> USE DEF TypeOK, CancelInv, Bracketed
<1>1. CASE DriveStep
  <2> USE DEF durable, driveVars, registry, world
  <2>1. CASE DriveAcquire \/ DriveCheck \/ DriveRound \/ DriveFrontier \/ DriveFill \/ DriveRecheck
    BY <2>1 DEF DriveAcquire, DriveCheck, DriveRound, DriveFrontier, DriveFill, DriveRecheck
  <2>2. CASE DriveBegin
    BY <2>2 DEF DriveBegin, RegistryBegin
  <2>3. CASE DriveEnter \/ (\E n \in Node : DriveReset(n) \/ DriveCollect(n))
    BY <2>3 DEF DriveEnter, DriveReset, DriveCollect
  <2>4. CASE DriveStart \/ DriveSettle
    BY <2>4 DEF DriveStart, DriveSettle, SetRunStateIfLegal, Moved
  <2>5. CASE DriveReread \/ DriveFinal \/ DriveAbort \/ DrivePublish
    BY <2>5 DEF DriveReread, DriveFinal, DriveAbort, DrivePublish
  <2>6. CASE DriveFinish
    BY <2>6 DEF DriveFinish, RegistryFinish
  <2> QED
    BY <1>1, <2>1, <2>2, <2>3, <2>4, <2>5, <2>6 DEF DriveStep
<1>2. ASSUME NEW n \in Node, NodeStep(n) \/ Decide(n) \/ NodeFault(n) PROVE CancelInv'
  <2>1. UNCHANGED <<cancelled, driveActive, acked, drive>>
    BY <1>2 DEF NodeStep, Decide, NodeReadAttempt, NodeRun, NodeAgent, NodeTool, NodePark,
       NodeGate, NodeOutcome, NodeEffect, NodeParkRegister, NodeParkCancelled, NodeUnpark,
       NodeCompleted, NodeBlocked, NodePauseRun, NodeRetry, NodeFailed, NodeDecided, NodeFault,
       NodeDbError, NodeParkFails, BankWrite,
       NodeGoes, RegistryRegister, RegistryDeregister, registry, driveVars, world
  <2>2. runState' = runState \/ (runState = "running" /\ runState' = "paused")
    BY <1>2 DEF NodeStep, Decide, NodeReadAttempt, NodeRun, NodeAgent, NodeTool, NodePark,
       NodeGate, NodeOutcome, NodeEffect, NodeParkRegister, NodeParkCancelled, NodeUnpark,
       NodeCompleted, NodeBlocked, NodePauseRun, NodeRetry, NodeFailed, NodeDecided, NodeFault,
       NodeDbError, NodeParkFails, BankWrite,
       SetRunStateIfLegal, Moved, durable
  <2> QED
    BY <2>1, <2>2
<1>3. ASSUME NEW c \in Client, HandlerStep(c) \/ Command(c) PROVE CancelInv'
  <2> USE DEF durable, driveVars, registry
  <2>1. CASE PausePublish(c) \/ CancelPublish(c) \/ CancelSkip(c) \/ RetryRejected(c) \/ Retry(c)
             \/ StartAgain(c)
    BY <2>1 DEF PausePublish, CancelPublish, CancelSkip, RetryRejected, Retry, StartAgain
  <2>2. CASE CancelFire(c)
    BY <2>2 DEF CancelFire, RegistryCancel
  <2>3. CASE \E n \in Node : RetryReset(c, n)
    BY <2>3 DEF RetryReset
  <2>4. CASE Pause(c) \/ Resume(c) \/ Cancel(c)
    BY <2>4 DEF Pause, Resume, Cancel, SetRunStateIfLegal, Moved
  <2> QED
    BY <1>3, <2>1, <2>2, <2>3, <2>4 DEF HandlerStep, Command
<1>4. CASE DriveDbError
  BY <1>4 DEF DriveDbError, durable, registry
<1>5. CASE CrashRestart
  BY <1>5 DEF CrashRestart, durable
<1>6. CASE UNCHANGED vars
  BY <1>6 DEF vars, durable, driveVars, registry, world
<1> QED
  BY <1>1, <1>2, <1>3, <1>4, <1>5, <1>6 DEF Next

(* No step starts an effect after a fired cancel. *)
LEMMA NoEffectStarted == TypeOK /\ RunInv /\ CancelInv /\ [Next]_vars => StartsNoEffect
<1> SUFFICES ASSUME TypeOK, RunInv, CancelInv, [Next]_vars, runState = "cancelled", acked,
                    NEW m \in Node, exec'[m] = "effect", exec[m] # "effect"
             PROVE  FALSE
  BY DEF StartsNoEffect
<1> USE DEF TypeOK
<1>1. PICK n \in Node : NodeStep(n) \/ Decide(n) \/ NodeFault(n)
  BY DEF Next, DriveStep, DriveAcquire, DriveCheck, DriveBegin, DriveEnter, DriveReset, DriveStart,
     DriveRound, DriveFrontier, DriveFill, DriveRecheck, DriveReread, DriveCollect, DriveFinal,
     DriveSettle, DriveAbort, DrivePublish, DriveFinish, HandlerStep, Command, PausePublish,
     CancelSkip, CancelFire, CancelPublish, RetryRejected, RetryReset, StartAgain, Pause, Resume,
     Retry, Cancel, DriveDbError, CrashRestart, vars, futures
<1>2. n = m /\ NodeUnpark(m) /\ ~cancelled
  BY <1>1 DEF NodeStep, Decide, NodeReadAttempt, NodeRun, NodeAgent, NodeTool, NodePark, NodeGate,
     NodeOutcome, NodeEffect, NodeParkRegister, NodeParkCancelled, NodeUnpark, NodeCompleted,
     NodeBlocked, NodePauseRun, NodeRetry, NodeFailed, NodeDecided, NodeFault,
       NodeDbError, NodeParkFails, BankWrite, NodeGoes
<1>3. drive \in {"fill", "await", "recheck"}
  BY <1>2 DEF NodeUnpark, RunInv, NoOrphanFuture, Inflight, DrivePc
<1> QED
  BY <1>2, <1>3 DEF CancelInv, Bracketed

(* A cancel that fired is never lost on a node that is parking: it does    *)
(* not reach its effect.                                                   *)
THEOREM NoLateEffect == Spec => NoEffectAfterCancel
<1>1. Init => CancelInv
  BY DEF Init, CancelInv, Bracketed
<1> QED
  BY <1>1, CancelInvKept, NoEffectStarted, TypeCorrect, RunSafe, PTL
     DEF Spec, SafetySpec, NoEffectAfterCancel

----------------------------------------------------------------------------
(* The width of a wave *)

(* Launching fills the free slots and no more. *)
LEMMA FillFits ==
    ASSUME WaveBound, NEW L \in Launchable, wave \in SUBSET Node
    PROVE  Cardinality(Inflight \cup L) <= Concurrency
<1>1. IsFiniteSet(Inflight) /\ IsFiniteSet(L) /\ IsFiniteSet(Inflight \cap L)
  <2>1. Inflight \in SUBSET Node /\ L \in SUBSET Node /\ Inflight \cap L \in SUBSET Node
    BY DEF Inflight, Launchable
  <2> QED
    BY <2>1, GraphAssumption, FS_Subset, Zenon
<1>2. /\ Cardinality(Inflight) \in Nat /\ Cardinality(L) \in Nat
      /\ Cardinality(Inflight \cap L) \in Nat
  BY <1>1, FS_CardinalityType, Zenon
<1>3. Cardinality(Inflight \cup L) =
         Cardinality(Inflight) + Cardinality(L) - Cardinality(Inflight \cap L)
  BY <1>1, FS_Union
<1>4. Cardinality({}) = 0
  BY FS_EmptySet
<1>5. Cardinality(L) <= FreeSlots
  <2>1. CASE stop
    BY <2>1, <1>2, <1>4, BoundAssumption DEF Launchable, FreeSlots
  <2>2. CASE ~stop
    BY <2>2, <1>2, BoundAssumption DEF Launchable, FreeSlots
  <2> QED
    BY <2>1, <2>2
<1> QED
  BY <1>2, <1>3, <1>5, BoundAssumption DEF WaveBound, FreeSlots

(* Futures that end leave the wave within its width. *)
LEMMA FewerFit ==
    ASSUME WaveBound, Inflight' \subseteq Inflight PROVE WaveBound'
<1>1. IsFiniteSet(Inflight)
  <2>1. Inflight \in SUBSET Node
    BY DEF Inflight
  <2> QED
    BY <2>1, GraphAssumption, FS_Subset, Zenon
<1>2. Cardinality(Inflight') <= Cardinality(Inflight) /\ IsFiniteSet(Inflight')
  <2>1. Inflight' \in SUBSET Inflight
    OBVIOUS
  <2> QED
    BY <1>1, <2>1, FS_Subset, Zenon
<1>3. Cardinality(Inflight) \in Nat /\ Cardinality(Inflight') \in Nat
  BY <1>1, <1>2, FS_CardinalityType, Zenon
<1> QED
  BY <1>2, <1>3, BoundAssumption DEF WaveBound

(* No step widens a wave beyond its limit. *)
LEMMA WaveSafe == SafetySpec => []WaveBound
<1>1. Init => WaveBound
  <2> SUFFICES ASSUME Init PROVE WaveBound
    OBVIOUS
  <2>1. Inflight = {}
    BY DEF Init, Inflight
  <2> QED
    BY <2>1, FS_EmptySet, BoundAssumption DEF WaveBound
<1>2. TypeOK /\ WaveBound /\ [Next]_vars => WaveBound'
  <2> SUFFICES ASSUME TypeOK, WaveBound, [Next]_vars PROVE WaveBound'
    OBVIOUS
  <2>1. CASE DriveFill
    <3>1. PICK L \in Launchable :
             exec' = [n \in Node |-> IF n \in L THEN "launched" ELSE exec[n]]
      BY <2>1, Zenon DEF DriveFill
    <3>2. L \subseteq Node
      <4>1. L \subseteq wave
        BY Zenon DEF Launchable
      <4>2. wave \subseteq Node
        BY DEF TypeOK
      <4> QED
        BY <4>1, <4>2
    <3>3. Inflight' = Inflight \cup L
      BY <3>1, <3>2 DEF Inflight
    <3> QED
      BY <3>3, FillFits DEF WaveBound, TypeOK
  <2>2. CASE exec' = exec
    BY <2>2, FewerFit DEF Inflight
  <2>3. ASSUME NEW n \in Node, NodeStep(n) \/ Decide(n) \/ NodeFault(n) PROVE WaveBound'
    <3>1. exec[n] # "idle" /\ \E q \in ExecPc \ {"idle"} : exec' = [exec EXCEPT ![n] = q]
      BY <2>3 DEF NodeStep, Decide, NodeReadAttempt, NodeRun, NodeAgent, NodeTool, NodePark,
         NodeGate, NodeOutcome, NodeEffect, NodeParkRegister, NodeParkCancelled, NodeUnpark,
         NodeCompleted, NodeBlocked, NodePauseRun, NodeRetry, NodeFailed, NodeDecided,
         NodeFault, NodeDbError,
       NodeParkFails, BankWrite, NodeGoes, ExecPc
    <3>2. Inflight' \subseteq Inflight
      BY <3>1 DEF Inflight, TypeOK
    <3> QED
      BY <3>2, FewerFit
  <2>4. ASSUME NEW n \in Node, DriveCollect(n) PROVE WaveBound'
    <3>1. Inflight' \subseteq Inflight
      BY <2>4 DEF DriveCollect, Inflight, TypeOK
    <3> QED
      BY <3>1, FewerFit
  <2>5. CASE DriveDbError \/ CrashRestart
    <3>1. Inflight' \subseteq Inflight
      BY <2>5 DEF DriveDbError, CrashRestart, Inflight
    <3> QED
      BY <3>1, FewerFit
  <2> QED
    BY <2>1, <2>2, <2>3, <2>4, <2>5 DEF Next, DriveStep, DriveAcquire, DriveCheck, DriveBegin,
       DriveEnter, DriveReset, DriveStart, DriveRound, DriveFrontier, DriveRecheck, DriveReread,
       DriveFinal, DriveSettle, DriveAbort, DrivePublish, DriveFinish, HandlerStep, Command,
       PausePublish, CancelSkip, CancelFire, CancelPublish, RetryRejected, RetryReset, StartAgain,
       Pause, Resume, Retry, Cancel, vars, futures
<1> QED
  BY <1>1, <1>2, TypeSafe, PTL DEF SafetySpec

(* A wave never exceeds max_concurrency, whatever the graph. *)
THEOREM WaveStaysNarrow == Spec => []WaveBound
  BY WaveSafe, PTL DEF Spec
=============================================================================
