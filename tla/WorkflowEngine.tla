--------------------------- MODULE WorkflowEngine ---------------------------
(***************************************************************************)
(* One workflow run of the codypendent daemon: the durable run and node    *)
(* rows (crates/workflow/src/store.rs), the driver that advances them      *)
(* (drive.rs), the lifecycle commands (conductor.rs), the host that spawns *)
(* drives under a per-run lock (codypendentd/src/workflows.rs), and the    *)
(* node executor with its cancellation registry (workflow_exec.rs).  Runs  *)
(* are independent of each other, so one run is modelled.                  *)
(*                                                                         *)
(* Every step is one database statement or one lock-protected section, so  *)
(* whatever may interleave at an .await in the code interleaves here.      *)
(* Left out: costs, error texts, sessions, and the order in which a wave   *)
(* launches its ready nodes (the code's topological order is one of the    *)
(* orders allowed here).                                                   *)
(***************************************************************************)
EXTENDS Naturals, FiniteSets

CONSTANTS
    Node,          \* the nodes of the compiled graph
    DependsOn,     \* DependsOn[n]: the nodes n waits for
    AgentNode,     \* nodes executed by an agent; the others are tool nodes
    MaxAttempts,   \* the retry policy's attempts, at least 1
    Concurrency,   \* the wave width, CompiledWorkflow::max_concurrency
    Client,        \* connections that issue lifecycle commands
    MaxCommands,   \* bound: commands issued
    MaxCrashes,    \* bound: daemon crashes
    MaxDbErrors,   \* bound: store calls that fail
    MayUpgrade     \* whether a restart may bring a binary that no longer compiles the manifest

ASSUME GraphAssumption ==
    /\ IsFiniteSet(Node)
    /\ DependsOn \in [Node -> SUBSET Node]
    /\ AgentNode \subseteq Node
ASSUME BoundAssumption ==
    /\ MaxAttempts \in Nat \ {0}
    /\ Concurrency \in Nat \ {0}
    /\ MaxCommands \in Nat /\ MaxCrashes \in Nat /\ MaxDbErrors \in Nat
    /\ MayUpgrade \in BOOLEAN

VARIABLES
    \* Durable rows.
    runState,      \* workflow_runs.state
    nodeState,     \* workflow_nodes.state
    attempt,       \* workflow_nodes.attempt
    compiles,      \* the stored manifest still compiles to the stored signature
    \* The drive that holds the run's lock, and the drives waiting for it.
    drive,         \* program counter of the lock-holding drive, "idle" when the lock is free
    queued,        \* spawned drives waiting for the lock
    wave,          \* ready nodes of this round not yet launched
    stop,          \* stop_launching
    halted,        \* the wave was stopped by a run-state change
    erred,         \* first_error is set
    result,        \* the state about to be written or published
    \* Node futures of the lock-holding drive.
    exec,          \* program counter of each node's future
    att,           \* run_node's local attempt
    \* WorkflowRunCancellations' entry (an absent entry is an all-default one).
    cancelled,     \* the sticky flag
    driveActive,   \* a drive is bracketed by begin/finish
    handles,       \* nodes with a registered handle
    fired,         \* nodes whose token is cancelled
    \* Command handlers, subscribers and bounds.
    cmd,           \* program counter of each client's command handler
    published,     \* the last run phase subscribers were told
    acked,         \* a cancel of the current Cancelled state fired its tokens
    commands, crashes, dbErrors

durable  == <<runState, nodeState, attempt>>
locals   == <<wave, stop, halted, erred, result>>
driveVars == <<drive, queued, locals>>
futures  == <<exec, att>>
registry == <<cancelled, driveActive, handles, fired>>
bounds   == <<commands, crashes, dbErrors>>
world    == <<compiles, cmd, published, acked, bounds>>
vars == <<durable, driveVars, futures, registry, world>>

----------------------------------------------------------------------------
(* State sets *)

RunState  == {"pending", "running", "paused", "completed", "failed", "cancelled"}
NodeState == {"pending", "running", "waitingApproval", "blocked", "completed", "failed", "skipped"}

IsTerminal(s) == s \in {"completed", "failed", "cancelled"}

DrivePc == {"idle", "check", "begin", "enter", "reset", "round", "frontier", "fill", "await",
            "recheck", "reread", "final", "settle", "abort", "publish", "finish"}
ExecPc  == {"idle", "launched", "head", "gate", "working", "parking", "parked", "granted",
            "refused", "effect", "completed", "blocked", "pausing", "failed", "done", "error"}
CmdPc   == {"idle", "pausePublish", "cancelSkip", "cancelFire", "cancelPublish", "retry"}

Inflight == {n \in Node : exec[n] # "idle"}

(* The nodes waiting for n directly or transitively, and n itself: the set *)
(* closed under dependents that the retry's breadth-first walk computes.   *)
ClosedUnderDependents(S) == \A m \in Node : DependsOn[m] \cap S # {} => m \in S

Downstream(n) == {m \in Node : \A S \in SUBSET Node :
                      (n \in S /\ ClosedUnderDependents(S)) => m \in S}

(* Fault: a dependency that merely ended satisfies its dependents. *)
ReadyAfterAnyEnd ==
    {n \in Node : /\ nodeState[n] = "pending"
                  /\ \A d \in DependsOn[n] : nodeState[d] \in {"completed", "failed", "skipped"}}

(* ready_node_ids: Pending nodes all of whose dependencies completed. *)
Ready == {n \in Node : /\ nodeState[n] = "pending"
                       /\ \A d \in DependsOn[n] : nodeState[d] = "completed"}

----------------------------------------------------------------------------
(* The store *)

(* set_run_state_if_legal: a compare-and-set; Moved says whether it applies. *)
Moved(from) == runState \in from
SetRunStateIfLegal(from, to) == runState' = IF Moved(from) THEN to ELSE runState

(* transition_node: writes state and attempt whatever the row holds. *)
TransitionNode(n, s, a) ==
    /\ nodeState' = [nodeState EXCEPT ![n] = s]
    /\ attempt' = [attempt EXCEPT ![n] = a]

(* Fault: the cancel drain skips whatever is not in flight. *)
SkipIdleNodes ==
    nodeState' = [n \in Node |-> IF nodeState[n] \in {"running", "waitingApproval"}
                                 THEN nodeState[n] ELSE "skipped"]

(* skip_pending_nodes *)
SkipPendingNodes ==
    nodeState' = [n \in Node |-> IF nodeState[n] = "pending" THEN "skipped" ELSE nodeState[n]]

(* retry_from_node: one transaction that resets n and its dependents and   *)
(* makes the run running whatever its state was.                           *)
RetryFromNode(n) ==
    /\ nodeState' = [m \in Node |-> IF m \in Downstream(n) THEN "pending" ELSE nodeState[m]]
    /\ attempt' = [m \in Node |-> IF m \in Downstream(n) THEN 0 ELSE attempt[m]]
    /\ runState' = "running"

----------------------------------------------------------------------------
(* The cancellation registry *)

RegistryBegin ==
    /\ driveActive' = TRUE
    /\ UNCHANGED <<cancelled, handles, fired>>

(* Fault: a token registered after the cancel is born live. *)
RegisterBornLive(n) ==
    /\ handles' = handles \cup {n}
    /\ fired' = fired \ {n}
    /\ UNCHANGED <<cancelled, driveActive>>

RegistryRegister(n) ==
    /\ handles' = handles \cup {n}
    /\ fired' = IF cancelled THEN fired \cup {n} ELSE fired \ {n}
    /\ UNCHANGED <<cancelled, driveActive>>

RegistryDeregister(n) ==
    /\ handles' = handles \ {n}
    /\ fired' = fired \ {n}
    /\ UNCHANGED <<cancelled, driveActive>>

(* Fault: with no handle registered the sticky flag is dropped, live drive or not. *)
CancelDropsIdleEntry ==
    /\ fired' = fired \cup handles
    /\ cancelled' = (handles # {})
    /\ UNCHANGED <<driveActive, handles>>

(* cancel: fires every handle; the sticky flag stays only while a drive is *)
(* bracketed or a handle is registered.                                    *)
RegistryCancel ==
    /\ fired' = fired \cup handles
    /\ cancelled' = (driveActive \/ handles # {})
    /\ UNCHANGED <<driveActive, handles>>

RegistryFinish ==
    /\ cancelled' = FALSE /\ driveActive' = FALSE /\ handles' = {} /\ fired' = {}

----------------------------------------------------------------------------
(* The host's spawn_drive and the driver's run_observed *)

(* spawn_drive: the per-run lock is acquired. *)
DriveAcquire ==
    /\ drive = "idle" /\ queued > 0
    /\ queued' = queued - 1
    /\ drive' = "check"
    /\ UNCHANGED <<durable, locals, futures, registry, world>>

(* A terminal run is not driven: the task returns, dropping the guard. *)
DriveCheck ==
    /\ drive = "check"
    /\ drive' = IF IsTerminal(runState) THEN "idle" ELSE "begin"
    /\ UNCHANGED <<durable, queued, locals, futures, registry, world>>

DriveBegin ==
    /\ drive = "begin"
    /\ published' = "running"
    /\ RegistryBegin
    /\ drive' = "enter"
    /\ UNCHANGED <<durable, queued, locals, futures, compiles, cmd, acked, bounds>>

(* recompile, the signature guard, and the refusal of a run that is        *)
(* neither pending nor running.                                            *)
DriveEnter ==
    /\ drive = "enter"
    /\ IF ~compiles
         THEN drive' = "abort" /\ UNCHANGED result
         ELSE IF runState \in {"pending", "running"}
                THEN drive' = "reset" /\ UNCHANGED result
                ELSE drive' = "publish" /\ result' = runState
    /\ UNCHANGED <<durable, queued, wave, stop, halted, erred, futures, registry, world>>

(* Recovery: a node left running, parked or blocked by an earlier drive    *)
(* becomes pending again with its attempt preserved.                       *)
Interrupted == {n \in Node : nodeState[n] \in {"running", "waitingApproval", "blocked"}}

DriveReset(n) ==
    /\ drive = "reset"
    /\ n \in Interrupted
    /\ TransitionNode(n, "pending", attempt[n])
    /\ UNCHANGED <<runState, driveVars, futures, registry, world>>

(* Fault: the run is made running without looking at its state. *)
StartUnconditionally ==
    /\ drive = "reset"
    /\ Interrupted = {}
    /\ runState' = "running"
    /\ drive' = "round"
    /\ UNCHANGED <<nodeState, attempt, queued, locals, futures, registry, world>>

(* try_transition_to_running *)
DriveStart ==
    /\ drive = "reset"
    /\ Interrupted = {}
    /\ SetRunStateIfLegal({"pending", "running"}, "running")
    /\ drive' = IF Moved({"pending", "running"}) THEN "round" ELSE "reread"
    /\ UNCHANGED <<nodeState, attempt, queued, locals, futures, registry, world>>

(* The top of a round: snapshot reads the run row first ... *)
DriveRound ==
    /\ drive = "round"
    /\ IF runState \in {"paused", "cancelled"}
         THEN drive' = "publish" /\ result' = runState
         ELSE drive' = "frontier" /\ UNCHANGED result
    /\ UNCHANGED <<durable, queued, wave, stop, halted, erred, futures, registry, world>>

(* ... and the node rows second. *)
DriveFrontier ==
    /\ drive = "frontier"
    /\ wave' = Ready
    /\ stop' = FALSE /\ halted' = FALSE /\ erred' = FALSE
    /\ drive' = IF Ready = {} THEN "final" ELSE "fill"
    /\ UNCHANGED <<durable, queued, result, futures, registry, world>>

(* Fault: one node more than the wave's width. *)
OneSlotTooMany == (Concurrency + 1) - Cardinality(Inflight)

(* Free slots are filled; a drained wave ends the round. *)
FreeSlots == IF Cardinality(Inflight) < Concurrency THEN Concurrency - Cardinality(Inflight) ELSE 0

Launchable == {L \in SUBSET wave :
                 IF stop THEN L = {}
                 ELSE \/ Cardinality(L) = FreeSlots
                      \/ L = wave /\ Cardinality(L) < FreeSlots}

(* Fault: a halted wave returns before its in-flight nodes drained. *)
FillWithoutDrain ==
    /\ drive = "fill"
    /\ \E L \in Launchable :
          /\ wave' = wave \ L
          /\ exec' = [n \in Node |-> IF n \in L THEN "launched" ELSE exec[n]]
          /\ drive' = IF halted THEN "reread"
                      ELSE IF L # {} \/ Inflight # {} THEN "await"
                      ELSE IF erred THEN "finish"
                      ELSE "round"
    /\ UNCHANGED <<durable, queued, stop, halted, erred, result, att, registry, world>>

DriveFill ==
    /\ drive = "fill"
    /\ \E L \in Launchable :
          /\ wave' = wave \ L
          /\ exec' = [n \in Node |-> IF n \in L THEN "launched" ELSE exec[n]]
          /\ drive' = IF L # {} \/ Inflight # {} THEN "await"
                      ELSE IF erred THEN "finish"
                      ELSE IF halted THEN "reread"
                      ELSE "round"
    /\ UNCHANGED <<durable, queued, stop, halted, erred, result, att, registry, world>>

(* inflight.next() yields a finished node. *)
DriveCollect(n) ==
    /\ drive = "await"
    /\ exec[n] \in {"done", "error"}
    /\ exec' = [exec EXCEPT ![n] = "idle"]
    /\ att' = [att EXCEPT ![n] = 0]
    /\ IF exec[n] = "error"
         THEN stop' = TRUE /\ erred' = TRUE /\ drive' = "fill"
         ELSE drive' = "recheck" /\ UNCHANGED <<stop, erred>>
    /\ UNCHANGED <<durable, queued, wave, halted, result, registry, world>>

(* The run state is re-read after every finished node. *)
DriveRecheck ==
    /\ drive = "recheck"
    /\ stop' = (stop \/ runState # "running")
    /\ halted' = (halted \/ runState # "running")
    /\ drive' = "fill"
    /\ UNCHANGED <<durable, queued, wave, erred, result, futures, registry, world>>

DriveReread ==
    /\ drive = "reread"
    /\ result' = runState
    /\ drive' = "publish"
    /\ UNCHANGED <<durable, queued, wave, stop, halted, erred, futures, registry, world>>

(* Fault: a run without a failed node counts as completed. *)
FinalUnlessFailed ==
    /\ drive = "final"
    /\ result' = IF \A n \in Node : nodeState[n] # "failed" THEN "completed" ELSE "failed"
    /\ drive' = "settle"
    /\ UNCHANGED <<durable, queued, wave, stop, halted, erred, futures, registry, world>>

DriveFinal ==
    /\ drive = "final"
    /\ result' = IF \A n \in Node : nodeState[n] = "completed" THEN "completed" ELSE "failed"
    /\ drive' = "settle"
    /\ UNCHANGED <<durable, queued, wave, stop, halted, erred, futures, registry, world>>

(* The terminal write applies only while the run is still running. *)
DriveSettle ==
    /\ drive = "settle"
    /\ SetRunStateIfLegal({"running"}, result)
    /\ drive' = IF Moved({"running"}) THEN "publish" ELSE "reread"
    /\ UNCHANGED <<nodeState, attempt, queued, locals, futures, registry, world>>

(* An unrecoverable error fails the run with an unconditional set_run_state. *)
DriveAbort ==
    /\ drive = "abort"
    /\ runState' = "failed"
    /\ result' = "failed"
    /\ drive' = "publish"
    /\ UNCHANGED <<nodeState, attempt, queued, wave, stop, halted, erred, futures, registry, world>>

DrivePublish ==
    /\ drive = "publish"
    /\ published' = result
    /\ drive' = "finish"
    /\ UNCHANGED <<durable, queued, locals, futures, registry, compiles, cmd, acked, bounds>>

(* cancellations.finish, then the lock is released. *)
DriveFinish ==
    /\ drive = "finish"
    /\ RegistryFinish
    /\ drive' = "idle"
    /\ wave' = {} /\ stop' = FALSE /\ halted' = FALSE /\ erred' = FALSE
    /\ UNCHANGED <<durable, queued, result, futures, world>>

(* A failing store call makes run_observed return at once, which drops the *)
(* futures still in flight; before begin it just releases the lock.        *)
DriveDbError ==
    /\ dbErrors < MaxDbErrors
    /\ drive \in {"check", "enter", "reset", "round", "frontier", "recheck", "reread", "final",
                  "settle", "abort"}
    /\ dbErrors' = dbErrors + 1
    /\ drive' = IF drive = "check" THEN "idle" ELSE "finish"
    /\ exec' = [n \in Node |-> "idle"]
    /\ att' = [n \in Node |-> 0]
    /\ UNCHANGED <<durable, queued, locals, registry, compiles, cmd, published, acked, commands,
                   crashes>>

----------------------------------------------------------------------------
(* run_node and the node executor *)

(* The steps of a future that touch neither the store nor the registry. *)
NodeGoes(n, pc) ==
    /\ exec' = [exec EXCEPT ![n] = pc]
    /\ UNCHANGED <<driveVars, world>>

(* Fault: every launch counts attempts from one. *)
ReadAttemptAfresh(n) ==
    /\ exec[n] = "launched"
    /\ att' = [att EXCEPT ![n] = 1]
    /\ NodeGoes(n, "head")
    /\ UNCHANGED <<durable, registry>>

(* The persisted attempt is where run_node starts counting. *)
NodeReadAttempt(n) ==
    /\ exec[n] = "launched"
    /\ att' = [att EXCEPT ![n] = IF attempt[n] = 0 THEN 1 ELSE attempt[n]]
    /\ NodeGoes(n, "head")
    /\ UNCHANGED <<durable, registry>>

(* The head of run_node's loop: the node row becomes running. *)
NodeRun(n) ==
    /\ exec[n] = "head"
    /\ TransitionNode(n, "running", att[n])
    /\ NodeGoes(n, "gate")
    /\ UNCHANGED <<runState, att, registry>>

(* execute: the budget pre-gate may block and a failed preparation fails   *)
(* the attempt.                                                            *)
NodeGate(n, outcome) ==
    /\ exec[n] = "gate"
    /\ outcome \in {"blocked", "failed"}
    /\ NodeGoes(n, outcome)
    /\ UNCHANGED <<durable, att, registry>>

(* An agent node registers its token and works. *)
NodeAgent(n) ==
    /\ exec[n] = "gate" /\ n \in AgentNode
    /\ RegistryRegister(n)
    /\ NodeGoes(n, "working")
    /\ UNCHANGED <<durable, att>>

(* A tool whose policy asks for no approval works without a token. *)
NodeTool(n) ==
    /\ exec[n] = "gate" /\ n \notin AgentNode
    /\ NodeGoes(n, "working")
    /\ UNCHANGED <<durable, att, registry>>

NodeOutcome(n, outcome) ==
    /\ exec[n] = "working"
    /\ outcome \in {"completed", "blocked", "failed"}
    /\ RegistryDeregister(n)
    /\ NodeGoes(n, outcome)
    /\ UNCHANGED <<durable, att>>

(* park_for_approval: the row says so before the token is registered. *)
NodePark(n) ==
    /\ exec[n] = "gate" /\ n \notin AgentNode
    /\ TransitionNode(n, "waitingApproval", att[n])
    /\ NodeGoes(n, "parking")
    /\ UNCHANGED <<runState, att, registry>>

NodeParkRegister(n) ==
    /\ exec[n] = "parking"
    /\ RegistryRegister(n)
    /\ NodeGoes(n, "parked")
    /\ UNCHANGED <<durable, att>>

(* The approver, or the expiry sweep, decides. *)
NodeDecided(n, decision) ==
    /\ exec[n] = "parked"
    /\ decision \in {"granted", "refused"}
    /\ RegistryDeregister(n)
    /\ NodeGoes(n, decision)
    /\ UNCHANGED <<durable, att>>

(* bank_attempt_spend: the failed attempt's spend is written with the row  *)
(* as running, best effort.                                                *)
BankWrite(n) == TransitionNode(n, "running", att[n]) \/ UNCHANGED <<nodeState, attempt>>

(* The token wakes the park: no effect is performed. *)
NodeParkCancelled(n) ==
    /\ exec[n] = "parked" /\ n \in fired
    /\ RegistryDeregister(n)
    /\ NodeGoes(n, "failed")
    /\ BankWrite(n)
    /\ UNCHANGED <<runState, att>>

(* After a decision the row is running again; the sticky flag is read once *)
(* more before the effect.                                                 *)
NodeUnpark(n) ==
    /\ exec[n] \in {"granted", "refused"}
    /\ TransitionNode(n, "running", att[n])
    /\ NodeGoes(n, IF exec[n] = "granted" /\ ~cancelled THEN "effect" ELSE "failed")
    /\ UNCHANGED <<runState, att, registry>>

NodeEffect(n, outcome) ==
    /\ exec[n] = "effect"
    /\ outcome \in {"completed", "blocked", "failed"}
    /\ NodeGoes(n, outcome)
    /\ UNCHANGED <<durable, att, registry>>

NodeCompleted(n) ==
    /\ exec[n] = "completed"
    /\ TransitionNode(n, "completed", att[n])
    /\ NodeGoes(n, "done")
    /\ UNCHANGED <<runState, att, registry>>

NodeBlocked(n) ==
    /\ exec[n] = "blocked"
    /\ TransitionNode(n, "blocked", att[n])
    /\ NodeGoes(n, "pausing")
    /\ UNCHANGED <<runState, att, registry>>

(* A block pauses the run, unless it already left running. *)
NodePauseRun(n) ==
    /\ exec[n] = "pausing"
    /\ SetRunStateIfLegal({"running"}, "paused")
    /\ NodeGoes(n, "done")
    /\ UNCHANGED <<nodeState, attempt, att, registry>>

(* Fault: the attempt limit is off by one. *)
RetryOnceTooOften(n) ==
    /\ exec[n] = "failed" /\ att[n] <= MaxAttempts
    /\ TransitionNode(n, "pending", att[n] + 1)
    /\ att' = [att EXCEPT ![n] = att[n] + 1]
    /\ NodeGoes(n, "head")
    /\ UNCHANGED <<runState, registry>>

(* A retryable failure is persisted as a pending row at the next attempt   *)
(* before the backoff.                                                     *)
NodeRetry(n) ==
    /\ exec[n] = "failed" /\ att[n] < MaxAttempts
    /\ TransitionNode(n, "pending", att[n] + 1)
    /\ att' = [att EXCEPT ![n] = att[n] + 1]
    /\ NodeGoes(n, "head")
    /\ UNCHANGED <<runState, registry>>

NodeFailed(n) ==
    /\ exec[n] = "failed" /\ att[n] >= MaxAttempts
    /\ TransitionNode(n, "failed", att[n])
    /\ NodeGoes(n, "done")
    /\ UNCHANGED <<runState, att, registry>>

(* A store call of run_node fails and ends the future with an error. *)
NodeDbError(n) ==
    /\ dbErrors < MaxDbErrors
    /\ exec[n] \in {"launched", "head", "completed", "blocked", "pausing", "failed"}
    /\ dbErrors' = dbErrors + 1
    /\ exec' = [exec EXCEPT ![n] = "error"]
    /\ UNCHANGED <<durable, driveVars, att, registry, compiles, cmd, published, acked, commands,
                   crashes>>

(* The approval cannot be requested or awaited, or the row cannot be       *)
(* written back: the park fails the attempt.                               *)
NodeParkFails(n) ==
    /\ dbErrors < MaxDbErrors
    /\ exec[n] \in {"parking", "granted", "refused"}
    /\ dbErrors' = dbErrors + 1
    /\ exec' = [exec EXCEPT ![n] = "failed"]
    /\ BankWrite(n)
    /\ UNCHANGED <<runState, driveVars, att, registry, compiles, cmd, published, acked, commands,
                   crashes>>

NodeFault(n) == NodeDbError(n) \/ NodeParkFails(n)

----------------------------------------------------------------------------
(* Lifecycle commands *)

Issue(c) ==
    /\ cmd[c] = "idle" /\ commands < MaxCommands
    /\ commands' = commands + 1
    /\ UNCHANGED <<crashes, dbErrors>>

SpawnDrive == queued' = queued + 1

(* A duplicate StartWorkflow drives the run only while no drive touched it. *)
IsFresh == runState = "pending" /\ \A n \in Node : nodeState[n] = "pending" /\ attempt[n] = 0

StartAgain(c) ==
    /\ Issue(c)
    /\ IsFresh
    /\ SpawnDrive
    /\ UNCHANGED <<durable, drive, locals, futures, registry, compiles, cmd, published, acked>>

Pause(c) ==
    /\ Issue(c)
    /\ runState \in {"pending", "running", "paused"}
    /\ SetRunStateIfLegal({"pending", "running"}, "paused")
    /\ cmd' = [cmd EXCEPT ![c] = "pausePublish"]
    /\ UNCHANGED <<nodeState, attempt, driveVars, futures, registry, compiles, published, acked>>

PausePublish(c) ==
    /\ cmd[c] = "pausePublish"
    /\ published' = "paused"
    /\ cmd' = [cmd EXCEPT ![c] = "idle"]
    /\ UNCHANGED <<durable, driveVars, futures, registry, compiles, acked, bounds>>

(* Fault: no drive is spawned while one still holds the lock. *)
ResumeReusesDrive(c) ==
    /\ Issue(c)
    /\ runState = "paused" /\ runState' = "running"
    /\ published' = "running"
    /\ queued' = IF drive = "idle" THEN queued + 1 ELSE queued
    /\ UNCHANGED <<nodeState, attempt, drive, locals, futures, registry, compiles, cmd, acked>>

(* prepare_resume, then the phase is published and a drive spawned. *)
Resume(c) ==
    /\ Issue(c)
    /\ Moved({"paused"})
    /\ SetRunStateIfLegal({"paused"}, "running")
    /\ published' = "running"
    /\ SpawnDrive
    /\ UNCHANGED <<nodeState, attempt, drive, locals, futures, registry, compiles, cmd, acked>>

(* A retry waits for the drive lock ... *)
Retry(c) ==
    /\ Issue(c)
    /\ cmd' = [cmd EXCEPT ![c] = "retry"]
    /\ UNCHANGED <<durable, driveVars, futures, registry, compiles, published, acked>>

(* ... resets the rows while it holds it, and spawns a drive. *)
RetryReset(c, n) ==
    /\ cmd[c] = "retry"
    /\ drive = "idle"
    /\ compiles
    /\ RetryFromNode(n)
    /\ SpawnDrive
    /\ cmd' = [cmd EXCEPT ![c] = "idle"]
    /\ acked' = FALSE
    /\ UNCHANGED <<drive, locals, futures, registry, compiles, published, bounds>>

(* A manifest that no longer compiles rejects the retry. *)
RetryRejected(c) ==
    /\ cmd[c] = "retry"
    /\ drive = "idle"
    /\ ~compiles
    /\ cmd' = [cmd EXCEPT ![c] = "idle"]
    /\ UNCHANGED <<durable, driveVars, futures, registry, compiles, published, acked, bounds>>

(* Cancel takes no lock: flip the run, skip its pending nodes, fire the    *)
(* tokens, publish.  Cancelling a cancelled run fires and publishes again. *)
Cancel(c) ==
    /\ Issue(c)
    /\ runState \in {"pending", "running", "paused", "cancelled"}
    /\ SetRunStateIfLegal({"pending", "running", "paused"}, "cancelled")
    /\ cmd' = [cmd EXCEPT ![c] =
                 IF Moved({"pending", "running", "paused"}) THEN "cancelSkip" ELSE "cancelFire"]
    /\ UNCHANGED <<nodeState, attempt, driveVars, futures, registry, compiles, published, acked>>

CancelSkip(c) ==
    /\ cmd[c] = "cancelSkip"
    /\ SkipPendingNodes
    /\ cmd' = [cmd EXCEPT ![c] = "cancelFire"]
    /\ UNCHANGED <<runState, attempt, driveVars, futures, registry, compiles, published, acked,
                   bounds>>

CancelFire(c) ==
    /\ cmd[c] = "cancelFire"
    /\ RegistryCancel
    /\ acked' = (acked \/ runState = "cancelled")
    /\ cmd' = [cmd EXCEPT ![c] = "cancelPublish"]
    /\ UNCHANGED <<durable, driveVars, futures, compiles, published, bounds>>

CancelPublish(c) ==
    /\ cmd[c] = "cancelPublish"
    /\ published' = "cancelled"
    /\ cmd' = [cmd EXCEPT ![c] = "idle"]
    /\ UNCHANGED <<durable, driveVars, futures, registry, compiles, acked, bounds>>

(* Fault: recovery spawns drives only for runs that never started. *)
RestartForgetsRunning ==
    /\ crashes < MaxCrashes
    /\ crashes' = crashes + 1
    /\ compiles' \in {compiles, compiles /\ ~MayUpgrade}
    /\ drive' = "idle"
    /\ queued' = IF runState = "pending" THEN 1 ELSE 0
    /\ wave' = {} /\ stop' = FALSE /\ halted' = FALSE /\ erred' = FALSE /\ result' = runState
    /\ exec' = [n \in Node |-> "idle"]
    /\ att' = [n \in Node |-> 0]
    /\ cancelled' = FALSE /\ driveActive' = FALSE /\ handles' = {} /\ fired' = {}
    /\ cmd' = [c \in Client |-> "idle"]
    /\ published' = runState
    /\ UNCHANGED <<durable, acked, commands, dbErrors>>

(* The daemon dies and restarts: the rows survive, recover spawns a drive  *)
(* for a pending or running run and leaves a paused one, and subscribers   *)
(* re-read the snapshot.                                                   *)
CrashRestart ==
    /\ crashes < MaxCrashes
    /\ crashes' = crashes + 1
    /\ compiles' \in {compiles, compiles /\ ~MayUpgrade}
    /\ drive' = "idle"
    /\ queued' = IF runState \in {"pending", "running"} THEN 1 ELSE 0
    /\ wave' = {} /\ stop' = FALSE /\ halted' = FALSE /\ erred' = FALSE /\ result' = runState
    /\ exec' = [n \in Node |-> "idle"]
    /\ att' = [n \in Node |-> 0]
    /\ cancelled' = FALSE /\ driveActive' = FALSE /\ handles' = {} /\ fired' = {}
    /\ cmd' = [c \in Client |-> "idle"]
    /\ published' = runState
    /\ UNCHANGED <<durable, acked, commands, dbErrors>>

----------------------------------------------------------------------------
Init ==
    /\ runState = "pending"
    /\ nodeState = [n \in Node |-> "pending"]
    /\ attempt = [n \in Node |-> 0]
    /\ compiles = TRUE
    /\ drive = "idle" /\ queued = 1
    /\ wave = {} /\ stop = FALSE /\ halted = FALSE /\ erred = FALSE /\ result = "pending"
    /\ exec = [n \in Node |-> "idle"]
    /\ att = [n \in Node |-> 0]
    /\ cancelled = FALSE /\ driveActive = FALSE /\ handles = {} /\ fired = {}
    /\ cmd = [c \in Client |-> "idle"]
    /\ published = "pending"
    /\ acked = FALSE
    /\ commands = 0 /\ crashes = 0 /\ dbErrors = 0

DriveStep ==
    \/ DriveAcquire \/ DriveCheck \/ DriveBegin \/ DriveEnter \/ DriveStart
    \/ \E n \in Node : DriveReset(n)
    \/ DriveRound \/ DriveFrontier \/ DriveFill \/ DriveRecheck \/ DriveReread
    \/ \E n \in Node : DriveCollect(n)
    \/ DriveFinal \/ DriveSettle \/ DriveAbort \/ DrivePublish \/ DriveFinish

NodeStep(n) ==
    \/ NodeReadAttempt(n) \/ NodeRun(n) \/ NodeAgent(n) \/ NodeTool(n) \/ NodePark(n)
    \/ \E o \in {"blocked", "failed"} : NodeGate(n, o)
    \/ \E o \in {"completed", "blocked", "failed"} : NodeOutcome(n, o) \/ NodeEffect(n, o)
    \/ NodeParkRegister(n) \/ NodeParkCancelled(n) \/ NodeUnpark(n)
    \/ NodeCompleted(n) \/ NodeBlocked(n) \/ NodePauseRun(n) \/ NodeRetry(n) \/ NodeFailed(n)

Decide(n) == \E d \in {"granted", "refused"} : NodeDecided(n, d)

HandlerStep(c) ==
    \/ PausePublish(c) \/ CancelSkip(c) \/ CancelFire(c) \/ CancelPublish(c)
    \/ RetryRejected(c)
    \/ \E n \in Node : RetryReset(c, n)

Command(c) == StartAgain(c) \/ Pause(c) \/ Resume(c) \/ Retry(c) \/ Cancel(c)

Next ==
    \/ DriveStep
    \/ \E n \in Node : NodeStep(n) \/ Decide(n) \/ NodeFault(n)
    \/ \E c \in Client : HandlerStep(c) \/ Command(c)
    \/ DriveDbError
    \/ CrashRestart

(* Tokio polls every ready task and future, so each step that stays        *)
(* enabled is taken.  Nobody owes an approval decision.                    *)
Fairness ==
    /\ WF_vars(DriveStep)
    /\ \A n \in Node : WF_vars(NodeStep(n))
    /\ \A c \in Client : WF_vars(HandlerStep(c))

SafetySpec == Init /\ [][Next]_vars

Spec == SafetySpec /\ Fairness

----------------------------------------------------------------------------
(* Every variable has its type; in particular neither run_node nor a crash *)
(* in a retry's backoff takes the recorded attempt past the policy's limit. *)
TypeOK ==
    /\ runState \in RunState
    /\ nodeState \in [Node -> NodeState]
    /\ attempt \in [Node -> 0..MaxAttempts]
    /\ compiles \in BOOLEAN
    /\ drive \in DrivePc
    /\ queued \in Nat
    /\ wave \in SUBSET Node
    /\ stop \in BOOLEAN /\ halted \in BOOLEAN /\ erred \in BOOLEAN
    /\ result \in RunState
    /\ exec \in [Node -> ExecPc]
    /\ att \in [Node -> 0..MaxAttempts]
    /\ cancelled \in BOOLEAN /\ driveActive \in BOOLEAN
    /\ handles \in SUBSET Node /\ fired \in SUBSET Node
    /\ cmd \in [Client -> CmdPc]
    /\ published \in RunState
    /\ acked \in BOOLEAN
    /\ commands \in 0..MaxCommands /\ crashes \in 0..MaxCrashes /\ dbErrors \in 0..MaxDbErrors
----------------------------------------------------------------------------
(* Safety *)

(* A run is reported completed only when every node completed; in         *)
(* particular neither a cancel that skips nodes nor a retry that resets    *)
(* them can slip between the driver's last read and its terminal write.    *)
CompletedRunIsDone == runState = "completed" => \A n \in Node : nodeState[n] = "completed"

Executing == {n \in Node : exec[n] \notin {"idle", "done", "error"}}

(* While a node's future runs its dependencies are completed: no command   *)
(* and no recovery reset withdraws an input under it.                      *)
DependencyOrder ==
    \A n \in Executing : \A d \in DependsOn[n] : nodeState[d] = "completed"

(* A wave never has more nodes in flight than max_concurrency allows. *)
WaveBound == Cardinality(Inflight) <= Concurrency

(* No drive holds the lock, or the one that does will not look again. *)
LastLook == drive \in {"idle", "reread", "publish", "finish"} \/ (drive # "idle" /\ halted)

(* Unless a store call failed, a run that can advance always has a drive   *)
(* that will look at it: a drive past its last look at the run (or none at *)
(* all) leaves another one waiting for the lock.                           *)
NoStrandedRun ==
    (dbErrors = 0 /\ runState \in {"pending", "running"} /\ LastLook) => queued > 0

(* A node's future never outlives the drive that polls it, so the lock a   *)
(* retry waits for is enough to keep a stale result off the reset rows.    *)
NoOrphanFuture == drive \in {"idle", "check", "begin", "enter", "reset", "round", "frontier",
                             "final", "settle", "reread", "publish", "abort", "finish"}
                     => Inflight = {}

(* Absent crashes and store errors, a finished run whose drive ended left  *)
(* no node running or parked behind: a wave is drained before the drive    *)
(* gives up the run, however it was stopped.                               *)
SettledRunHasNoLiveNode ==
    (dbErrors = 0 /\ crashes = 0 /\ drive = "idle" /\ IsTerminal(runState)) =>
        \A n \in Node : nodeState[n] \notin {"running", "waitingApproval"}

----------------------------------------------------------------------------
(* Action properties *)

RetryTaken == \E c \in Client, n \in Node : RetryReset(c, n)

KeepsCompleted ==
    \A n \in Node : nodeState[n] = "completed" => nodeState'[n] = "completed" \/ RetryTaken

(* Completed work is redone only when a client asks for a retry: a crash,  *)
(* a resume or a duplicate drive never re-executes a completed node.       *)
CompletedNodesStay == [][KeepsCompleted]_vars

KeepsAttempts == \A n \in Node : attempt'[n] >= attempt[n] \/ RetryTaken

(* The recorded attempt only grows until a retry resets it, so a failed    *)
(* attempt is never run again, across crashes included.                    *)
AttemptsOnlyGrow == [][KeepsAttempts]_vars

CommandTaken == \E c \in Client : Resume(c) \/ Cancel(c) \/ \E n \in Node : RetryReset(c, n)
KeepsAccepted == runState \in {"paused", "cancelled"} => (runState' = runState \/ CommandTaken)

(* An accepted cancel or pause is undone only by a command: the driver's   *)
(* own writes never win against it.  It holds of manifests that keep       *)
(* compiling; the write of DriveAbort breaks it for the others.            *)
AcceptedCommandSticks == [][KeepsAccepted]_vars

StartsNoEffect ==
    (runState = "cancelled" /\ acked) => \A n \in Node : exec'[n] = "effect" => exec[n] = "effect"

(* Once a cancel of the run has fired its tokens no parked tool node goes  *)
(* on to its effect, also when it had not registered its token yet.        *)
NoEffectAfterCancel == [][StartsNoEffect]_vars

----------------------------------------------------------------------------
(* Liveness *)

(* A cancelled run's drive drains although nobody decides its approvals. *)
CancelDrains == runState = "cancelled" ~> (drive = "idle" \/ runState # "cancelled")

(* Approvals carry a time-to-live and the expiry sweep rejects them, so a  *)
(* parked node is decided in the end.                                      *)
ApprovalsExpire == \A n \in Node : WF_vars(Decide(n))

(* Once approvals expire, every run comes to rest: finished or paused,     *)
(* with no drive left, across crashes and binaries that no longer compile  *)
(* its manifest.                                                           *)
RunComesToRest == ApprovalsExpire =>
    <>[](drive = "idle" /\ queued = 0 /\ (IsTerminal(runState) \/ runState = "paused"))

----------------------------------------------------------------------------
(* What a comment of the code says and the code does not keep *)

(* A blocked node waits for a resume to re-evaluate it: the run it paused  *)
(* does not fail while the node is still blocked.                          *)
BlockedNodeKeepsRunAlive == runState = "failed" => \A n \in Node : nodeState[n] # "blocked"
=============================================================================
