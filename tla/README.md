# Verification of the codypendent daemon's durable runs

TLA+ specifications, TLC configurations and TLAPS proofs for the parts of the
codypendent daemon that keep work going durably: workflows, graphs of agent and
tool nodes whose progress lives in SQLite; the automations that start them on a
schedule or on a webhook; and single agent runs with the approvals and questions
they wait for. Clients pause, resume, cancel and answer while the work goes on,
and all of it must survive a crash at any point.

## 1. The system

`codypendentd` is a local daemon. Clients (terminal UI, command line, desktop,
editor extensions) talk to it over a protocol; everything durable is in one
SQLite database (`migrations/`). `PROJECT.json` lists every component with its
sources; this is what matters about them here.

| Component | State it keeps | Operations | Hard behaviour |
|---|---|---|---|
| Workflow store (`crates/workflow/src/store.rs`) | `workflow_runs` (state, owner, key, manifest, signature), `workflow_nodes` (state, attempt, cost, error) | create (idempotent), conditional and unconditional transitions, recovery resets, skip, retry, ready set | every statement commits alone; only some writes look at the row first |
| Driver (`drive.rs`) | a wave of node futures, `stop_launching`, `halted`, `first_error`, attempt counters | recovery, rounds, waves, `run_node` with retries and backoff | reads go stale between awaits; a wave must drain, not drop |
| Conductor (`conductor.rs`) and host (`codypendentd/src/workflows.rs`) | drive-lock registry, published phases | start, spawn_drive, pause, resume, retry, cancel, recover | commands race the drive; cancel takes no lock |
| Node executor (`workflow_exec.rs`) | cancellation registry, measured cost of an attempt | budget gate, agent run, tool effect, approval park, banking | a cancel before, during and after the token is registered |
| Budget accounting (`budget.rs`) | none (pure) | add, charge, warn | saturation, boundaries, unmeasured values |
| Start request (`workflows.rs`, `store.rs`) | owner, key, manifest, inputs of a run | look up, resolve, create, drive | duplicate and racing deliveries, edited files, crashes |
| Compiler, sources, blackboard (`crates/workflow`) | graph, files, typed items | compile, resolve, post, supersede, consolidate | graph algorithms; patches read while others post |
| Automation scheduler (`daemon/src/automation_scheduler.rs`, `automation.rs`) | bindings with `next_fire_at`, leases with fences, receipts, attempts | claim, dispatch, retry, re-drive, deliver, patch | two daemons over one database share a lease holder; reserves, starts and records in three steps; a patch that writes back what it read |
| Agent runtime (`runtime/src/agent.rs`) and executor (`codypendentd/src/executor.rs`) | the run's framework worker; control handles, reservations and kept commands of `RunControlRegistry` | launch, re-drive, pause, resume, cancel, end | a command commits first and signals later; a worker acts in between |
| ACP worker (`execute_acp` of `executor.rs`) | an external agent process beside the same registry | safe point, transitions, permission requests, an end in two steps | not modelled |
| Approval and question brokers (`approvals.rs`, `questions.rs`) | durable requests, in-memory waiters | request, await, resolve, wake, expire | an answer before its waiter; two people deciding |
| Command processor, ledger, startup recovery (`commands.rs`, `ledger.rs`, `recovery.rs`) | `runs.state`, events | guarded transitions, terminal append, fail, recover | several paths end one run |
| Prompt queue, subscriptions | queued prompts, per-session sequence | drain, catch up | live events racing the catch-up read |
| Control-plane sync | outbox, cursors, receipts | enqueue, send, acknowledge, apply | an unreliable network |
| Worktrees, checkpoints, secrets, runner, marketplace, UI host | leases, jobs, packages, documents | acquire, release, restore | crashes between two stores |
| Everything else (model runtime, routing, retrieval, front ends, integrations, sandbox) | | | model- or I/O-driven; not modelled |

How the modelled parts interact:

```
 clock, webhook --> claim / reserve --> dispatch            (AutomationSchedule, AutomationDispatch)
                                           |
 client -- start --> host.start -- create --> store          (WorkflowStart)
                          |
                          +-- spawn_drive --> drive lock --> driver --> run_node --> executor
 client -- pause/resume/retry/cancel --> host --> conductor --> store            |
                          +-- cancel: fire tokens --> cancellation registry <----+
```

The driver, the node futures and the command handlers are tokio tasks that meet
only in the database rows, in the drive lock and in the cancellation registry.

```
 client -- StartRun --> row Queued --> registry.register --> worker --> request --> approval row
 client -- pause/resume/cancel: commit the row, then tell the registry      ^           |
 client -- resolve: commit the decision, then wake the waiter --------------+-----------+
 restart: fail live runs, expire orphaned requests, relaunch queued runs    (AgentRun)
```

### What makes each part correct

* **Engine**: a run reported completed is done; nodes run after their inputs;
  completed work is not redone; attempts are not granted twice; an accepted
  command is not overwritten by the driver; a cancel stops effects and drains;
  no runnable run is forgotten; every run comes to rest.
* **Drive lock**: one drive or retry advances a run at a time although lock
  objects are created and removed on demand.
* **Budget**: no attempt is charged twice or dropped; no breach is hidden by the
  arithmetic; a blocked node does not spend again; a run does not complete over
  its envelope unnoticed (true of one node at a time until the first fault; in
  general the code does not keep it, section 5).
* **Start**: a request delivered many times has one run, of the right owner, that
  does what was asked, and that run is driven.
* **Automation**: no occurrence is lost while the loops keep up; a backlog is
  replayed no further than its policy allows; a due binding is re-armed; a
  reservation is settled, and what its receipt says is what an attempt recorded.
* **Agent run** (of the framework worker): one worker at a time; it acts on the
  decision that was recorded and is not left waiting for one; an end is final and
  every event agrees with it; a run re-driven after a crash repeats no effect; a
  cancel is completed.

## 2. The modules

| Module | Models | Notes |
|---|---|---|
| `WorkflowEngine` | store, driver, conductor, host and executor of one run | the core; every store statement or locked section is one step |
| `MCWorkflowEngine` | | two small graphs |
| `WorkflowEngineProofs` | | proofs about the engine |
| `DriveMutex` | | abstract mutual exclusion |
| `DriveLocks`, `DriveLocksProofs` | `run_lock`, `prune_run_lock` and their users | implements `DriveMutex` |
| `BudgetCharge`, `BudgetChargeProofs` | `budget.rs` as operators | checked against exact arithmetic on what the ledger reaches |
| `WorkflowBudget`, `MCWorkflowBudget`, `WorkflowBudgetProofs` | the engine composed with its ledger (`cost_json`) | every step is an engine step; refines `WorkflowEngine` |
| `WorkflowStart`, `MCWorkflowStart`, `WorkflowStartProofs` | `start` and the idempotent creation | several owners, keys and deliveries |
| `AutomationSchedule`, `MCAutomationSchedule`, `AutomationScheduleProofs` | claiming: due rows, leases, `decide_schedule`, reservation; `update_binding` | several loops over one database, discrete time |
| `AutomationDispatch`, `MCAutomationDispatch`, `AutomationDispatchProofs` | from a reserved receipt to a run: `tick`, `dispatch`, `sweep_pending`, deliveries | one binding, any receipts |
| `AgentRun`, `MCAgentRun`, `AgentRunProofs` | one agent run: registry, framework worker, brokers, commands, recovery | every commit and every signal is a step |

### WorkflowEngine and the code

Durable rows are `runState`, `nodeState`, `attempt`; they survive `CrashRestart`.
`compiles` says whether the binary at hand still compiles the stored manifest to
the stored signature: a restart may bring one that does not. Everything else is
memory. `drive` is the program counter of the one task that holds the run's drive
lock (`DriveLocks` justifies "the one"); `queued` counts tasks waiting for it.

| `drive` | Code |
|---|---|
| `idle`, `check`, `begin` | `spawn_drive`: acquire, terminal check, publish running, `cancellations.begin` |
| `enter`, `reset` | `run_observed`: recompile, signature guard, refusal, recovery resets, `try_transition_to_running` |
| `round`, `frontier` | the snapshot of a round: run row, then node rows |
| `fill`, `await`, `recheck` | the wave: fill free slots, `inflight.next()`, re-read of the run |
| `final`, `settle`, `reread` | verdict, conditional terminal write, what to report instead |
| `abort`, `publish`, `finish` | unconditional failed write, publication, `cancellations.finish` and release |

`exec[n]` is the program counter of node `n`'s future in `run_node` and the
executor: `launched`, `head` (write running), `gate` (budget and preparation),
`working`, then the outcome; a tool that needs approval goes through `parking`,
`parked`, `granted` or `refused`, `effect`. `cmd[c]` is the handler of client `c`.
A cancel is four steps (flip, skip, fire, publish), a pause two, a retry waits
for the lock and is then one transaction. Early returns and failing store calls
are `DriveCheck`, `DriveDbError`, `NodeDbError`, `NodeParkFails`.

`cancelled`, `driveActive`, `handles`, `fired` are the run's entry in
`WorkflowRunCancellations`; an absent entry is the all-default one.
`published` is what subscribers were last told. `acked` is a history variable:
a cancel of the present cancelled state has fired its tokens.

Abstractions: costs are in `WorkflowBudget`; error texts, sessions and backoff
durations are left out; an agent's or a tool's work is one step with any outcome;
a wave may launch its ready nodes in any order (the code's topological order is
one of them); an approval is decided by an environment step.

### The other modules

`WorkflowBudget` adds to the engine's steps what they do to the ledger: the one
read before the work (`view`), the verdict with that read, the bill an outcome
carries, banking of failed attempts, and which resets keep or clear the cost.
`spent` is a history variable, the exact cost of the attempts since the last
retry, whatever the rows record or a crash loses of it. A manifest read that fails
and leaves the attempt without an envelope, and a bank write that fails, are counted
in `misses`. Tokens are recorded by the code and never charged, so they are left out;
the conversion of dollar ceilings goes through floating point and is not modelled.

`WorkflowStart` identifies a definition with its digest, compares inputs and
repository as one value, and sees of a run only whether a drive touched it.
The comparison of workflow ids and the rejection of malformed digests are left
out, and no request has both a ceiling and an expected digest, as no caller
sends both. `receipts` and `late` are history variables: who was told "started",
and whether a delivery came after that.

`DriveLocks` keeps `Arc::strong_count` as what it is, the number of clones plus
the registry's own reference.

`AutomationSchedule` counts time in ticks. `todo` and `leased` are the locals of
`claim_due`; a claim (`ClaimOne`) is the one transaction of `claim_one`, with the
fence and the row re-read in it (`StillDue`), the decision, the compare-and-swap
(`Rearm`) and the unique insert (`InsertReceipt`). A schedule fires at multiples
of its period, standing for the instants `next_cron_occurrence_after` computes. A
fence is only compared with the number its loop was given, so the lease keeps the
loop that acquired it last. Two loops are two daemons over one data directory
with different sockets: the single-instance mutex is the socket (`lib.rs:105-111`,
`server.rs:370-380`), whose path follows the environment (`discovery.rs:162-171`).
They have one lease holder, for `record_boot` reads the instance id from the
database's one `daemon_instance` row (`instance.rs:20-39`, `lib.rs:384`): a lease
never keeps them apart, only the fence does. `outage` and `moved` are history
variables: what a late claim found unfired, at which instant, and whether every
claim since was decided by a clock no older (`ordered`); and whether a late claim
or a new source moved the schedule.

`AutomationDispatch` keeps receipts and attempt rows of one binding. Instants
become what the statements ask of them: an open attempt is `stale` after the
interruption period, a waiting one `due`, a receipt `old` after the orphan period.
Time that passes although a task is still at the attempt (the host slept, a start
took very long, or an attempt claimed behind it waits its turn) is a counted fault,
`stalls`. `start` creates the run of the
receipt's key, finds the same request there, or refuses another one: what
`WorkflowStart` proves of it. The gates before it (owner, policies, budget,
approval, checkout, workflow) deny or not.

`AgentRun` follows one run that the framework worker executes. A run of an ACP model
is handed to `execute_acp` (`executor.rs:1054`, `1418-1854`), another worker with
its own safe point, transitions and permission requests, which ends a run in two
steps (`1837-1852`): it is not modelled and nothing here is claimed of its runs.
`row`, `completions`, `started`, `asks` are durable; `live`, `starting`, `pending`
are the run's part of `RunControlRegistry`; `waiter` is the brokers' map; `signals`
and `wakes` are commands and decisions that have committed and whose second half has
not run. `worker[i].pc` walks `execute_run`: `setup` (the assembly before it, which
may fail), `begin`, `held` (paused before it began), `quit`, `quitted` (cancelled
before it began), `prepare`, `enter`, `loop`; an approval goes through `request`,
`register`, `wait`, `parked`, `gate` (the safe point after the decision), `look` and
`back` (`transition_if_needed` reads, then writes); a tool through `exec` (safe
point and ToolStarted), `effect`, `tool`; `user.ask` through `hold`, `ask`, `enrol`,
`listen`, `release`; and the end through the terminal states, `fail` and `exit`. A
re-drive is read, check (the ToolStarted events of the ledger), spawn, or refuse and
forget, with the release on an unreadable row and the refusals on unreadable
provenance or ledger; a request may be approved at once (an approval of the run, a
pattern or a repository rule). Fast reads of the token and of the row right after it
are one step where nothing distinguishes them from two. What the model answers and
what a tool does is any choice. Left out: rewriting hooks, steering, compaction,
document-publish jobs that recovery spares, the clearing of the prompt queue after a
cancel, and the approval expiry sweep, which never takes an agent run's approvals:
they are requested without a time to live.

Definitions whose comment begins with "Fault:" are not part of any
specification. Each is a plausible bug of the definition after it, and
`PROJECT.json` names the property that notices it.

## 3. The runs

Run one with `tlc -workers 2 -config X.cfg M`.

### Runs that pass

| Run | Instance | Shows |
|---|---|---|
| `engine_core` | a then b, c beside them, width 2, two attempts, one client with two commands, a store error; 890 thousand states | `TypeOK`, `CompletedRunIsDone`, `DependencyOrder`, `NoOrphanFuture`, `SettledRunHasNoLiveNode`, `AcceptedCommandSticks`, `NoEffectAfterCancel` |
| `engine_liveness` | two nodes, one slot, two attempts, two clients, two commands, a crash that may bring an incompatible binary; 450 thousand states | `WaveBound`, `NoStrandedRun`, `CompletedNodesStay`, `AttemptsOnlyGrow`, `CancelDrains`, `RunComesToRest` |
| `drive_locks` | three tasks, four mutex objects | `OneLockPerRun`, `ImplementsMutex` |
| `budget` | two nodes one at a time, retries, blocks, parks, a command, a crash, a store error, a missed read or write, sums that saturate and one at exactly four fifths; 2 million states | `LedgerIsAFloor`, `ChargeIsExact`, `WarnsAtFourFifths`, `EveryAttemptCharged`, `NoSilentOverrun`, `BankedSpendStays`, `ReblockSpendsNothing` |
| `start` | two deliveries of eight kinds of request, an edit, a crash, a store error | `AcceptedIsServed`, `RetryRecoversReceipt`, `CreatedIsDriven` |
| `schedule` | two daemons, one binding of each source and missed-run policy, four instants, a patch, a crash; 600 thousand states | `BacklogBounded`, `NothingLostOnTime`, `DueIsRearmed` |
| `dispatch` | an occurrence and a delivery, one loop and one handler, two attempts, one fault (crash, failing statement or overtaken attempt), one toggle; 190 thousand states | `OutcomeRecorded`, `AttemptsBounded`, `SettledOnce`, `ReservationSettles` |
| `run_control` | one run, two requests, two workers, two commands, a crash; 63 thousand states | `OneWorker`, `DecisionAgrees`, `EvidenceAgrees`, `EffectsOfOneWorker`, `EndIsFinal`, `AnswerReachesWorker`, `CancelCompletes` |

Deadlock is switched off where the system may stop: a finished or paused run with
its bounds used up has nothing left to do. `drive_locks` never stops and is
checked for deadlock.

Bounds. Two commands are the shortest sequence in which one undoes the other
(pause and resume, cancel and retry); one crash at any step reaches every recovery
path, one store error every error path. Three nodes with one edge give a
dependency, an independent neighbour in the same wave and, with width two,
refilling. The run with a crash has two clients, so that the halves of a cancel
and a retry interleave; crash and store error come together in `budget`, whose
steps are the engine's. All safety properties of the engine are also proved for
every graph, client set and bound (section 4), so the instances only have to be
large enough to show that the properties can fail, which the mutants do.

`BankedSpendStays` is stated until the first crash or store error,
`EveryAttemptCharged`, `ReblockSpendsNothing` and `NoSilentOverrun` also until the
first miss, the last one of one node at a time. It compares the envelope with what
the attempts really cost (`spent`), not with what the rows record: beyond these
premises the code breaks them (sections 5 and 6). `BacklogBounded` is stated of
outages whose later claims are decided by clocks no older than the one that found
them; with one loop there are no others (`OneDaemonReplays`).

Four instants with a grace of one and a scan bound of three hold an on-time claim,
two occurrences within the grace window, a backlog the policies treat differently
and one that is refused. A lease of one tick expires under its holder. A second
receipt lets a linked live run hold the other back; two attempts are the first and
one retry, and one fault reaches each recovery path. For an agent run two commands
are again the shortest sequence in which one undoes the other, two requests let an
approval for the run be reused, and the second worker is the re-driven or
relaunched one.

`SettledOnce` and `AttemptsBounded` are stated while no attempt is overtaken and
checked with one tick loop, `DueIsRearmed` unless the binding is disabled or its
decision refused for good or two daemons contend for its lease for ever (each may
take it before the other has claimed under it), `CancelCompletes` while the daemon
lives: beyond that the code does not keep them (section 6).

### Fairness

`Fairness` is weak fairness of the drive, of each node's future and of each
handler: tokio polls every ready task, `FuturesUnordered` polls every ready
future, the drive lock is handed over when released, and agents and tools end by
their token, their timeout or their turn limit. Nobody owes an approval decision,
so `Fairness` says nothing of `Decide` and `CancelDrains` holds without it.
`RunComesToRest` has the premise `ApprovalsExpire`: approvals carry a
time-to-live and the expiry sweep rejects them. `WorkflowStart` assumes the same
of its handlers and drives; nothing is assumed of clients, edits, crashes or errors.

The automation loops sleep for a tick and go on for ever whatever a tick returns,
so their steps are weakly fair, and so are time, the handler of a delivery and a
dispatch, which are tokio tasks. Of an agent run the steps between two waits, the
spawned tasks and the second halves of commands and decisions are weakly fair;
nothing is assumed of its setup, of the model, of a tool that runs or of the people
who answer.

## 4. The proofs

Check with `tlapm M.tla`. The engine theorems hold for every finite graph, any
clients, any retry policy, width and bound; the assumptions are
`GraphAssumption` and `BoundAssumption`. Each safety theorem is proved for the
specification without fairness and follows for the one with it.

| Theorem | States | Rests on |
|---|---|---|
| `TypeCorrect` | types, attempts within the policy | inductive as it stands |
| `NeverStranded`, `CompletedIsDone`, `NoFutureEscapes` | `NoStrandedRun`, `CompletedRunIsDone`, `NoOrphanFuture` | `RunInv` |
| `DependenciesHold`, `CompletedKept`, `AttemptsKept` | `DependencyOrder`, `CompletedNodesStay`, `AttemptsOnlyGrow` | `NodeInv` with `RunInv` |
| `CommandsStick` | `AcceptedCommandSticks`, if no restart brings an incompatible binary | `CompilesInv` |
| `NoLateEffect` | `NoEffectAfterCancel` | `CancelInv` |
| `WaveStaysNarrow` | `WaveBound` | lemmas on cardinalities |
| `NothingLeftRunning` | `SettledRunHasNoLiveNode` | `LiveRowHasFuture` with `RunInv` |
| `RegistryIsSound`, `RegistryIsMutex` | `OneLockPerRun`, `ImplementsMutex` | `LockInv` |
| `ExceededIsMonotone`, `SaturationHidesNothing`, `BreachNamedExactly`, `WarnsExactly` | about `charge`, for all limits and costs: monotone, exact, names the first breach, warns at four fifths | lemmas on saturating sums |
| `BudgetIsEngine` | the engine with its ledger implements the engine | step by step |
| `NothingChargedTwice` | `LedgerIsAFloor` | `LedgerInv` |
| `ChargesAreExact`, `WarningsAreExact` | `ChargeIsExact`, `WarnsAtFourFifths` | `BillInv`, then `BreachNamedExactly` and `WarnsExactly` on sums over nodes |
| `SpendIsKept` | `BankedSpendStays` | `BillInv` with `LiveRowHasFuture` |
| `NothingGoesUncharged` | `EveryAttemptCharged` | `ChargedInv` |
| `BlockedStaysBlocked` | `ReblockSpendsNothing` | `ReblockInv` |
| `EnvelopeHolds` | `NoSilentOverrun` | `OverrunInv` and `ChargedInv` with `WaveBound` |
| `StartIsIdempotent`, `ReceiptIsRecovered` | `AcceptedIsServed`, `RetryRecoversReceipt` | `StartInv` |
| `NoneLostOnTime` | `NothingLostOnTime` | `OnTimeInv` |
| `ReplayIsBounded` | `BacklogBounded` | `OutageInv` |
| `OneDaemonReplays` | `ReplayBounded`: `max_occurrences` bounds what is replayed, with one tick loop | `InOrder` with `OutageInv` |
| `ReceiptsTellTheTruth` | `OutcomeRecorded` | `OutcomeInv` |
| `AttemptsAreBounded`, `ReceiptsSettleOnce` | `AttemptsBounded`, `SettledOnce`, with one tick loop | `SettleInv` with `OutcomeInv` |
| `AgentRunProofs!TypeCorrect`, `NeverTwoWorkers` | types, `OneWorker` | `RegistryInv` |
| `EvidenceIsTrue`, `EndStays` | `EvidenceAgrees`, `EndIsFinal` | `EvidenceInv` |
| `DecisionsAreTrue` | `DecisionAgrees` | `DecisionInv` |
| `RedriveRepeatsNothing` | `EffectsOfOneWorker` | `EffectInv` with `QueuedInv` |

The automation theorems hold for any bindings, loops, periods, policies, receipts,
sweepers, handlers and numbers of faults (`ScheduleAssumption`,
`DispatchAssumption`), those of the agent run for any number of requests, workers,
commands and crashes (`AgentRunAssumption`). `AttemptsAreBounded` and
`ReceiptsSettleOnce` add the hypothesis `OneTickLoop`: the database is served by one
daemon, which runs one loop (handlers of deliveries may be any number). With two
loops TLC finds a counterexample to both, see section 6. `NoneLostOnTime` and
`ReplayIsBounded` have no such hypothesis: any number of daemons, all with the one
holder the database gives them. Two of them can take a lease from each other with an
older clock, and such a claim is what `ordered` excepts; `OneDaemonReplays` drops the
exception for one loop.

The budget theorems hold for any graph, ceilings, costs and word size
(`BudgetAssumption`, `NumberAssumption`, `NoneAssumption`); `EnvelopeAssumption`
says that the envelope is the workflow's and so the same for every node. What they
say of sums over nodes needs an induction over finite sets. The library's induction
theorems cannot be instantiated here, so `BudgetChargeProofs!SubsetInduction` takes
a smallest subset outside a given family (`WFMin` on cardinalities) and shows that
it cannot exist; `FoldIsSum` and `SumOf` connect the fold the code's loop is with
that induction.

The inductive invariants:

* `RunInv` says in which places of a drive a run can be pending or completed, that
  a verdict "completed" still agrees with the rows when it is written, that a wave
  is marked halted only inside a wave or on the way out, and that no future is in
  flight outside one. `NoStrandedRun` needs it because what matters is not where a
  drive is but whether it will look at the run again.
* `NodeInv` says that what waits in the wave has its inputs, an executing node is
  not completed, and a future's own attempt counter is not behind the row: a row
  is only ever overwritten with a later attempt.
* `CompilesInv`: no drive is on its way to the unconditional failed write.
* `CancelInv` says that the begin/finish bracket spans the drive and that between
  its first and last look at a cancelled run the sticky flag remembers the cancel,
  which is why a token registered late is born cancelled.
* `LockInv` adds to `OneLockPerRun` who owns a clone and that one task holds. The
  one arithmetic lemma, `CountMeansAlone`, says why a strong count of at most two
  leaves nobody else.
* `LedgerInv` bounds what a running attempt read of its own row, and the bill it
  carries, by what the node spent.
* `LiveRowHasFuture`: until the first fault, a row that says running or waiting for
  approval has a future that will still write it.
* `StepShape` says what a step can do to the ledger: nothing, or one of eight writes
  at one node. The next four invariants are proved from it, write by write, and not
  from the engine's actions.
* `BillInv`: what an attempt read of its own row is what the row still records, its
  bill is a charge on top of that, and its outcome is the verdict on the bill, or on
  the record alone when the pre-gate blocked it; until the first miss its limits are
  the node's.
* `ChargedInv`: what a node's row records, or its finished attempt carries, is what
  it spent, up to saturation. In the middle of an attempt the row is behind, so the
  property holds at rest only and the invariant follows the bill.
* `ReblockInv`: the ledger of a blocked node stays over a ceiling, what an attempt
  read of other nodes is a lower bound of what they record now, and a blocked node
  that reads the ledger again finds it exhausted.
* `OverrunInv`: with one future in flight nobody writes between an attempt's read
  and its verdict, so what it read of the others is still true when it completes;
  and once the last node completes the recorded total is within the envelope.
  `ChargedInv` turns the recorded total into the real one; it is why the theorem ends
  at the first fault.
* `StartInv` says of each handler that what it is about to insert, or has found,
  is what its request asks for.
* `OnTimeInv`: until a late claim or a new source moves a schedule, its
  `next_fire_at`, and the copy a patch in progress will write back, is an instant
  of the schedule before which everything is reserved. The patch has to be in it:
  it may take `next_fire_at` back, and what it restores was good when it was read.
* `OutageInv`: the claim that finds a backlog leaves a floor. From the floor on lies
  no more than the policy replays, a later claim of the same backlog fires nothing
  below it (`LaterFiresLater`), and neither `next_fire_at` nor what a patch will
  write back lies between the start of the backlog and the floor (`InstantsOK`,
  `PatchBehind`, `OutageFloored`). A claim by an older clock than the one that found
  the backlog may fire below the floor, and ends what is said of that backlog. With
  one loop there is none, since its instants only grow (`InOrder`). That `catch_up`
  finds the occurrence it fires (`KthLatest`) is again an induction by least number.
* `OutcomeInv` says who owns an attempt: no two tasks work on, or are about to
  dispatch, the same attempt number, and an attempt somebody owns records no
  outcome but a failure. So a late `finish` overwrites only its own attempt, and
  the attempt another receipt state rests on stays.
* `SettleInv` is about a reserved receipt: only its last attempt can be open, there
  is room for one more if it failed, a task at work has the last attempt, and what
  the sweep has read of a receipt and not yet acted on is still so. The last part is
  where one loop is needed: nobody else opens or closes what the sweep has read.
* `RegistryInv`: a worker that is alive holds the control handle, a re-drive in
  progress the reservation, and the registry never has both.
* `EvidenceInv`: a completion is only recorded with or after the terminal state.
* `DecisionInv`: in the waiter, in the wake-up under way and in the worker a
  decision is the one the row records.
* `EffectInv` and `QueuedInv`: an effect is behind a ToolStarted event, a re-drive
  is spawned only without one, and a run still queued at a restart has done
  nothing, so whoever comes later than an effect is the launch itself.

Every safety property a passing run checks is also a theorem. Only model-checked:
liveness under fairness (`CancelDrains`, `RunComesToRest`, `CreatedIsDriven`,
`DueIsRearmed`, `ReservationSettles`, `AnswerReachesWorker`, `CancelCompletes`), which
is outside the prover's reach.

## 5. Where code and comments disagree

Each has a run whose trace shows it.

* **A blocked run can fail unexamined** (`blocked_fails`). A node blocks and pauses
  the run; a resume that arrives before the wave re-reads the run makes it
  running, so the wave is not halted, the next round finds nothing ready, and the
  run is written failed with the node still blocked. `drive.rs:355-359`: a resume
  re-evaluates it.
* **A re-driven delivery passes the filters** (`filter_bypass`). The handler of a
  webhook reserves the delivery and dies; the sweep re-drives the receipt with an
  empty event (`automation_scheduler.rs:1450`), and filters are asked only of an
  event with a type (`:1092`). `automation_scheduler.rs:615-617`: a filter is
  refused rather than "running an automation whose author narrowed it and getting
  the wide behaviour anyway".
* **A worker overwrites a pause** (`pause_overwritten`). `PauseRun` commits before it
  signals. A worker past its safe point writes Preparing, the pause commits, and the
  worker writes Running over it (`agent.rs:2906-2909`), legal from Paused for it too
  (`ledger.rs:260`). It then holds at the next safe point with its row Running, and
  `ResumeRun`, legal from Paused only, is refused. `agent.rs:2868-2870` wants that the
  Paused row "is not immediately overwritten by a worker that has not done any work".
  The way back from an approval has the same race; `agent.rs:4516-4517`: resolving an
  approval "must not overwrite Paused".
* **A run completes over its envelope** (`overrun_silent`). Nodes of one wave read what
  the others consumed once, before they work (`workflow_exec.rs:914`); each stays
  within the envelope by its own reading, and together they exceed it with no node
  blocked and no run paused. `budget.rs:7-9`: a breach blocks the node and pauses the
  run, "so an overrun is never silent". A crash does the same to one node at a time:
  what the interrupted attempt spent was never written, and the reset of its row
  clears what earlier attempts banked (`store.rs:1068`).

## 6. Further limits of the code, modelled but without a run of their own

The models contain these behaviours; properties that they would break are stated
with the exception. The hazards of `PROJECT.json` are the ones a property is about
and a few more; this list has the rest.

* The re-read of the run after each finished node returns its store error at once
  and drops the futures in flight (`drive.rs:476`), although `drive.rs:447-450`
  wants a wave to drain.
* When the manifest no longer compiles, `spawn_drive` writes failed over a cancel
  accepted after its terminal check (`workflows.rs:361`), although `conductor.rs:228`
  calls Cancelled terminal and `drive.rs:524` guards the driver's own write; hence the
  premise of `CommandsStick`.
* Early returns of `spawn_drive`, and `retry_node`, never prune the lock registry
  (`workflows.rs:285`): entries outlive their last user.
* `reset_interrupted_node` clears the whole cost (`store.rs:1068`): a crash during
  a second attempt loses what the first banked, although `workflow_exec.rs:1245`
  relies on it being read back, and a crash between a resume's running write
  (`drive.rs:615`) and the pre-gate lets a blocked node redo its work.
* A drive that ends with a transient store error is only logged
  (`workflows.rs:346`); the run waits for the next restart. Hence the premise of
  `NoStrandedRun`.
* A crash while a cancelled run drains leaves its rows running (`workflows.rs:261`).
* `run_node` writes running over whatever the row holds (`drive.rs:615`): a node a
  cancel skipped after its future was launched still runs. `store.rs:1159`:
  un-started nodes "will never run".
* Drives and handlers publish phases outside whatever ordered their writes
  (`workflows.rs:340`), so the last one published can be stale; `workflows.rs:1181`
  wants "the live and catch-up paths" to agree.
* A start that names a workflow and is bound to no definition is resolved again on
  every delivery (`store.rs:499`): after an edit of the file it no longer matches
  its own run, although `automation_scheduler.rs:1172` relies on it resolving "to
  the SAME run on re-drive". A re-driven delivery has other inputs than the first
  one had (`:1450`) and is refused in the same way: the receipt then says failed of a
  run that was started.
* An attempt given up as interrupted (`automation_scheduler.rs:1350`) may still be
  at work, and its late `finish` overwrites the settled receipt; with two daemons
  the sweep of a disabled binding can abandon what the other settled, and two
  loops that read the same owed receipt act on it one after the other, so that the
  second closes or abandons what the first has opened anew. A binding
  disabled after a crash has its receipt abandoned although its run was started.
* Two daemons over one database have one lease holder, so either takes a lease the
  other still holds (`automation_scheduler.rs:873`), although `:854` gives up when
  "a live lease is held elsewhere". The fence keeps the claims apart, but a claim
  may be decided by an older clock than the one before it; with a stale patch
  (`automation.rs:898`) between them more than `max_occurrences` can be replayed
  (`:585-587`), and two daemons in step can take the lease from each other for ever
  without a claim.
* An error at a later lease drops the reservations the tick has committed
  (`:834`); they wait for the interruption period.
* A backlog longer than `MAX_OCCURRENCE_SCAN` is refused at every later tick
  (`:545`), and refused bindings stay the oldest due ones, so `MAX_CLAIMS_PER_TICK`
  of them hide the others.
* `skip` and `run_once` also drop occurrences that are still within the grace
  window when the oldest one is not.
* A pause that commits while its worker is on its way into Preparing or a wait makes
  the worker's transition illegal: the worker dies and `fail_run` spares a paused
  run (`executor.rs:3161`). A resume re-drives it then, except between that and the
  worker's `forget` (`executor.rs:3180`), where it is left Running without a worker.
  Callbacks of a pause and a resume from two connections can also reach the registry
  in the opposite order.
* A crash between a cancel's commit and its completion leaves a cancelled run
  without its RunCompleted event: recovery looks at live runs only
  (`recovery.rs:88`), so the session stays open although `executor.rs:3233` wants
  that it "cannot remain blocked forever"; only a `CancelRun` the client delivers again
  repairs it. Hence the premise of `CancelCompletes`.
* A run cancelled before it began uses the plain append (`agent.rs:2853`), so its
  completion can be recorded twice, by the worker and by the cancel's fallback.
* A manifest that cannot be read leaves a node without its envelope for an attempt
  (`workflow_exec.rs:823`), on purpose; an unreadable run does not count as fresh,
  so a created run may wait for the next restart (`workflows.rs:450`).
* `skip` sees only runs already linked to a receipt (`automation_scheduler.rs:1332`).
* While the daemon lives the pending requests of a cancelled run stay pending; a
  restart expires them (`approvals.rs:789`). The pending approval of a preserved
  paused run is never consumed: the re-driven worker makes a new request. A
  question's waiter of a cancelled worker is never removed.
* Not modelled, but seen: consolidation reads every live proposed patch of the run,
  its own earlier result included (`workflow_exec.rs:2168`), and a ceiling goes
  through a floating-point number and back (`workflows.rs:925`).
* StartRun's launch does not ask the ledger; overtaken by a pause, a resume and the
  whole life of the re-driven worker it would work again. `EffectsOfOneWorker`
  excepts it.

## 7. Not modelled, and the plan

The rest of the daemon and the other crates are listed in `PROJECT.json` with the
reason: most of the repository is terminal, web and desktop interfaces, protocol
types, model providers, search and parsing, which keep no state two actors share.
Next, in this order:

1. **ACP worker** beside `AgentRun`, over the same registry and brokers: its safe
   point and the two steps of its end.
2. **Prompt queue and the rest of the command processor**: idempotent acceptance,
   pending effects, an idempotent drain; nothing lost or executed twice.
3. **Compiler** as a pure algorithm: duplicate, dangling and cyclic dependencies
   rejected exactly, and the topological order, against a reference definition.
4. **Blackboard and patch consolidation**: supersession and what a retried
   consolidation reads.
5. **Ledger sequences and subscriptions**: gap-free catch-up.
6. **Control-plane sync**: outbox and receipts over an unreliable network.
7. Candidates after that: worktree leases, secret leases, runner jobs, marketplace
   packages, UI documents.
