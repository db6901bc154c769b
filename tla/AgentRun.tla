------------------------------ MODULE AgentRun ------------------------------
(***************************************************************************)
(* One agent run under control.  Its row and its ledger are durable; a     *)
(* worker of the daemon drives it (runtime/src/agent.rs: execute_run,      *)
(* run_tool, authorise_action), parking on the approvals and questions the *)
(* brokers keep (daemon/src/approvals.rs, questions.rs); clients pause,    *)
(* resume and cancel it and answer what it asks (daemon/src/commands.rs);  *)
(* the executor's registry carries their commands to the worker            *)
(* (codypendentd/src/executor.rs: RunControlRegistry); the daemon dies and *)
(* recovers (daemon/src/recovery.rs).                                      *)
(*                                                                         *)
(* The worker is the framework's.  A model served by an external agent is  *)
(* driven by another one (execute_acp), which is not modelled: nothing     *)
(* here is about its runs.                                                 *)
(*                                                                         *)
(* A command is two steps: its transaction commits, and only then is the   *)
(* registry, or the waiter of a request, told.  Another connection, or the *)
(* worker, may act between the two, and a crash loses the second.          *)
(***************************************************************************)
EXTENDS Naturals, Sequences

CONSTANTS
    MaxAsks,      \* bounds: approval and question rows, workers spawned,
    MaxWorkers,   \* lifecycle commands, daemon crashes
    MaxCommands,
    MaxCrashes

ASSUME AgentRunAssumption ==
    /\ MaxAsks \in Nat /\ MaxWorkers \in Nat
    /\ MaxCommands \in Nat /\ MaxCrashes \in Nat

VARIABLES
    row,          \* runs.state
    completions,  \* the dispositions of the run's RunCompleted events
    started,      \* a ToolStarted event of the run is in the ledger
    asks,         \* asks[a]: state of an approval or question row
    phase,        \* of the daemon: "down", "expiring", "up"
    live,         \* registry: value of the run's control handle, or "none"
    starting,     \* registry: a re-drive is reserved
    pending,      \* registry: commands kept for a worker to come
    waiter,       \* brokers: waiter[a] is "none", "parked" or the decision
    signals,      \* committed commands the registry has not been told of
    wakes,        \* wakes[a]: a committed decision its waiter was not told of
    redrive,      \* the task resume_run spawned: "none" or its next step
    fallback,     \* the task cancel_run spawned has not settled the run
    worker,       \* worker[i]: [pc, ask, said] of the i-th worker
    spawned,      \* workers spawned so far
    launched,     \* the worker StartRun's own launch spawned, or 0
    effects,      \* the workers that began a tool's effect
    crashes, commands

Worker == 1..MaxWorkers
Ask == 1..MaxAsks
Terminal == {"Completed", "Failed", "Cancelled"}
RunState == Terminal \cup {"Queued", "Preparing", "Running", "Paused",
                           "WaitingForApproval", "WaitingForUserInput"}
Decision == {"approve", "reject"}
RedriveStep == {"none", "read", "release", "check", "refuse", "forget", "spawn"}
(* A question answered counts as approved.                                 *)
AskState == {"none", "pending", "approved", "rejected", "expired"}
PC == {"none", "setup", "begin", "held", "quit", "quitted", "prepare", "enter",
       "loop", "request", "register", "wait", "parked", "gate", "look", "back",
       "exec", "effect", "tool", "hold", "ask", "enrol", "listen", "release",
       "Completed", "Cancelled", "Failed", "fail", "exit"}
Idle == [pc |-> "none", ask |-> {}, said |-> "none"]

durable == <<row, completions, started, asks>>
registry == <<live, starting, pending>>
launches == <<spawned, launched>>
tasks == <<redrive, fallback, launches, effects>>
bounds == <<crashes, commands>>
vars == <<durable, phase, registry, waiter, signals, wakes, tasks, worker, bounds>>

TypeOK ==
    /\ row \in RunState /\ completions \in Seq(Terminal) /\ started \in BOOLEAN
    /\ asks \in [Ask -> AskState]
    /\ phase \in {"down", "expiring", "up"}
    /\ live \in {"none", "Running", "Paused", "Cancelled"}
    /\ starting \in BOOLEAN /\ pending \subseteq {"pause", "cancel"}
    /\ waiter \in [Ask -> {"none", "parked"} \cup Decision]
    /\ signals \subseteq {"spawn", "pause", "resume", "cancel"}
    /\ wakes \in [Ask -> {"none"} \cup Decision]
    /\ redrive \in RedriveStep /\ fallback \in BOOLEAN
    /\ worker \in [Worker -> [pc : PC, ask : SUBSET Ask, said : {"none"} \cup Decision]]
    /\ spawned \in 0..MaxWorkers /\ launched \in 0..MaxWorkers /\ effects \subseteq Worker
    /\ crashes \in 0..MaxCrashes /\ commands \in 0..MaxCommands

(* StartRun committed the row; the launch has not reached the executor.    *)
Init ==
    /\ row = "Queued" /\ completions = <<>> /\ started = FALSE
    /\ asks = [a \in Ask |-> "none"]
    /\ phase = "up" /\ live = "none" /\ starting = FALSE /\ pending = {}
    /\ waiter = [a \in Ask |-> "none"]
    /\ signals = {"spawn"} /\ wakes = [a \in Ask |-> "none"]
    /\ redrive = "none" /\ fallback = FALSE
    /\ worker = [i \in Worker |-> Idle] /\ spawned = 0 /\ launched = 0
    /\ effects = {}
    /\ crashes = 0 /\ commands = 0

Goto(i, pc) == worker' = [worker EXCEPT ![i].pc = pc]

-----------------------------------------------------------------------------
(* The registry.                                                           *)

(* The handle takes the strongest command kept for the run.                *)
Install ==
    /\ live' = CASE "cancel" \in pending -> "Cancelled"
                 [] "pause" \in pending /\ "cancel" \notin pending -> "Paused"
                 [] OTHER -> "Running"
    /\ pending' = IF "cancel" \in pending THEN pending \ {"cancel"}
                  ELSE pending \ {"pause"}
    /\ spawned' = spawned + 1
    /\ worker' = [worker EXCEPT ![spawned + 1].pc = "setup"]

(* Fault: a launch is registered over the worker there is.                 *)
RegistersAlways == TRUE
MayRegister == live = "none" /\ ~starting

ReserveStart == live = "none" /\ ~starting

Forget == live' = "none" /\ starting' = FALSE /\ pending' = {}

(* spawn_run: the launch of the accepted StartRun.                         *)
Spawn ==
    /\ phase = "up" /\ "spawn" \in signals /\ spawned < MaxWorkers
    /\ signals' = signals \ {"spawn"}
    /\ IF MayRegister
       THEN Install /\ launched' = spawned + 1 /\ UNCHANGED starting
       ELSE UNCHANGED <<registry, worker, launches>>
    /\ UNCHANGED <<durable, phase, waiter, wakes, redrive, fallback, effects, bounds>>

(* cancel_run: the fallback is spawned whether or not there is a worker.   *)
(* Fault: it is spawned for a live worker only.                            *)
SettlesLiveOnly == live # "none"
SettlesCancelled == TRUE

CancelRun ==
    /\ phase = "up" /\ "cancel" \in signals
    /\ signals' = signals \ {"cancel"}
    /\ IF live # "none"
       THEN live' = "Cancelled" /\ UNCHANGED pending
       ELSE pending' = pending \cup {"cancel"} /\ UNCHANGED live
    /\ fallback' = (fallback \/ SettlesCancelled)
    /\ UNCHANGED <<durable, phase, starting, waiter, wakes, redrive, worker, launches,
                   effects, bounds>>

PauseRun ==
    /\ phase = "up" /\ "pause" \in signals
    /\ signals' = signals \ {"pause"}
    /\ IF live # "none"
       THEN live' = (IF live = "Running" THEN "Paused" ELSE live) /\ UNCHANGED pending
       ELSE pending' = pending \cup {"pause"} /\ UNCHANGED live
    /\ UNCHANGED <<durable, phase, starting, waiter, wakes, tasks, worker, bounds>>

ResumeRun ==
    /\ phase = "up" /\ "resume" \in signals
    /\ signals' = signals \ {"resume"}
    /\ pending' = pending \ {"pause"}
    /\ live' = IF live = "Paused" THEN "Running" ELSE live
    /\ IF ReserveStart
       THEN starting' = TRUE /\ redrive' = "read"
       ELSE UNCHANGED <<starting, redrive>>
    /\ UNCHANGED <<durable, phase, waiter, wakes, fallback, worker, launches, effects, bounds>>

redriveOnly == <<durable, phase, live, pending, waiter, signals, wakes, fallback, worker,
                 launches, effects, bounds>>

(* redrive_resumed_run: only a row still Running is re-driven; otherwise,  *)
(* or when it cannot be read, the reservation is given back.               *)
RedriveRead ==
    /\ phase = "up" /\ redrive = "read"
    /\ \/ row = "Running" /\ redrive' = "check"
       \/ redrive' = "release"
    /\ UNCHANGED <<starting, redriveOnly>>

RedriveRelease ==
    /\ phase = "up" /\ redrive = "release"
    /\ redrive' = "none" /\ starting' = FALSE
    /\ UNCHANGED redriveOnly

(* Only a run of which no tool was ever started is spawned again.          *)
(* Fault: the ledger is not asked.                                         *)
RedrivesAnyway == "spawn"
AfterLedgerCheck == IF started THEN "refuse" ELSE "spawn"

(* A run whose provenance or ledger cannot be loaded is refused, too.      *)
RedriveCheck ==
    /\ phase = "up" /\ redrive = "check"
    /\ redrive' \in {AfterLedgerCheck, "refuse"}
    /\ UNCHANGED <<starting, redriveOnly>>

(* Fault: a run another path ended is failed all the same.                 *)
MayFailEnded == row # "Paused"
(* fail_run: a run that is paused or terminal is left as it is.            *)
MayFail == row \notin Terminal \cup {"Paused"}

FailRun ==
    IF MayFail
    THEN row' = "Failed" /\ completions' = Append(completions, "Failed")
    ELSE UNCHANGED <<row, completions>>

(* fail_recovery_refusal, then the registry.                               *)
RedriveRefuse ==
    /\ phase = "up" /\ redrive = "refuse"
    /\ redrive' = "forget" /\ FailRun
    /\ UNCHANGED <<started, asks, phase, registry, waiter, signals, wakes, fallback, worker,
                   launches, effects, bounds>>

RedriveForget ==
    /\ phase = "up" /\ redrive = "forget"
    /\ redrive' = "none" /\ Forget
    /\ UNCHANGED <<durable, phase, waiter, signals, wakes, fallback, worker, launches, effects,
                   bounds>>

RedriveSpawn ==
    /\ phase = "up" /\ redrive = "spawn" /\ spawned < MaxWorkers
    /\ redrive' = "none" /\ starting' = FALSE
    /\ IF live = "none" /\ starting
       THEN Install /\ UNCHANGED launched
       ELSE UNCHANGED <<live, pending, worker, launches>>
    /\ UNCHANGED <<durable, phase, waiter, signals, wakes, fallback, effects, bounds>>

(* complete_cancelled_run, after its grace period.                         *)
Fallback ==
    /\ phase = "up" /\ fallback
    /\ fallback' = FALSE
    /\ completions' = IF row = "Cancelled" /\ completions = <<>>
                      THEN <<"Cancelled">> ELSE completions
    /\ UNCHANGED <<row, started, asks, phase, registry, waiter, signals, wakes, redrive,
                   launches, effects, worker, bounds>>

-----------------------------------------------------------------------------
(* The worker.                                                             *)

workerOnly == <<phase, registry, signals, wakes, redrive, fallback, launches, bounds>>

(* The prior states append_run_state_changed accepts.                      *)
LegalFrom(s) ==
    CASE s = "Preparing" -> {"Queued"}
      [] s = "Running" -> {"Preparing", "WaitingForApproval", "WaitingForUserInput", "Paused"}
      [] s \in {"WaitingForApproval", "WaitingForUserInput"} -> {"Running"}
      [] OTHER -> RunState \ Terminal

(* transition(...)?: a refused one ends the worker.                        *)
Transition(i, s, next) ==
    IF row \in LegalFrom(s)
    THEN row' = s /\ Goto(i, next)
    ELSE UNCHANGED row /\ Goto(i, "fail")

(* let _ = transition(...): a refused one is ignored.                      *)
TryTransition(i, s, next) ==
    row' = (IF row \in LegalFrom(s) THEN s ELSE row) /\ Goto(i, next)

At(i, pc) == phase = "up" /\ worker[i].pc = pc

(* Context, model and worktree; any of them may be refused.  The worker    *)
(* that follows is execute_run.                                            *)
Setup(i) ==
    /\ At(i, "setup")
    /\ \E next \in {"begin", "fail"} : Goto(i, next)
    /\ UNCHANGED <<durable, waiter, effects, workerOnly>>

(* Before it begins: a cancelled run is ended at once, a paused one waits, *)
(* and only a run that was not paused here goes through Preparing.         *)
Begin(i) ==
    /\ At(i, "begin")
    /\ \/ live = "Cancelled" /\ Goto(i, "quit")
       \/ live = "Paused" /\ Goto(i, "held")
       \/ live = "Running" /\ Goto(i, IF row = "Running" THEN "loop" ELSE "prepare")
    /\ UNCHANGED <<durable, waiter, effects, workerOnly>>

Held(i) ==
    /\ At(i, "held")
    /\ \/ live = "Cancelled" /\ Goto(i, "quit")
       \/ live = "Running" /\ Goto(i, "loop")
    /\ UNCHANGED <<durable, waiter, effects, workerOnly>>

(* The end of a run cancelled before it began: the state, unless it is     *)
(* there, then RunCompleted through the plain append.                      *)
Quit(i) ==
    /\ At(i, "quit")
    /\ IF row = "Cancelled"
       THEN UNCHANGED row /\ Goto(i, "quitted")
       ELSE Transition(i, "Cancelled", "quitted")
    /\ UNCHANGED <<completions, started, asks, waiter, effects, workerOnly>>

Quitted(i) ==
    /\ At(i, "quitted")
    /\ completions' = Append(completions, "Cancelled") /\ Goto(i, "exit")
    /\ UNCHANGED <<row, started, asks, waiter, effects, workerOnly>>

Prepare(i) ==
    /\ \/ At(i, "prepare") /\ Transition(i, "Preparing", "enter")
       \/ At(i, "enter") /\ Transition(i, "Running", "loop")
    /\ UNCHANGED <<completions, started, asks, waiter, effects, workerOnly>>

(* wait_until_running: parked while paused.                                *)
SafePoint(i, next) ==
    \/ live = "Cancelled" /\ Goto(i, "Cancelled")
    \/ live = "Running" /\ Goto(i, next)

(* The next request's identity; there is none once MaxAsks are taken.      *)
Fresh == {a \in Ask : asks[a] = "none" /\ \A b \in 1..(a - 1) : asks[b] # "none"}

(* A step of the model, and the safe points before and after it: the run   *)
(* ends, or a tool is called that policy allows or wants approved.         *)
Loop(i) ==
    /\ At(i, "loop")
    /\ \E next \in {"Completed", "Failed", "exec", "request"} :
        (next = "request" => Fresh # {}) /\ SafePoint(i, next)
    /\ UNCHANGED <<durable, waiter, effects, workerOnly>>

Park(i, a, state, said, next) ==
    /\ asks' = [asks EXCEPT ![a] = state]
    /\ worker' = [worker EXCEPT ![i] = [pc |-> next, ask |-> {a}, said |-> said]]

(* request: approved at once when policy lets an earlier approval be       *)
(* reused, and the action was approved for the run or a command pattern of *)
(* the run or a rule of the repository covers it.  Which actions those     *)
(* cover is left open.                                                     *)
Request(i) ==
    /\ At(i, "request")
    /\ \E a \in Fresh : \/ Park(i, a, "pending", "none", "register")
                        \/ Park(i, a, "approved", "approve", "register")
    /\ UNCHANGED <<row, completions, started, waiter, effects, workerOnly>>

(* register_waiter: a decision that came first is kept.                    *)
(* Fault: the entry is replaced.                                           *)
RegisteredAnew(a, said) == IF said = "none" THEN "parked" ELSE said
Registered(a, said) ==
    IF said # "none" THEN said ELSE IF waiter[a] = "none" THEN "parked" ELSE waiter[a]

Register(i) ==
    /\ \/ At(i, "register") /\ Goto(i, "wait")
       \/ At(i, "enrol") /\ Goto(i, "listen")
    /\ waiter' = [a \in Ask |-> IF a \in worker[i].ask THEN Registered(a, worker[i].said)
                                ELSE waiter[a]]
    /\ UNCHANGED <<durable, effects, workerOnly>>

Wait(i) ==
    /\ At(i, "wait") /\ Transition(i, "WaitingForApproval", "parked")
    /\ UNCHANGED <<completions, started, asks, waiter, effects, workerOnly>>

(* await_decision and await_reply take the decision and the entry.         *)
Take(i, a, next) ==
    /\ waiter[a] \in Decision
    /\ worker' = [worker EXCEPT ![i].pc = next, ![i].said = waiter[a]]
    /\ waiter' = [waiter EXCEPT ![a] = "none"]

(* Against a cancellation, which drops the entry.                          *)
Parked(i) ==
    /\ At(i, "parked")
    /\ \E a \in worker[i].ask :
        \/ Take(i, a, "gate")
        \/ /\ live = "Cancelled" /\ Goto(i, "Cancelled")
           /\ waiter' = [waiter EXCEPT ![a] = "none"]
    /\ UNCHANGED <<durable, effects, workerOnly>>

Gate(i) ==
    /\ At(i, "gate") /\ SafePoint(i, "look")
    /\ UNCHANGED <<durable, waiter, effects, workerOnly>>

(* transition_if_needed(Running): read, then write.  A rejected call is    *)
(* an observation.                                                         *)
Observed == [Idle EXCEPT !.pc = "loop"]
Resumed(i) ==
    worker' = [worker EXCEPT ![i] = IF @.said = "approve" THEN [@ EXCEPT !.pc = "exec"]
                                    ELSE Observed]
Look(i) ==
    /\ At(i, "look") /\ IF row = "Running" THEN Resumed(i) ELSE Goto(i, "back")
    /\ UNCHANGED <<durable, waiter, effects, workerOnly>>

Back(i) ==
    /\ At(i, "back")
    /\ IF row \in LegalFrom("Running")
       THEN row' = "Running" /\ Resumed(i)
       ELSE UNCHANGED row /\ Goto(i, "fail")
    /\ UNCHANGED <<completions, started, asks, waiter, effects, workerOnly>>

(* The last safe point; ToolStarted is recorded before the tool runs.  The *)
(* tool is one with an effect, or user.ask.                                *)
Exec(i) ==
    /\ At(i, "exec")
    /\ \E next \in {"effect", "hold"} :
        (next = "hold" => Fresh # {}) /\ SafePoint(i, next)
    /\ started' = (started \/ live = "Running")
    /\ UNCHANGED <<row, completions, asks, waiter, effects, workerOnly>>

Effect(i) ==
    /\ At(i, "effect") /\ effects' = effects \cup {i} /\ Goto(i, "tool")
    /\ UNCHANGED <<durable, waiter, workerOnly>>

Tool(i) ==
    /\ At(i, "tool")
    /\ worker' = [worker EXCEPT ![i] = Observed]
    /\ UNCHANGED <<durable, waiter, effects, workerOnly>>

(* user.ask: the state, the question and its waiter, the answer, the state *)
(* again; neither transition is required to succeed.                       *)
AskUser(i) ==
    /\ \/ At(i, "hold") /\ TryTransition(i, "WaitingForUserInput", "ask") /\ UNCHANGED asks
       \/ /\ At(i, "ask") /\ UNCHANGED row
          /\ \E a \in Fresh : Park(i, a, "pending", "none", "enrol")
       \/ At(i, "release") /\ TryTransition(i, "Running", "tool") /\ UNCHANGED asks
    /\ UNCHANGED <<completions, started, waiter, effects, workerOnly>>

Listen(i) ==
    /\ At(i, "listen") /\ \E a \in worker[i].ask : Take(i, a, "release")
    /\ UNCHANGED <<durable, effects, workerOnly>>

(* A running tool is dropped, wherever it is, when the run is cancelled.   *)
Drop(i) ==
    /\ phase = "up" /\ live = "Cancelled"
    /\ worker[i].pc \in {"effect", "tool", "hold", "ask", "enrol", "listen", "release"}
    /\ Goto(i, "Cancelled")
    /\ UNCHANGED <<durable, waiter, effects, workerOnly>>

(* append_run_terminal: the run that is completed stays so, and a state    *)
(* another path ended it in is not contradicted.                           *)
Finish(i) ==
    /\ \E s \in Terminal :
        /\ At(i, s)
        /\ IF completions = <<>> /\ row \in Terminal \ {s}
           THEN Goto(i, "fail") /\ UNCHANGED <<row, completions>>
           ELSE /\ Goto(i, "exit")
                /\ IF completions = <<>>
                   THEN row' = s /\ completions' = <<s>>
                   ELSE UNCHANGED <<row, completions>>
    /\ UNCHANGED <<started, asks, waiter, effects, workerOnly>>

Fail(i) ==
    /\ At(i, "fail") /\ FailRun /\ Goto(i, "exit")
    /\ UNCHANGED <<started, asks, waiter, effects, workerOnly>>

Exit(i) ==
    /\ At(i, "exit") /\ Forget /\ worker' = [worker EXCEPT ![i] = Idle]
    /\ UNCHANGED <<durable, phase, waiter, signals, wakes, tasks, bounds>>

-----------------------------------------------------------------------------
(* The clients.                                                            *)

(* validate_run_transition, asserted again by the update itself.           *)
LegalPrior(verb) ==
    CASE verb = "cancel" -> RunState \ Terminal
      [] verb = "pause" -> RunState \ (Terminal \cup {"Paused"})
      [] verb = "resume" -> {"Paused"}
Target(verb) ==
    CASE verb = "cancel" -> "Cancelled" [] verb = "pause" -> "Paused" [] verb = "resume" -> "Running"

(* At most one command of a kind is between its two steps.                 *)
Command(verb) ==
    /\ phase = "up" /\ commands < MaxCommands /\ verb \notin signals
    /\ row \in LegalPrior(verb)
    /\ row' = Target(verb) /\ signals' = signals \cup {verb} /\ commands' = commands + 1
    /\ UNCHANGED <<completions, started, asks, phase, registry, waiter, wakes, tasks, worker,
                   crashes>>

(* resolve_in_tx: the update is of a pending row.  The expiry sweep never  *)
(* takes a request of an agent run, which has no time to live.             *)
(* Fault: of any row.                                                      *)
OpenOnce(a) == asks[a] # "none"
Open(a) == asks[a] = "pending"

Resolve(a, d) ==
    /\ phase = "up" /\ Open(a) /\ wakes[a] = "none"
    /\ asks' = [asks EXCEPT ![a] = IF d = "approve" THEN "approved" ELSE "rejected"]
    /\ wakes' = [wakes EXCEPT ![a] = d]
    /\ UNCHANGED <<row, completions, started, phase, registry, waiter, signals, tasks, worker,
                   bounds>>

(* wake: an entry is made for a request that has none yet.                 *)
Wake(a) ==
    /\ phase = "up" /\ wakes[a] # "none"
    /\ waiter' = [waiter EXCEPT ![a] = wakes[a]]
    /\ wakes' = [wakes EXCEPT ![a] = "none"]
    /\ UNCHANGED <<durable, phase, registry, signals, tasks, worker, bounds>>

-----------------------------------------------------------------------------
(* The daemon.                                                             *)

Crash ==
    /\ phase # "down" /\ crashes < MaxCrashes
    /\ crashes' = crashes + 1 /\ phase' = "down"
    /\ Forget /\ waiter' = [a \in Ask |-> "none"]
    /\ signals' = {} /\ wakes' = [a \in Ask |-> "none"]
    /\ redrive' = "none" /\ fallback' = FALSE
    /\ worker' = [i \in Worker |-> Idle]
    /\ UNCHANGED <<durable, launches, effects, commands>>

bootOnly == <<started, registry, waiter, signals, wakes, redrive, fallback, effects, bounds>>

(* recover_live_runs: Queued and Paused runs are left.                     *)
RecoverRuns ==
    /\ phase = "down"
    /\ phase' = "expiring"
    /\ IF row \in Terminal \cup {"Queued", "Paused"}
       THEN UNCHANGED <<row, completions>>
       ELSE row' = "Failed" /\ completions' = Append(completions, "Failed")
    /\ UNCHANGED <<asks, worker, launches, bootOnly>>

(* expire_orphaned, of both brokers, then relaunch_queued_runs: a queued   *)
(* run is spawned, failed when its provenance cannot be loaded, and left   *)
(* when the queued runs cannot be listed.                                  *)
Orphaned == row \in Terminal

Serve ==
    /\ phase = "expiring"
    /\ phase' = "up"
    /\ asks' = [a \in Ask |-> IF Orphaned /\ asks[a] = "pending" THEN "expired" ELSE asks[a]]
    /\ \/ /\ row = "Queued" /\ spawned < MaxWorkers /\ Install
          /\ UNCHANGED <<starting, launched, row, completions>>
       \/ row = "Queued" /\ FailRun /\ UNCHANGED <<worker, launches, registry>>
       \/ UNCHANGED <<worker, launches, registry, row, completions>>
    /\ UNCHANGED <<started, waiter, signals, wakes, redrive, fallback, effects, bounds>>

-----------------------------------------------------------------------------
WorkerStep(i) ==
    \/ Begin(i) \/ Held(i) \/ Quit(i) \/ Quitted(i) \/ Prepare(i) \/ Request(i)
    \/ Register(i) \/ Wait(i) \/ Parked(i) \/ Gate(i) \/ Look(i) \/ Back(i) \/ Exec(i)
    \/ Effect(i) \/ AskUser(i) \/ Listen(i) \/ Drop(i) \/ Finish(i) \/ Fail(i) \/ Exit(i)

Executor ==
    \/ Spawn \/ CancelRun \/ PauseRun \/ ResumeRun \/ RedriveRead \/ RedriveRelease
    \/ RedriveCheck \/ RedriveRefuse \/ RedriveForget \/ RedriveSpawn \/ Fallback

Next ==
    \/ \E i \in Worker : Setup(i) \/ Loop(i) \/ Tool(i) \/ WorkerStep(i)
    \/ Executor
    \/ \E verb \in {"cancel", "pause", "resume"} : Command(verb)
    \/ \E a \in Ask : Wake(a) \/ \E d \in Decision : Resolve(a, d)
    \/ Crash \/ RecoverRuns \/ Serve

SafetySpec == Init /\ [][Next]_vars

(* A spawned task and a command's second step run in the end, and so does  *)
(* what the worker does between two waits.  Nothing is assumed of setup,   *)
(* of the model, of a tool or of the people who answer.                    *)
Fairness ==
    /\ \A i \in Worker : WF_vars(WorkerStep(i))
    /\ WF_vars(Executor)
    /\ \A a \in Ask : WF_vars(Wake(a))
Spec == SafetySpec /\ Fairness

-----------------------------------------------------------------------------
(* A run is driven by one worker at a time, whatever launches, re-drives   *)
(* and resumes race (RunControlRegistry: register, register_reserved,      *)
(* reserve_start).                                                         *)
OneWorker ==
    \A i, j \in Worker : worker[i].pc # "none" /\ worker[j].pc # "none" => i = j

(* What a worker acts on is what the row of its request records, when two  *)
(* people answer, or one answers between the request's commit and the      *)
(* registration of its waiter (resolve_in_tx, wake, await_decision).       *)
DecisionAgrees ==
    \A i \in Worker : \A a \in worker[i].ask :
        /\ worker[i].said = "approve" => asks[a] = "approved"
        /\ worker[i].said = "reject" => asks[a] = "rejected"

(* Every RunCompleted event tells the state the run is in, when the worker *)
(* ends while it is cancelled, failed or recovered (append_run_terminal,   *)
(* fail_run, fail_live_run, complete_cancelled_run).                       *)
EvidenceAgrees == \A n \in DOMAIN completions : completions[n] = row

(* No worker that a resume re-drives or a restart relaunches begins a tool *)
(* when an earlier worker did (redrive_resumed_run).  Only the launch of   *)
(* StartRun itself, when it is overtaken by a pause and a resume and comes *)
(* after the worker that one re-drove, is not asked.                       *)
EffectsOfOneWorker == \A i, j \in effects : i < j => j = launched

(* A run that ended stays as it ended: no late transition, command or      *)
(* recovery revives it or changes its end (set_run_state_if_legal).        *)
EndIsFinal == [][(row \in Terminal) => row' = row]_vars

(* A decision recorded for a request a worker is parked on reaches it, if  *)
(* the daemon lives: none is lost between a commit, the registration of    *)
(* the waiter and its wake-up (register_waiter, wake).                     *)
AnswerWaits ==
    \E i \in Worker : \E a \in worker[i].ask :
        worker[i].pc \in {"parked", "listen"} /\ asks[a] # "pending"
AnswerReachesWorker == AnswerWaits ~> ~AnswerWaits

(* An accepted CancelRun is followed by the run's RunCompleted event,      *)
(* which its session needs to be closed, if the daemon lives: with a       *)
(* worker stuck in setup, or no worker at all (cancel_run,                 *)
(* complete_cancelled_run).                                                *)
CancelCompletes ==
    ("cancel" \in signals) ~> (completions # <<>> \/ phase # "up")

(* Only ResumeRun takes a run out of Paused into Running: a PauseRun that  *)
(* comes before the worker's Preparing and Running, or while an approval   *)
(* is answered, must not be overwritten (execute_run, authorise_action).   *)
PauseHolds == [][row = "Paused" /\ row' = "Running" => commands' # commands]_vars
=============================================================================
