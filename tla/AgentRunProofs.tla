--------------------------- MODULE AgentRunProofs ---------------------------
(* Proofs about the run under control: its registry, its requests, the     *)
(* evidence of its end and the effects of its workers.                     *)
EXTENDS AgentRun, TLAPS

Alive(i) == worker[i].pc # "none"

(* A worker holds the handle, a re-drive the reservation, and the registry *)
(* never has both.                                                         *)
RegistryInv ==
    /\ \A i \in Worker : Alive(i) => live # "none" /\ i <= spawned
    /\ OneWorker
    /\ starting => live = "none"
    /\ redrive # "none" => starting
    /\ phase # "up" => live = "none" /\ ~starting /\ signals = {}

(* An end that is recorded is the state of the run.                        *)
EvidenceInv ==
    /\ completions # <<>> => row \in Terminal
    /\ EvidenceAgrees
    /\ \A i \in Worker : worker[i].pc = "quitted" => row = "Cancelled"

(* The rows f record decision d, if it is one, for request a.              *)
Records(f, d, a) ==
    /\ d = "approve" => f[a] = "approved"
    /\ d = "reject" => f[a] = "rejected"

(* Wherever a decision travels, it is the one the row records.             *)
DecisionInv ==
    /\ \A a \in Ask : Records(asks, waiter[a], a) /\ Records(asks, wakes[a], a)
    /\ \A i \in Worker : \A a, b \in worker[i].ask : a = b
    /\ \A i \in Worker : \A a \in worker[i].ask : Records(asks, worker[i].said, a)

NotBegun == {"none", "setup", "begin", "prepare", "quit", "quitted", "fail", "exit"}

(* A run that is still queued has been told nothing and has done nothing.  *)
QueuedInv ==
    row = "Queued" =>
        /\ ~started /\ live # "Paused" /\ "pause" \notin pending
        /\ signals \cap {"pause", "resume"} = {}
        /\ \A i \in Worker : worker[i].pc \in NotBegun

(* A worker that is not the launch's own finds no earlier effect.          *)
EffectInv ==
    /\ effects # {} => started
    /\ redrive = "spawn" => ~started
    /\ "spawn" \in signals => launched = 0
    /\ \A i \in Worker : worker[i].pc = "effect" => started
    /\ \A i \in effects : i <= spawned
    /\ launched <= spawned
    /\ \A i \in Worker : Alive(i) => effects \subseteq 1..i
    /\ \A i \in Worker : Alive(i) /\ i # launched => effects \subseteq {i}
    /\ EffectsOfOneWorker

-----------------------------------------------------------------------------
(* Types                                                                   *)

Workers == [Worker -> [pc : PC, ask : SUBSET Ask, said : {"none"} \cup Decision]]

(* A worker that moves keeps its request, and the other workers everything. *)
LEMMA GotoFacts ==
    ASSUME TypeOK, NEW i \in Worker, NEW pc \in PC, Goto(i, pc)
    PROVE  /\ worker' \in Workers
           /\ worker'[i] = [worker[i] EXCEPT !.pc = pc]
           /\ worker'[i].pc = pc /\ worker'[i].ask = worker[i].ask /\ worker'[i].said = worker[i].said
           /\ \A j \in Worker : j # i => worker'[j] = worker[j]
  BY DEF TypeOK, Goto, Workers

LEMMA TransitionFacts ==
    ASSUME TypeOK, NEW i \in Worker, NEW s \in RunState, NEW next \in PC,
           Transition(i, s, next) \/ TryTransition(i, s, next)
    PROVE  /\ worker' \in Workers /\ row' \in RunState
           /\ worker'[i].pc \in {next, "fail"}
           /\ worker'[i].pc = "fail" => next = "fail" \/ row' = row
           /\ worker'[i].ask = worker[i].ask /\ worker'[i].said = worker[i].said
           /\ \A j \in Worker : j # i => worker'[j] = worker[j]
           /\ row' = row \/ (row' = s /\ row \in LegalFrom(s))
<1>1. "fail" \in PC
  BY DEF PC
<1>2. (row' = s /\ row \in LegalFrom(s) /\ Goto(i, next)) \/ (row' = row /\ Goto(i, "fail"))
      \/ (row' = row /\ Goto(i, next))
  BY DEF Transition, TryTransition
<1>3. row \in RunState
  BY DEF TypeOK
<1>4. CASE row' = s /\ row \in LegalFrom(s) /\ Goto(i, next)
  BY <1>4, GotoFacts
<1>5. CASE row' = row /\ Goto(i, "fail")
  BY <1>1, <1>3, <1>5, GotoFacts
<1>6. CASE row' = row /\ Goto(i, next)
  BY <1>3, <1>6, GotoFacts
<1> QED
  BY <1>2, <1>4, <1>5, <1>6

Asks == [Ask -> AskState]
Waiters == [Ask -> {"none", "parked"} \cup Decision]

LEMMA ParkFacts ==
    ASSUME TypeOK, NEW i \in Worker, NEW a \in Ask,
           NEW state \in AskState, NEW said \in {"none"} \cup Decision, NEW next \in PC,
           Park(i, a, state, said, next)
    PROVE  /\ asks' \in Asks /\ worker' \in Workers
           /\ asks'[a] = state
           /\ \A b \in Ask : b # a => asks'[b] = asks[b]
           /\ worker'[i].pc = next /\ worker'[i].ask = {a} /\ worker'[i].said = said
           /\ \A j \in Worker : j # i => worker'[j] = worker[j]
<1>1. asks' \in Asks /\ asks'[a] = state /\ \A b \in Ask : b # a => asks'[b] = asks[b]
  BY DEF Park, TypeOK, Asks
<1>2. [pc |-> next, ask |-> {a}, said |-> said]
         \in [pc : PC, ask : SUBSET Ask, said : {"none"} \cup Decision]
  OBVIOUS
<1>3. worker' = [worker EXCEPT ![i] = [pc |-> next, ask |-> {a}, said |-> said]]
  BY DEF Park
<1>4. worker \in Workers
  BY DEF TypeOK, Workers
<1> QED
  BY <1>1, <1>2, <1>3, <1>4 DEF Workers

LEMMA TakeFacts ==
    ASSUME TypeOK, NEW i \in Worker, NEW a \in Ask, NEW next \in PC, Take(i, a, next)
    PROVE  /\ waiter' \in Waiters /\ worker' \in Workers
           /\ waiter'[a] = "none" /\ \A b \in Ask : b # a => waiter'[b] = waiter[b]
           /\ worker'[i].pc = next /\ worker'[i].ask = worker[i].ask
           /\ worker'[i].said = waiter[a] /\ waiter[a] \in Decision
           /\ \A j \in Worker : j # i => worker'[j] = worker[j]
<1>1. waiter \in Waiters /\ worker \in Workers /\ waiter[a] \in Decision
  BY DEF TypeOK, Waiters, Workers, Take
<1>2. worker' = [worker EXCEPT ![i].pc = next, ![i].said = waiter[a]]
  BY DEF Take
<1>3. /\ worker' \in Workers
      /\ worker'[i].pc = next /\ worker'[i].ask = worker[i].ask /\ worker'[i].said = waiter[a]
      /\ \A j \in Worker : j # i => worker'[j] = worker[j]
  BY <1>1, <1>2 DEF Workers
<1>4. waiter' = [waiter EXCEPT ![a] = "none"]
  BY DEF Take
<1>5. waiter' \in Waiters /\ waiter'[a] = "none" /\ \A b \in Ask : b # a => waiter'[b] = waiter[b]
  BY <1>1, <1>4 DEF Waiters
<1> QED
  BY <1>1, <1>3, <1>5

LEMMA ResumedFacts ==
    ASSUME TypeOK, NEW i \in Worker, Resumed(i)
    PROVE  /\ worker' \in Workers
           /\ worker'[i].pc \in {"exec", "loop"}
           /\ \/ worker'[i].ask = worker[i].ask /\ worker'[i].said = worker[i].said
              \/ worker'[i].ask = {} /\ worker'[i].said = "none"
           /\ \A j \in Worker : j # i => worker'[j] = worker[j]
<1>1. worker \in Workers /\ {"exec", "loop"} \subseteq PC
  BY DEF TypeOK, Workers, PC
<1>2. Observed = [pc |-> "loop", ask |-> {}, said |-> "none"]
  BY DEF Observed, Idle
<1>3. CASE worker[i].said = "approve"
  <2>1. worker' = [worker EXCEPT ![i].pc = "exec"]
    BY <1>1, <1>3 DEF Resumed, Workers
  <2> QED
    BY <1>1, <2>1 DEF Workers
<1>4. CASE worker[i].said # "approve"
  <2>1. worker' = [worker EXCEPT ![i] = Observed]
    BY <1>1, <1>4 DEF Resumed, Workers
  <2> QED
    BY <1>1, <1>2, <2>1 DEF Workers
<1> QED
  BY <1>3, <1>4

(* A new worker is the next one, and takes its handle.                     *)
LEMMA InstallFacts ==
    ASSUME TypeOK, spawned < MaxWorkers, Install
    PROVE  /\ worker' \in Workers
           /\ spawned + 1 \in Worker /\ spawned' = spawned + 1 /\ spawned' \in 0..MaxWorkers
           /\ worker'[spawned + 1].pc = "setup"
           /\ worker'[spawned + 1].ask = worker[spawned + 1].ask
           /\ worker'[spawned + 1].said = worker[spawned + 1].said
           /\ \A j \in Worker : j # spawned + 1 => worker'[j] = worker[j]
           /\ live' \in {"Running", "Paused", "Cancelled"}
           /\ live' = "Paused" => "pause" \in pending
           /\ pending' \subseteq pending
<1>1. spawned \in 0..MaxWorkers /\ MaxWorkers \in Nat
  BY AgentRunAssumption DEF TypeOK
<1>2. spawned + 1 \in Worker /\ spawned' = spawned + 1 /\ spawned' \in 0..MaxWorkers
  BY <1>1 DEF Install, Worker
<1>3. "setup" \in PC
  BY DEF PC
<1>4. worker' = [worker EXCEPT ![spawned + 1].pc = "setup"]
  BY DEF Install
<1>5. /\ worker' \in Workers
      /\ worker'[spawned + 1].pc = "setup"
      /\ worker'[spawned + 1].ask = worker[spawned + 1].ask
      /\ worker'[spawned + 1].said = worker[spawned + 1].said
      /\ \A j \in Worker : j # spawned + 1 => worker'[j] = worker[j]
  BY <1>2, <1>3, <1>4 DEF TypeOK, Workers
<1>6. /\ live' \in {"Running", "Paused", "Cancelled"}
      /\ live' = "Paused" => "pause" \in pending
      /\ pending' \subseteq pending
  BY DEF Install
<1> QED
  BY <1>2, <1>5, <1>6

(* One more event of the run's end.                                        *)
LEMMA AppendFacts ==
    ASSUME NEW s \in Seq(Terminal), NEW e \in Terminal
    PROVE  /\ Append(s, e) \in Seq(Terminal)
           /\ DOMAIN Append(s, e) = 1..(Len(s) + 1)
           /\ Append(s, e) # <<>>
           /\ \A n \in DOMAIN s : n \in DOMAIN Append(s, e) /\ Append(s, e)[n] = s[n]
           /\ \A n \in DOMAIN Append(s, e) :
                (n \in DOMAIN s /\ Append(s, e)[n] = s[n]) \/ Append(s, e)[n] = e
<1>1. DOMAIN s = 1..Len(s) /\ Len(s) \in Nat
  OBVIOUS
<1>2. Append(s, e) \in Seq(Terminal) /\ Len(Append(s, e)) = Len(s) + 1
  OBVIOUS
<1>3. DOMAIN Append(s, e) = 1..(Len(s) + 1)
  BY <1>1, <1>2
<1>4. \A n \in 1..Len(s) : Append(s, e)[n] = s[n]
  OBVIOUS
<1>5. Append(s, e)[Len(s) + 1] = e
  OBVIOUS
<1>6. Append(s, e) # <<>>
  BY <1>1, <1>2
<1> QED
  BY <1>1, <1>2, <1>3, <1>4, <1>5, <1>6

LEMMA FailFacts ==
    ASSUME TypeOK, FailRun
    PROVE  row' \in RunState /\ completions' \in Seq(Terminal)
<1>1. "Failed" \in Terminal /\ Terminal \subseteq RunState
  BY DEF Terminal, RunState
<1> QED
  BY <1>1, AppendFacts DEF FailRun, TypeOK

(* What a start of the daemon does to a queued run.                        *)
Relaunched ==
    row = "Queued" /\ spawned < MaxWorkers /\ Install /\ UNCHANGED <<starting, launched, row, completions>>

LEMMA ServeFacts ==
    ASSUME Serve, ~Relaunched
    PROVE  /\ UNCHANGED <<worker, launches, registry>>
           /\ (row = "Queued" /\ FailRun) \/ UNCHANGED <<row, completions>>
  BY DEF Serve, Relaunched

LEMMA ExecutorTypes == TypeOK /\ Executor => TypeOK'
<1> SUFFICES ASSUME TypeOK, Executor PROVE TypeOK'
  OBVIOUS
<1> USE DEF registry, tasks, durable, bounds, launches
<1>1. CASE Spawn
  <2>1. UNCHANGED <<durable, phase, waiter, wakes, redrive, fallback, effects, bounds>>
        /\ signals' \subseteq signals /\ spawned < MaxWorkers
    BY <1>1 DEF Spawn
  <2>2. CASE Install /\ launched' = spawned + 1 /\ UNCHANGED starting
    BY <2>1, <2>2, InstallFacts DEF TypeOK, Workers
  <2>3. CASE UNCHANGED <<registry, worker, launches>>
    BY <2>1, <2>3 DEF TypeOK
  <2> QED
    BY <1>1, <2>2, <2>3 DEF Spawn
<1>2. CASE CancelRun
  BY <1>2 DEF CancelRun, TypeOK
<1>3. CASE PauseRun
  BY <1>3 DEF PauseRun, TypeOK
<1>4. CASE ResumeRun
  BY <1>4 DEF ResumeRun, RedriveStep, TypeOK
<1>5. CASE RedriveRead \/ RedriveRelease \/ RedriveCheck
  BY <1>5 DEF RedriveRead, RedriveRelease, RedriveCheck, redriveOnly, AfterLedgerCheck, RedriveStep, TypeOK
<1>6. CASE RedriveRefuse
  BY <1>6, FailFacts DEF RedriveRefuse, RedriveStep, TypeOK
<1>9. CASE RedriveForget
  BY <1>9 DEF RedriveForget, Forget, RedriveStep, TypeOK
<1>7. CASE RedriveSpawn
  <2>1. UNCHANGED <<durable, phase, waiter, signals, wakes, fallback, effects, bounds>>
        /\ redrive' \in RedriveStep /\ starting' = FALSE /\ spawned < MaxWorkers
    BY <1>7 DEF RedriveSpawn, RedriveStep
  <2>2. CASE Install /\ UNCHANGED launched
    BY <2>1, <2>2, InstallFacts DEF TypeOK, Workers
  <2>3. CASE UNCHANGED <<live, pending, worker, launches>>
    BY <2>1, <2>3 DEF TypeOK
  <2> QED
    BY <1>7, <2>2, <2>3 DEF RedriveSpawn
<1>8. CASE Fallback
  <2>1. <<"Cancelled">> \in Seq(Terminal)
    BY DEF Terminal
  <2> QED
    BY <1>8, <2>1 DEF Fallback, TypeOK
<1> QED
  BY <1>1, <1>2, <1>3, <1>4, <1>5, <1>6, <1>7, <1>8, <1>9 DEF Executor

LEMMA WorkerTypes ==
    ASSUME TypeOK, NEW i \in Worker, Setup(i) \/ Loop(i) \/ Tool(i) \/ WorkerStep(i)
    PROVE  TypeOK'
<1> USE DEF registry, tasks, durable, bounds, launches, workerOnly
<1> DEFINE Moves == worker' \in Workers /\ UNCHANGED <<durable, effects, workerOnly>>
<1>0. Moves /\ UNCHANGED waiter => TypeOK'
  BY DEF TypeOK, Workers
<1>1. CASE Setup(i)
  <2>1. "begin" \in PC /\ "fail" \in PC
    BY DEF PC
  <2> QED
    BY <1>0, <1>1, <2>1, GotoFacts DEF Setup
<1>2. CASE Begin(i)
  <2>1. {"quit", "held", "loop", "prepare"} \subseteq PC
    BY DEF PC
  <2> QED
    BY <1>0, <1>2, <2>1, GotoFacts DEF Begin
<1>3. CASE Held(i)
  <2>1. {"quit", "loop"} \subseteq PC
    BY DEF PC
  <2> QED
    BY <1>0, <1>3, <2>1, GotoFacts DEF Held
<1>4. CASE Quit(i)
  <2>1. "quitted" \in PC /\ "Cancelled" \in RunState
    BY DEF PC, RunState, Terminal
  <2>2. worker' \in Workers /\ row' \in RunState
    BY <1>4, <2>1, GotoFacts, TransitionFacts DEF Quit, TypeOK
  <2> QED
    BY <1>4, <2>2 DEF Quit, TypeOK, Workers
<1>5. CASE Quitted(i)
  <2>1. "exit" \in PC /\ "Cancelled" \in Terminal
    BY DEF PC, Terminal
  <2>2. worker' \in Workers /\ completions' \in Seq(Terminal)
    BY <1>5, <2>1, GotoFacts, AppendFacts DEF Quitted, TypeOK
  <2> QED
    BY <1>5, <2>2 DEF Quitted, TypeOK, Workers
<1>6. CASE Prepare(i)
  <2>1. {"enter", "loop"} \subseteq PC /\ {"Preparing", "Running"} \subseteq RunState
    BY DEF PC, RunState
  <2>2. worker' \in Workers /\ row' \in RunState
    BY <1>6, <2>1, TransitionFacts DEF Prepare
  <2> QED
    BY <1>6, <2>2 DEF Prepare, TypeOK, Workers
<1>7. CASE Loop(i)
  <2>1. {"Completed", "Failed", "Cancelled", "exec", "request"} \subseteq PC
    BY DEF PC
  <2> QED
    BY <1>0, <1>7, <2>1, GotoFacts DEF Loop, SafePoint
<1>8. CASE Request(i)
  <2>1. "register" \in PC /\ Fresh \subseteq Ask /\ {"pending", "approved"} \subseteq AskState
        /\ "approve" \in Decision
    BY DEF PC, Fresh, AskState, Decision
  <2>2. PICK a \in Fresh : \/ Park(i, a, "pending", "none", "register")
                           \/ Park(i, a, "approved", "approve", "register")
    BY <1>8 DEF Request
  <2>3. asks' \in Asks /\ worker' \in Workers
    BY <2>1, <2>2, ParkFacts
  <2> QED
    BY <1>8, <2>3 DEF Request, TypeOK, Asks, Workers
<1>9. CASE Register(i)
  <2>1. {"wait", "listen"} \subseteq PC
    BY DEF PC
  <2>2. worker' \in Workers
    BY <1>9, <2>1, GotoFacts DEF Register
  <2>3. waiter' \in [Ask -> {"none", "parked"} \cup Decision]
    BY <1>9 DEF Register, Registered, TypeOK
  <2> QED
    BY <1>9, <2>2, <2>3 DEF Register, TypeOK, Workers
<1>10. CASE Wait(i)
  <2>1. "parked" \in PC /\ "WaitingForApproval" \in RunState
    BY DEF PC, RunState
  <2>2. worker' \in Workers /\ row' \in RunState
    BY <1>10, <2>1, TransitionFacts DEF Wait
  <2> QED
    BY <1>10, <2>2 DEF Wait, TypeOK, Workers
<1>11. CASE Parked(i)
  <2>1. {"gate", "Cancelled"} \subseteq PC /\ worker[i].ask \subseteq Ask
    BY DEF PC, TypeOK
  <2>2. PICK a \in worker[i].ask :
          Take(i, a, "gate") \/ (Goto(i, "Cancelled") /\ waiter' = [waiter EXCEPT ![a] = "none"])
    BY <1>11 DEF Parked
  <2>3. Take(i, a, "gate") => waiter' \in Waiters /\ worker' \in Workers
    BY <2>1, TakeFacts
  <2>4. Goto(i, "Cancelled") /\ waiter' = [waiter EXCEPT ![a] = "none"]
          => waiter' \in Waiters /\ worker' \in Workers
    BY <2>1, GotoFacts DEF TypeOK, Waiters
  <2>5. UNCHANGED <<durable, effects, workerOnly>>
    BY <1>11 DEF Parked
  <2> QED
    BY <2>2, <2>3, <2>4, <2>5 DEF TypeOK, Workers, Waiters
<1>23. CASE Listen(i)
  <2>1. "release" \in PC /\ worker[i].ask \subseteq Ask
    BY DEF PC, TypeOK
  <2>2. waiter' \in Waiters /\ worker' \in Workers
    BY <1>23, <2>1, TakeFacts DEF Listen
  <2>3. UNCHANGED <<durable, effects, workerOnly>>
    BY <1>23 DEF Listen
  <2> QED
    BY <2>2, <2>3 DEF TypeOK, Workers, Waiters
<1>12. CASE Gate(i)
  <2>1. {"Cancelled", "look"} \subseteq PC
    BY DEF PC
  <2> QED
    BY <1>0, <1>12, <2>1, GotoFacts DEF Gate, SafePoint
<1>13. CASE Look(i)
  <2>1. "back" \in PC
    BY DEF PC
  <2>2. worker' \in Workers
    BY <1>13, <2>1, ResumedFacts, GotoFacts DEF Look
  <2> QED
    BY <1>0, <1>13, <2>2 DEF Look
<1>14. CASE Back(i)
  <2>1. "fail" \in PC /\ "Running" \in RunState
    BY DEF PC, RunState
  <2>2. worker' \in Workers /\ row' \in RunState
    BY <1>14, <2>1, ResumedFacts, GotoFacts DEF Back, TypeOK
  <2> QED
    BY <1>14, <2>2 DEF Back, TypeOK, Workers
<1>15. CASE Exec(i)
  <2>1. {"effect", "hold", "Cancelled"} \subseteq PC
    BY DEF PC
  <2>2. worker' \in Workers /\ started' \in BOOLEAN
    BY <1>15, <2>1, GotoFacts DEF Exec, SafePoint, TypeOK
  <2> QED
    BY <1>15, <2>2 DEF Exec, TypeOK, Workers
<1>16. CASE Effect(i)
  <2>1. worker' \in Workers
    BY <1>16, GotoFacts DEF Effect, PC
  <2> QED
    BY <1>16, <2>1 DEF Effect, TypeOK, Workers
<1>17. CASE Tool(i)
  <2>1. worker' \in Workers
    BY <1>17 DEF Tool, Observed, Idle, TypeOK, Workers, PC
  <2> QED
    BY <1>0, <1>17, <2>1 DEF Tool
<1>18. CASE AskUser(i)
  <2>1. {"ask", "enrol", "tool"} \subseteq PC /\ {"WaitingForUserInput", "Running"} \subseteq RunState
        /\ Fresh \subseteq Ask
    BY DEF PC, RunState, Fresh
  <2>2. ASSUME UNCHANGED asks, NEW s \in RunState, NEW next \in PC, TryTransition(i, s, next)
        PROVE  worker' \in Workers /\ row' \in RunState /\ asks' = asks
    BY <2>2, TransitionFacts
  <2>3. ASSUME NEW a \in Ask, Park(i, a, "pending", "none", "enrol"), UNCHANGED row
        PROVE  /\ worker' \in Workers /\ row' \in RunState
               /\ asks' \in [Ask -> AskState]
    BY <2>1, <2>3 DEF Park, TypeOK, AskState, Workers
  <2>4. /\ worker' \in Workers /\ row' \in RunState
        /\ asks' \in [Ask -> AskState]
    BY <1>18, <2>1, <2>2, <2>3 DEF AskUser, TypeOK
  <2> QED
    BY <1>18, <2>4 DEF AskUser, TypeOK, Workers
<1>19. CASE Drop(i)
  <2> QED
    BY <1>0, <1>19, GotoFacts DEF Drop, PC
<1>20. CASE Finish(i)
  <2>1. {"fail", "exit"} \subseteq PC /\ Terminal \subseteq RunState
        /\ \A s \in Terminal : <<s>> \in Seq(Terminal)
    BY DEF PC, RunState, Terminal
  <2>2. worker' \in Workers
    BY <1>20, <2>1, GotoFacts DEF Finish
  <2>3. row \in RunState /\ completions \in Seq(Terminal)
    BY DEF TypeOK
  <2>4. (row' = row /\ completions' = completions)
        \/ \E s \in Terminal : row' = s /\ completions' = <<s>>
    BY <1>20 DEF Finish
  <2>5. row' \in RunState /\ completions' \in Seq(Terminal)
    BY <2>1, <2>3, <2>4
  <2> QED
    BY <1>20, <2>2, <2>5 DEF Finish, TypeOK, Workers
<1>21. CASE Fail(i)
  <2>1. worker' \in Workers
    BY <1>21, GotoFacts DEF Fail, PC
  <2> QED
    BY <1>21, <2>1, FailFacts DEF Fail, TypeOK, Workers
<1>22. CASE Exit(i)
  <2>1. worker' \in Workers
    BY <1>22 DEF Exit, Idle, TypeOK, Workers, PC
  <2> QED
    BY <1>22, <2>1 DEF Exit, Forget, TypeOK, Workers
<1> QED
  BY <1>1, <1>2, <1>3, <1>4, <1>5, <1>6, <1>7, <1>8, <1>9, <1>10, <1>11, <1>12, <1>13, <1>14,
     <1>15, <1>16, <1>17, <1>18, <1>19, <1>20, <1>21, <1>22, <1>23 DEF WorkerStep

LEMMA OtherTypes ==
    ASSUME TypeOK,
           \/ \E verb \in {"cancel", "pause", "resume"} : Command(verb)
           \/ \E a \in Ask : Wake(a) \/ \E d \in Decision : Resolve(a, d)
           \/ Crash \/ RecoverRuns \/ Serve
    PROVE  TypeOK'
<1> USE DEF registry, tasks, durable, bounds, launches, bootOnly
<1>1. ASSUME NEW verb \in {"cancel", "pause", "resume"}, Command(verb) PROVE TypeOK'
  <2>1. Target(verb) \in RunState
    BY DEF Target, RunState, Terminal
  <2> QED
    BY <1>1, <2>1, AgentRunAssumption DEF Command, TypeOK
<1>2. ASSUME NEW a \in Ask, Wake(a) PROVE TypeOK'
  BY <1>2 DEF Wake, TypeOK
<1>3. ASSUME NEW a \in Ask, NEW d \in Decision, Resolve(a, d) PROVE TypeOK'
  BY <1>3 DEF Resolve, TypeOK, AskState
<1>4. CASE Crash
  <2>1. Idle \in [pc : PC, ask : SUBSET Ask, said : {"none"} \cup Decision]
    BY DEF Idle, PC
  <2>2. worker' \in [Worker -> [pc : PC, ask : SUBSET Ask, said : {"none"} \cup Decision]]
    BY <1>4, <2>1 DEF Crash
  <2>3. /\ waiter' \in [Ask -> {"none", "parked"} \cup Decision]
        /\ wakes' \in [Ask -> {"none"} \cup Decision]
    BY <1>4 DEF Crash
  <2>4. crashes' \in 0..MaxCrashes /\ commands' \in 0..MaxCommands
    BY <1>4, AgentRunAssumption DEF Crash, TypeOK
  <2>5. UNCHANGED <<durable, launches, effects>>
    BY <1>4 DEF Crash
  <2>6. /\ phase' = "down" /\ live' = "none" /\ starting' = FALSE /\ pending' = {}
        /\ signals' = {} /\ redrive' = "none" /\ fallback' = FALSE
    BY <1>4 DEF Crash, Forget
  <2> QED
    BY <2>2, <2>3, <2>4, <2>5, <2>6 DEF TypeOK, RedriveStep
<1>5. CASE RecoverRuns
  <2>1. "Failed" \in Terminal /\ Terminal \subseteq RunState
    BY DEF Terminal, RunState
  <2>2. row' \in RunState /\ completions' \in Seq(Terminal)
    BY <1>5, <2>1, AppendFacts DEF RecoverRuns, TypeOK
  <2> QED
    BY <1>5, <2>2 DEF RecoverRuns, TypeOK
<1>6. CASE Serve
  <2>1. asks' \in [Ask -> AskState]
    BY <1>6 DEF Serve, TypeOK, AskState
  <2>2. CASE Relaunched
    BY <1>6, <2>1, <2>2, InstallFacts DEF Serve, Relaunched, TypeOK, Workers
  <2>3. CASE ~Relaunched
    BY <1>6, <2>1, <2>3, ServeFacts, FailFacts DEF Serve, TypeOK
  <2> QED
    BY <2>2, <2>3
<1> QED
  BY <1>1, <1>2, <1>3, <1>4, <1>5, <1>6

(* Every reachable state is well typed: whatever the interleaving of       *)
(* commands, callbacks, worker and restarts, the run's row is one of the   *)
(* states of the code and its registry and brokers hold what they may.     *)
THEOREM TypeCorrect == SafetySpec => []TypeOK
<1>1. Init => TypeOK
  <2> SUFFICES ASSUME Init PROVE TypeOK
    OBVIOUS
  <2>1. Idle \in [pc : PC, ask : SUBSET Ask, said : {"none"} \cup Decision]
    BY DEF Idle, PC
  <2>2. row \in RunState /\ completions \in Seq(Terminal)
    BY DEF Init, RunState
  <2>3. asks \in [Ask -> AskState]
    BY DEF Init, AskState
  <2>4. /\ waiter \in [Ask -> {"none", "parked"} \cup Decision]
        /\ wakes \in [Ask -> {"none"} \cup Decision]
        /\ worker \in [Worker -> [pc : PC, ask : SUBSET Ask, said : {"none"} \cup Decision]]
    BY <2>1 DEF Init
  <2>5. spawned \in 0..MaxWorkers /\ launched \in 0..MaxWorkers /\ effects \subseteq Worker
        /\ crashes \in 0..MaxCrashes /\ commands \in 0..MaxCommands
    BY AgentRunAssumption DEF Init
  <2> QED
    BY <2>2, <2>3, <2>4, <2>5 DEF Init, TypeOK, RedriveStep
<1>2. TypeOK /\ [Next]_vars => TypeOK'
  <2> SUFFICES ASSUME TypeOK, [Next]_vars PROVE TypeOK'
    OBVIOUS
  <2>1. CASE UNCHANGED vars
    BY <2>1 DEF vars, durable, registry, tasks, launches, bounds, TypeOK
  <2> QED
    BY <2>1, ExecutorTypes, WorkerTypes, OtherTypes DEF Next
<1> QED
  BY <1>1, <1>2, PTL DEF SafetySpec

-----------------------------------------------------------------------------
(* What a step of a worker does to the rest                                *)

(* The run's end is written once, and with the state it ends in.           *)
EndsWell ==
    /\ row' = row \/ row \notin Terminal
    /\ \/ UNCHANGED completions
       \/ row' \in Terminal /\ completions' \in {Append(completions, row'), <<row'>>}

Advance(i) ==
    /\ phase = "up" /\ Alive(i) /\ Alive(i)'
    /\ \A j \in Worker : j # i => worker'[j] = worker[j]
    /\ UNCHANGED workerOnly
    /\ EndsWell
    /\ worker'[i].pc = "quitted" => row' = "Cancelled"
    /\ started' = started \/ (worker[i].pc = "exec" /\ started')
    /\ worker'[i].pc = "effect" => started'
    /\ effects' = effects \/ (worker[i].pc = "effect" /\ effects' = effects \cup {i})
    /\ row' = "Queued" =>
          /\ row = "Queued"
          /\ worker[i].pc \in NotBegun => worker'[i].pc \in NotBegun \/ live = "Paused"

LEMMA LegalFacts ==
    ASSUME NEW s \in RunState PROVE LegalFrom(s) \cap Terminal = {}
  BY DEF LegalFrom, RunState, Terminal

(* Steps that only move the worker.                                        *)
LEMMA MoveAdvances ==
    ASSUME TypeOK, NEW i \in Worker, NEW next \in PC, Goto(i, next), phase = "up", Alive(i),
           UNCHANGED <<durable, effects, workerOnly>>,
           next \notin {"none", "quitted", "effect"},
           worker[i].pc \in NotBegun => next \in NotBegun \/ live = "Paused" \/ row # "Queued"
    PROVE  Advance(i)
  BY GotoFacts DEF Advance, EndsWell, Alive, durable

(* Steps that move the worker and the row.                                 *)
LEMMA TransitionAdvances ==
    ASSUME TypeOK, NEW i \in Worker, NEW s \in RunState \ {"Queued"}, NEW next \in PC,
           Transition(i, s, next) \/ TryTransition(i, s, next), phase = "up", Alive(i),
           UNCHANGED <<completions, started, effects, workerOnly>>,
           next \notin {"none", "quitted", "effect"},
           worker[i].pc \in NotBegun => Transition(i, s, next)
    PROVE  Advance(i)
<1>1. EndsWell
  BY TransitionFacts, LegalFacts DEF EndsWell
<1>2. row' = "Queued" =>
          /\ row = "Queued"
          /\ worker[i].pc \in NotBegun => worker'[i].pc \in NotBegun
  <2> SUFFICES ASSUME row' = "Queued"
               PROVE  row = "Queued" /\ (worker[i].pc \in NotBegun => worker'[i].pc = "fail")
    BY DEF NotBegun
  <2>1. row = "Queued"
    BY TransitionFacts
  <2>2. ASSUME Transition(i, s, next) PROVE worker'[i].pc = "fail"
    BY <2>2, GotoFacts DEF Transition, PC
  <2> QED
    BY <2>1, <2>2
<1> QED
  BY <1>1, <1>2, TransitionFacts DEF Advance, Alive

LEMMA WorkerAdvances ==
    ASSUME TypeOK, EvidenceInv, NEW i \in Worker, Setup(i) \/ Loop(i) \/ Tool(i) \/ WorkerStep(i)
    PROVE  Advance(i) \/ Exit(i)
<1> USE DEF Alive, NotBegun
<1>1. CASE Setup(i)
  BY <1>1, MoveAdvances DEF Setup, At, PC
<1>2. CASE Begin(i)
  BY <1>2, MoveAdvances DEF Begin, At, PC
<1>3. CASE Held(i)
  BY <1>3, MoveAdvances DEF Held, At, PC
<1>4. CASE Quit(i)
  <2>1. "Cancelled" \in RunState /\ "quitted" \in PC /\ "fail" \in PC
    BY DEF RunState, Terminal, PC
  <2>2. /\ phase = "up" /\ worker[i].pc = "quit"
        /\ UNCHANGED <<completions, started, effects, workerOnly>>
    BY <1>4 DEF Quit, At
  <2>3. \/ row' = row /\ row = "Cancelled" /\ Goto(i, "quitted")
        \/ row' = "Cancelled" /\ row \in LegalFrom("Cancelled") /\ Goto(i, "quitted")
        \/ row' = row /\ Goto(i, "fail")
    BY <1>4 DEF Quit, Transition
  <2>4. EndsWell
    BY <2>1, <2>2, <2>3, LegalFacts DEF EndsWell
  <2> QED
    BY <2>1, <2>2, <2>3, <2>4, GotoFacts DEF Advance
<1>5. CASE Quitted(i)
  <2>1. /\ phase = "up" /\ worker[i].pc = "quitted" /\ Goto(i, "exit")
        /\ completions' = Append(completions, "Cancelled")
        /\ UNCHANGED <<row, started, effects, workerOnly>>
    BY <1>5 DEF Quitted, At
  <2>2. row = "Cancelled" /\ "Cancelled" \in Terminal /\ "exit" \in PC
    BY <2>1 DEF EvidenceInv, Terminal, PC
  <2>3. EndsWell
    BY <2>1, <2>2 DEF EndsWell
  <2> QED
    BY <2>1, <2>2, <2>3, GotoFacts DEF Advance
<1>6. CASE Prepare(i)
  BY <1>6, TransitionAdvances DEF Prepare, At, PC, RunState
<1>7. CASE Loop(i)
  BY <1>7, MoveAdvances DEF Loop, At, SafePoint, PC
<1>8. CASE Request(i)
  <2>1. "register" \in PC /\ Fresh \subseteq Ask /\ {"pending", "approved"} \subseteq AskState
        /\ "approve" \in Decision
    BY DEF PC, Fresh, AskState, Decision
  <2>2. PICK a \in Fresh : \/ Park(i, a, "pending", "none", "register")
                           \/ Park(i, a, "approved", "approve", "register")
    BY <1>8 DEF Request
  <2>3. worker'[i].pc = "register" /\ \A j \in Worker : j # i => worker'[j] = worker[j]
    BY <2>1, <2>2, ParkFacts
  <2> QED
    BY <1>8, <2>3 DEF Request, At, Advance, EndsWell
<1>9. CASE Register(i)
  <2>1. {"wait", "listen"} \subseteq PC
    BY DEF PC
  <2> QED
    BY <1>9, <2>1, MoveAdvances DEF Register, At
<1>10. CASE Wait(i)
  BY <1>10, TransitionAdvances DEF Wait, At, PC, RunState
<1>11. CASE Parked(i)
  <2>1. {"gate", "Cancelled"} \subseteq PC /\ worker[i].ask \subseteq Ask
    BY DEF PC, TypeOK
  <2>2. PICK a \in worker[i].ask : Take(i, a, "gate") \/ Goto(i, "Cancelled")
    BY <1>11 DEF Parked
  <2>3. /\ worker'[i].pc \in {"gate", "Cancelled"}
        /\ \A j \in Worker : j # i => worker'[j] = worker[j]
    <3>1. a \in Ask
      BY <2>1
    <3>2. CASE Take(i, a, "gate")
      BY <2>1, <3>1, <3>2, TakeFacts
    <3>3. CASE Goto(i, "Cancelled")
      BY <2>1, <3>3, GotoFacts
    <3> QED
      BY <2>2, <3>2, <3>3
  <2> QED
    BY <1>11, <2>3 DEF Parked, At, Advance, EndsWell, durable
<1>12. CASE Gate(i)
  BY <1>12, MoveAdvances DEF Gate, At, SafePoint, PC
<1>13. CASE Look(i)
  <2>1. "back" \in PC
    BY DEF PC
  <2>2. /\ worker'[i].pc \in {"exec", "loop", "back"}
        /\ \A j \in Worker : j # i => worker'[j] = worker[j]
    BY <1>13, <2>1, ResumedFacts, GotoFacts DEF Look
  <2> QED
    BY <1>13, <2>2 DEF Look, At, Advance, EndsWell, durable
<1>14. CASE Back(i)
  <2>1. "fail" \in PC /\ "Running" \in RunState
    BY DEF PC, RunState
  <2>2. /\ worker'[i].pc \in {"exec", "loop", "fail"}
        /\ \A j \in Worker : j # i => worker'[j] = worker[j]
    BY <1>14, <2>1, ResumedFacts, GotoFacts DEF Back
  <2>3. EndsWell /\ (row' = "Queued" => row = "Queued")
    BY <1>14, <2>1, LegalFacts DEF Back, EndsWell
  <2> QED
    BY <1>14, <2>2, <2>3 DEF Back, At, Advance
<1>15. CASE Exec(i)
  <2>1. {"effect", "hold", "Cancelled"} \subseteq PC
    BY DEF PC
  <2>2. /\ worker'[i].pc \in {"effect", "hold", "Cancelled"}
        /\ worker'[i].pc = "effect" => live = "Running"
        /\ \A j \in Worker : j # i => worker'[j] = worker[j]
    BY <1>15, <2>1, GotoFacts DEF Exec, SafePoint
  <2> QED
    BY <1>15, <2>2 DEF Exec, At, Advance, EndsWell, TypeOK
<1>16. CASE Effect(i)
  <2>1. worker'[i].pc = "tool" /\ \A j \in Worker : j # i => worker'[j] = worker[j]
    BY <1>16, GotoFacts DEF Effect, PC
  <2> QED
    BY <1>16, <2>1 DEF Effect, At, Advance, EndsWell, durable
<1>17. CASE Tool(i)
  <2>1. worker'[i].pc = "loop" /\ \A j \in Worker : j # i => worker'[j] = worker[j]
    BY <1>17 DEF Tool, Observed, Idle, TypeOK
  <2> QED
    BY <1>17, <2>1 DEF Tool, At, Advance, EndsWell, durable
<1>18. CASE AskUser(i)
  <2>1. {"ask", "enrol", "tool"} \subseteq PC
        /\ {"WaitingForUserInput", "Running"} \subseteq RunState \ {"Queued"}
        /\ Fresh \subseteq Ask /\ "pending" \in AskState
    BY DEF PC, RunState, Fresh, AskState
  <2>2. CASE At(i, "ask") /\ UNCHANGED row
             /\ \E a \in Fresh : Park(i, a, "pending", "none", "enrol")
    <3>1. worker'[i].pc = "enrol" /\ \A j \in Worker : j # i => worker'[j] = worker[j]
      BY <2>1, <2>2, ParkFacts
    <3> QED
      BY <1>18, <2>2, <3>1 DEF AskUser, At, Advance, EndsWell
  <2>3. CASE At(i, "hold") /\ TryTransition(i, "WaitingForUserInput", "ask")
    BY <1>18, <2>1, <2>3, TransitionAdvances DEF AskUser, At
  <2>4. CASE At(i, "release") /\ TryTransition(i, "Running", "tool")
    BY <1>18, <2>1, <2>4, TransitionAdvances DEF AskUser, At
  <2> QED
    BY <1>18, <2>2, <2>3, <2>4 DEF AskUser
<1>19. CASE Listen(i)
  <2>1. "release" \in PC /\ worker[i].ask \subseteq Ask
    BY DEF PC, TypeOK
  <2>2. worker'[i].pc = "release" /\ \A j \in Worker : j # i => worker'[j] = worker[j]
    BY <1>19, <2>1, TakeFacts DEF Listen
  <2> QED
    BY <1>19, <2>2 DEF Listen, At, Advance, EndsWell, durable
<1>20. CASE Drop(i)
  BY <1>20, MoveAdvances DEF Drop, PC
<1>21. CASE Finish(i)
  <2>1. PICK s \in Terminal :
          /\ At(i, s)
          /\ \/ Goto(i, "fail") /\ UNCHANGED <<row, completions>>
             \/ Goto(i, "exit") /\ UNCHANGED <<row, completions>>
             \/ /\ Goto(i, "exit") /\ row \notin Terminal \ {s}
                /\ row' = s /\ completions' = <<s>>
    BY <1>21 DEF Finish
  <2>2. {"fail", "exit"} \subseteq PC /\ s \notin NotBegun /\ s # "Queued"
    BY DEF PC, Terminal
  <2>3. EndsWell /\ (row' = "Queued" => row = "Queued")
    BY <2>1, <2>2 DEF EndsWell
  <2>4. worker'[i].pc \in {"fail", "exit"} /\ \A j \in Worker : j # i => worker'[j] = worker[j]
    BY <2>1, <2>2, GotoFacts
  <2>5. UNCHANGED <<started, effects, workerOnly>>
    BY <1>21 DEF Finish
  <2> QED
    BY <2>1, <2>2, <2>3, <2>4, <2>5 DEF At, Advance
<1>22. CASE Fail(i)
  <2>1. worker'[i].pc = "exit" /\ \A j \in Worker : j # i => worker'[j] = worker[j]
    BY <1>22, GotoFacts DEF Fail, PC
  <2>2. EndsWell /\ (row' = "Queued" => row = "Queued")
    BY <1>22 DEF Fail, FailRun, MayFail, EndsWell, Terminal
  <2> QED
    BY <1>22, <2>1, <2>2 DEF Fail, At, Advance
<1> QED
  BY <1>1, <1>2, <1>3, <1>4, <1>5, <1>6, <1>7, <1>8, <1>9, <1>10, <1>11, <1>12, <1>13, <1>14,
     <1>15, <1>16, <1>17, <1>18, <1>19, <1>20, <1>21, <1>22 DEF WorkerStep

-----------------------------------------------------------------------------
(* The registry                                                            *)

(* A step that spawns a worker does so while there is none.                *)
LEMMA InstallKeepsRegistry ==
    ASSUME TypeOK, RegistryInv, spawned < MaxWorkers, Install, live = "none",
           starting' = FALSE, redrive' = "none", phase' = "up"
    PROVE  RegistryInv'
<1>1. \A i \in Worker : ~Alive(i)
  BY DEF RegistryInv
<1>2. /\ spawned + 1 \in Worker /\ spawned' = spawned + 1
      /\ \A j \in Worker : j # spawned + 1 => worker'[j] = worker[j]
      /\ live' # "none"
  BY InstallFacts
<1>3. \A j \in Worker : Alive(j)' => j = spawned + 1
  BY <1>1, <1>2 DEF Alive
<1>4. \A i, j \in Worker : worker'[i].pc # "none" /\ worker'[j].pc # "none" => i = j
  BY <1>3 DEF Alive
<1>5. \A i \in Worker : Alive(i)' => live' # "none" /\ i <= spawned'
  BY <1>2, <1>3 DEF Worker
<1> QED
  BY <1>4, <1>5 DEF RegistryInv, OneWorker

LEMMA RegistryKept ==
    ASSUME TypeOK, EvidenceInv, RegistryInv, [Next]_vars
    PROVE  RegistryInv'
<1> USE DEF registry, tasks, durable, bounds, launches, bootOnly
<1>1. CASE Spawn
  <2>1. CASE Install /\ MayRegister /\ UNCHANGED starting
    BY <1>1, <2>1, InstallKeepsRegistry DEF Spawn, MayRegister, RegistryInv, TypeOK
  <2>2. CASE UNCHANGED <<registry, worker, launches>>
    BY <1>1, <2>2 DEF Spawn, RegistryInv, OneWorker, Alive
  <2> QED
    BY <1>1, <2>1, <2>2 DEF Spawn
<1>2. CASE CancelRun
  BY <1>2 DEF CancelRun, RegistryInv, OneWorker, Alive
<1>3. CASE PauseRun
  BY <1>3 DEF PauseRun, RegistryInv, OneWorker, Alive
<1>4. CASE ResumeRun
  BY <1>4 DEF ResumeRun, ReserveStart, RegistryInv, OneWorker, Alive
<1>5. CASE RedriveRead \/ RedriveRelease \/ RedriveCheck
  BY <1>5 DEF RedriveRead, RedriveRelease, RedriveCheck, redriveOnly, RegistryInv, OneWorker, Alive
<1>6. CASE RedriveRefuse
  BY <1>6 DEF RedriveRefuse, RegistryInv, OneWorker, Alive
<1>17. CASE RedriveForget
  BY <1>17 DEF RedriveForget, Forget, RegistryInv, OneWorker, Alive
<1>7. CASE RedriveSpawn
  <2>1. CASE Install /\ live = "none"
    BY <1>7, <2>1, InstallKeepsRegistry DEF RedriveSpawn
  <2>2. CASE UNCHANGED <<live, pending, worker, launches>>
    BY <1>7, <2>2 DEF RedriveSpawn, RegistryInv, OneWorker, Alive
  <2> QED
    BY <1>7, <2>1, <2>2 DEF RedriveSpawn
<1>8. CASE Fallback
  BY <1>8 DEF Fallback, RegistryInv, OneWorker, Alive
<1>9. ASSUME NEW i \in Worker, Advance(i) PROVE RegistryInv'
  <2>1. UNCHANGED <<phase, live, starting, redrive, signals, spawned>>
    BY <1>9 DEF Advance, workerOnly
  <2>2. \A j \in Worker : Alive(j)' => Alive(j)
    BY <1>9 DEF Advance, Alive
  <2> QED
    BY <2>1, <2>2 DEF RegistryInv, OneWorker, Alive
<1>10. ASSUME NEW i \in Worker, Exit(i) PROVE RegistryInv'
  <2>1. worker[i].pc = "exit" /\ worker' = [worker EXCEPT ![i] = Idle] /\ phase = "up"
    BY <1>10 DEF Exit, At
  <2>2. \A j \in Worker : worker'[j].pc = "none"
    <3>1. \A j \in Worker : j # i => worker[j].pc = "none"
      BY <2>1 DEF RegistryInv, OneWorker
    <3>2. worker \in [Worker -> [pc : PC, ask : SUBSET Ask, said : {"none"} \cup Decision]]
      BY DEF TypeOK
    <3> QED
      BY <2>1, <3>1, <3>2 DEF Idle
  <2>3. ~starting /\ redrive = "none"
    BY <2>1 DEF RegistryInv, Alive, TypeOK
  <2> QED
    BY <1>10, <2>2, <2>3 DEF Exit, At, Forget, RegistryInv, OneWorker, Alive
<1>11. ASSUME NEW verb \in {"cancel", "pause", "resume"}, Command(verb) PROVE RegistryInv'
  BY <1>11 DEF Command, RegistryInv, OneWorker, Alive
<1>12. ASSUME NEW a \in Ask, Wake(a) \/ \E d \in Decision : Resolve(a, d) PROVE RegistryInv'
  <2>1. UNCHANGED <<phase, live, starting, redrive, signals, spawned, worker>>
    BY <1>12 DEF Wake, Resolve
  <2> QED
    BY <2>1 DEF RegistryInv, OneWorker, Alive
<1>13. CASE Crash
  BY <1>13 DEF Crash, Forget, RegistryInv, OneWorker, Alive, Idle
<1>14. CASE RecoverRuns
  BY <1>14 DEF RecoverRuns, RegistryInv, OneWorker, Alive
<1>15. CASE Serve
  <2>1. live = "none" /\ starting = FALSE /\ signals = {} /\ redrive = "none"
    BY <1>15 DEF Serve, RegistryInv, TypeOK
  <2>2. CASE Relaunched
    <3>1. /\ spawned < MaxWorkers /\ Install /\ phase' = "up"
          /\ starting' = starting /\ redrive' = redrive
      BY <1>15, <2>2 DEF Serve, Relaunched
    <3> QED
      BY <2>1, <3>1, InstallKeepsRegistry
  <2>3. CASE ~Relaunched
    BY <1>15, <2>1, <2>3, ServeFacts DEF Serve, RegistryInv, OneWorker, Alive
  <2> QED
    BY <2>2, <2>3
<1>16. CASE UNCHANGED vars
  BY <1>16 DEF vars, RegistryInv, OneWorker, Alive
<1> QED
  BY <1>1, <1>2, <1>3, <1>4, <1>5, <1>6, <1>7, <1>8, <1>9, <1>10, <1>11, <1>12, <1>13, <1>14,
     <1>15, <1>16, <1>17, WorkerAdvances DEF Next, Executor

-----------------------------------------------------------------------------
(* The evidence of the end                                                 *)

LEMMA EvidenceKept ==
    ASSUME TypeOK, EvidenceInv, EndsWell,
           \A i \in Worker : worker'[i].pc = "quitted" =>
               worker[i].pc = "quitted" \/ row' = "Cancelled"
    PROVE  EvidenceInv'
<1>1. completions \in Seq(Terminal)
  BY DEF TypeOK
<1>2. row \notin Terminal => completions = <<>> /\ \A i \in Worker : worker[i].pc # "quitted"
  BY DEF EvidenceInv, Terminal
<1>3. \A i \in Worker : worker'[i].pc = "quitted" => row' = "Cancelled"
  BY <1>2 DEF EndsWell, EvidenceInv
<1>4. CASE UNCHANGED completions
  <2>1. CASE row' = row
    BY <1>3, <1>4, <2>1 DEF EvidenceInv, EvidenceAgrees
  <2>2. CASE row \notin Terminal
    BY <1>2, <1>3, <1>4, <2>2 DEF EvidenceInv, EvidenceAgrees
  <2> QED
    BY <2>1, <2>2 DEF EndsWell
<1>5. CASE row' \in Terminal /\ completions' = <<row'>>
  BY <1>3, <1>5 DEF EvidenceInv, EvidenceAgrees
<1>6. CASE row' \in Terminal /\ completions' = Append(completions, row')
  <2>1. \A n \in DOMAIN completions : completions[n] = row'
    BY <1>2 DEF EvidenceInv, EvidenceAgrees, EndsWell
  <2>2. \A n \in DOMAIN completions' : completions'[n] = row'
    BY <1>1, <1>6, <2>1, AppendFacts
  <2> QED
    BY <1>3, <1>6, <2>2 DEF EvidenceInv, EvidenceAgrees
<1> QED
  BY <1>4, <1>5, <1>6 DEF EndsWell

(* Every step ends the run well, and only a worker's own quits.            *)
LEMMA StepEndsWell ==
    ASSUME TypeOK, EvidenceInv, RegistryInv, [Next]_vars
    PROVE  /\ EndsWell
           /\ \A i \in Worker : worker'[i].pc = "quitted" =>
                 worker[i].pc = "quitted" \/ row' = "Cancelled"
<1> DEFINE Goal == /\ EndsWell
                   /\ \A i \in Worker : worker'[i].pc = "quitted" =>
                         worker[i].pc = "quitted" \/ row' = "Cancelled"
<1> USE DEF durable, tasks, launches, bootOnly
<1>1. UNCHANGED <<row, completions, worker>> => Goal
  BY DEF EndsWell
<1>2. ASSUME UNCHANGED <<row, completions>>, spawned < MaxWorkers, Install PROVE Goal
  <2>1. \A j \in Worker : worker'[j] = worker[j] \/ worker'[j].pc = "setup"
    BY <1>2, InstallFacts
  <2> QED
    BY <1>2, <2>1 DEF EndsWell
<1>3. FailRun => EndsWell
  BY DEF FailRun, MayFail, EndsWell, Terminal
<1>4. CASE Spawn
  BY <1>1, <1>2, <1>4 DEF Spawn
<1>5. CASE CancelRun \/ PauseRun \/ ResumeRun \/ RedriveForget
  BY <1>1, <1>5 DEF CancelRun, PauseRun, ResumeRun, RedriveForget
<1>17. CASE RedriveRead \/ RedriveRelease \/ RedriveCheck
  BY <1>1, <1>17 DEF RedriveRead, RedriveRelease, RedriveCheck, redriveOnly
<1>6. CASE RedriveRefuse
  BY <1>3, <1>6 DEF RedriveRefuse
<1>7. CASE RedriveSpawn
  BY <1>1, <1>2, <1>7 DEF RedriveSpawn
<1>8. CASE Fallback
  BY <1>8 DEF Fallback, EndsWell, Terminal
<1>9. ASSUME NEW i \in Worker, Advance(i) PROVE Goal
  BY <1>9 DEF Advance
<1>10. ASSUME NEW i \in Worker, Exit(i) PROVE Goal
  <2>1. \A j \in Worker : worker'[j] = worker[j] \/ worker'[j].pc = "none"
    BY <1>10 DEF Exit, Idle, TypeOK
  <2> QED
    BY <1>10, <2>1 DEF Exit, EndsWell
<1>11. ASSUME NEW verb \in {"cancel", "pause", "resume"}, Command(verb) PROVE Goal
  BY <1>11 DEF Command, LegalPrior, EndsWell, Terminal
<1>12. ASSUME NEW a \in Ask, Wake(a) \/ \E d \in Decision : Resolve(a, d) PROVE Goal
  BY <1>1, <1>12 DEF Wake, Resolve
<1>13. CASE Crash
  <2>1. \A j \in Worker : worker'[j].pc = "none"
    BY <1>13 DEF Crash, Idle
  <2> QED
    BY <1>13, <2>1 DEF Crash, EndsWell
<1>14. CASE RecoverRuns
  BY <1>14 DEF RecoverRuns, EndsWell, Terminal
<1>15. CASE Serve
  <2>1. CASE Relaunched
    BY <1>2, <2>1 DEF Relaunched
  <2>2. CASE ~Relaunched
    BY <1>1, <1>3, <1>15, <2>2, ServeFacts
  <2> QED
    BY <2>1, <2>2
<1>16. CASE UNCHANGED vars
  BY <1>1, <1>16 DEF vars
<1> QED
  BY <1>4, <1>5, <1>6, <1>7, <1>8, <1>9, <1>10, <1>11, <1>12, <1>13, <1>14, <1>15, <1>16, <1>17,
     WorkerAdvances DEF Next, Executor

LEMMA ControlInit == Init => RegistryInv /\ EvidenceInv
<1> SUFFICES ASSUME Init PROVE RegistryInv /\ EvidenceInv
  OBVIOUS
<1>1. \A i \in Worker : worker[i].pc = "none"
  BY DEF Init, Idle
<1> QED
  BY <1>1 DEF Init, RegistryInv, EvidenceInv, EvidenceAgrees, OneWorker, Alive

LEMMA ControlSafe == SafetySpec => [](RegistryInv /\ EvidenceInv)
<1>1. TypeOK /\ RegistryInv /\ EvidenceInv /\ [Next]_vars => (RegistryInv /\ EvidenceInv)'
  BY RegistryKept, StepEndsWell, EvidenceKept
<1> QED
  BY <1>1, ControlInit, TypeCorrect, PTL DEF SafetySpec

(* One worker drives a run at a time, whatever launches, resumes and       *)
(* restarts race (RunControlRegistry): a worker holds the handle, a        *)
(* re-drive the reservation, and neither is given out while the other is   *)
(* held.                                                                   *)
THEOREM NeverTwoWorkers == SafetySpec => []OneWorker
<1>1. RegistryInv => OneWorker
  BY DEF RegistryInv
<1> QED
  BY <1>1, ControlSafe, PTL

(* Every RunCompleted event of a run tells the state its row is in, for    *)
(* any number of cancels, failures, re-drives and restarts: an end is      *)
(* recorded only with the state it ends in, and no end is overwritten.     *)
THEOREM EvidenceIsTrue == SafetySpec => []EvidenceAgrees
<1>1. EvidenceInv => EvidenceAgrees
  BY DEF EvidenceInv
<1> QED
  BY <1>1, ControlSafe, PTL

(* A run that ended stays as it ended (set_run_state_if_legal and the      *)
(* guards of fail_run, append_run_terminal and recover_live_runs).         *)
THEOREM EndStays == SafetySpec => EndIsFinal
<1>1. TypeOK /\ RegistryInv /\ EvidenceInv /\ [Next]_vars => [(row \in Terminal) => row' = row]_vars
  BY StepEndsWell DEF EndsWell
<1> QED
  BY <1>1, ControlSafe, TypeCorrect, PTL DEF SafetySpec, EndIsFinal

-----------------------------------------------------------------------------
(* The decisions                                                           *)

(* A row that is decided is not decided again.                             *)
DecidedStay ==
    \A a \in Ask : asks[a] \in {"approved", "rejected"} => asks'[a] = asks[a]

SameRequest(i) == worker'[i].ask = worker[i].ask /\ worker'[i].said = worker[i].said

LEMMA DecisionKept ==
    ASSUME TypeOK, DecisionInv, DecidedStay,
           \A a \in Ask : waiter'[a] = waiter[a] \/ Records(asks', waiter'[a], a),
           \A a \in Ask : wakes'[a] = wakes[a] \/ Records(asks', wakes'[a], a),
           \A i \in Worker :
               \/ SameRequest(i)
               \/ /\ \A a, b \in worker'[i].ask : a = b
                  /\ \A a \in worker'[i].ask : Records(asks', worker'[i].said, a)
    PROVE  DecisionInv'
<1>1. \A a \in Ask : \A d : Records(asks, d, a) => Records(asks', d, a)
  BY DEF Records, DecidedStay
<1>2. \A a \in Ask : Records(asks', waiter'[a], a) /\ Records(asks', wakes'[a], a)
  BY <1>1 DEF DecisionInv
<1>3. \A i \in Worker : worker[i].ask \subseteq Ask
  BY DEF TypeOK
<1>4. \A i \in Worker : \A a, b \in worker'[i].ask : a = b
  BY DEF DecisionInv, SameRequest
<1>5. \A i \in Worker : \A a \in worker'[i].ask : Records(asks', worker'[i].said, a)
  BY <1>1, <1>3 DEF DecisionInv, SameRequest
<1> QED
  BY <1>2, <1>4, <1>5 DEF DecisionInv

(* Steps that leave the brokers alone, and the request of each worker or   *)
(* drop it.                                                                *)
LEMMA BrokersAlone ==
    ASSUME TypeOK, DecisionInv, UNCHANGED <<asks, waiter, wakes>>,
           \A i \in Worker : SameRequest(i) \/ worker'[i].ask = {}
    PROVE  DecisionInv'
  BY DecisionKept DEF DecidedStay

LEMMA MovedRequest ==
    ASSUME TypeOK, NEW i \in Worker, NEW pc \in PC, Goto(i, pc)
    PROVE  \A j \in Worker : SameRequest(j)
  BY GotoFacts DEF SameRequest

LEMMA TransitionRequest ==
    ASSUME TypeOK, NEW i \in Worker, NEW s \in RunState, NEW next \in PC,
           Transition(i, s, next) \/ TryTransition(i, s, next)
    PROVE  \A j \in Worker : SameRequest(j)
  BY TransitionFacts DEF SameRequest

LEMMA ResumedRequest ==
    ASSUME TypeOK, NEW i \in Worker, Resumed(i)
    PROVE  \A j \in Worker : SameRequest(j) \/ worker'[j].ask = {}
  BY ResumedFacts DEF SameRequest

LEMMA ParkKeepsDecisions ==
    ASSUME TypeOK, DecisionInv, NEW i \in Worker, NEW a \in Fresh,
           \/ Park(i, a, "pending", "none", "register")
           \/ Park(i, a, "pending", "none", "enrol")
           \/ Park(i, a, "approved", "approve", "register"),
           UNCHANGED <<waiter, wakes>>
    PROVE  DecisionInv'
<1>1. a \in Ask /\ asks[a] = "none"
  BY DEF Fresh
<1>2. {"register", "enrol"} \subseteq PC /\ {"pending", "approved"} \subseteq AskState
      /\ "approve" \in Decision
  BY DEF PC, AskState, Decision
<1>3. /\ \A b \in Ask : b # a => asks'[b] = asks[b]
      /\ worker'[i].ask = {a} /\ Records(asks', worker'[i].said, a)
      /\ \A j \in Worker : j # i => worker'[j] = worker[j]
  <2>1. CASE Park(i, a, "pending", "none", "register")
    BY <1>1, <1>2, <2>1, ParkFacts DEF Records
  <2>2. CASE Park(i, a, "pending", "none", "enrol")
    BY <1>1, <1>2, <2>2, ParkFacts DEF Records
  <2>3. CASE Park(i, a, "approved", "approve", "register")
    BY <1>1, <1>2, <2>3, ParkFacts DEF Records
  <2> QED
    BY <2>1, <2>2, <2>3
<1>4. DecidedStay
  BY <1>1, <1>3 DEF DecidedStay
<1>5. \A j \in Worker : \/ SameRequest(j)
                        \/ /\ \A b, c \in worker'[j].ask : b = c
                           /\ \A b \in worker'[j].ask : Records(asks', worker'[j].said, b)
  BY <1>3 DEF SameRequest
<1> QED
  BY <1>4, <1>5, DecisionKept

LEMMA TakeKeepsDecisions ==
    ASSUME TypeOK, DecisionInv, NEW i \in Worker, NEW a \in worker[i].ask, NEW next \in PC,
           Take(i, a, next), UNCHANGED <<asks, wakes>>
    PROVE  DecisionInv'
<1>1. a \in Ask
  BY DEF TypeOK
<1>2. /\ waiter'[a] = "none" /\ \A b \in Ask : b # a => waiter'[b] = waiter[b]
      /\ worker'[i].ask = worker[i].ask /\ worker'[i].said = waiter[a]
      /\ \A j \in Worker : j # i => worker'[j] = worker[j]
  BY <1>1, TakeFacts
<1>3. \A b \in worker[i].ask : b = a
  BY DEF DecisionInv
<1>4. Records(asks', worker'[i].said, a) /\ Records(asks', waiter'[a], a)
  BY <1>1, <1>2 DEF DecisionInv, Records
<1>5. \A j \in Worker : \/ SameRequest(j)
                        \/ /\ \A b, c \in worker'[j].ask : b = c
                           /\ \A b \in worker'[j].ask : Records(asks', worker'[j].said, b)
  BY <1>2, <1>3, <1>4 DEF SameRequest
<1> QED
  BY <1>2, <1>4, <1>5, DecisionKept DEF DecidedStay

LEMMA WorkerKeepsDecisions ==
    ASSUME TypeOK, DecisionInv, NEW i \in Worker,
           Setup(i) \/ Loop(i) \/ Tool(i) \/ WorkerStep(i)
    PROVE  DecisionInv'
<1> USE DEF durable, workerOnly
<1>1. CASE Setup(i) \/ Begin(i) \/ Held(i)
  BY <1>1, MovedRequest, BrokersAlone DEF Setup, Begin, Held, PC
<1>2. CASE Loop(i) \/ Gate(i) \/ Drop(i)
  BY <1>2, MovedRequest, BrokersAlone DEF Loop, Gate, Drop, SafePoint, PC
<1>3. CASE Exec(i)
  <2>1. UNCHANGED <<asks, waiter, wakes>>
    BY <1>3 DEF Exec
  <2>2. \A j \in Worker : SameRequest(j)
    BY <1>3, MovedRequest DEF Exec, SafePoint, PC
  <2> QED
    BY <2>1, <2>2, BrokersAlone
<1>4. CASE Quit(i)
  <2>1. "quitted" \in PC /\ "Cancelled" \in RunState
    BY DEF PC, RunState, Terminal
  <2> QED
    BY <1>4, <2>1, MovedRequest, TransitionRequest, BrokersAlone DEF Quit
<1>5. CASE Quitted(i) \/ Effect(i) \/ Fail(i)
  BY <1>5, MovedRequest, BrokersAlone DEF Quitted, Effect, Fail, PC
<1>6. CASE Prepare(i)
  <2>1. {"enter", "loop"} \subseteq PC /\ {"Preparing", "Running"} \subseteq RunState
    BY DEF PC, RunState
  <2> QED
    BY <1>6, <2>1, TransitionRequest, BrokersAlone DEF Prepare
<1>7. CASE Wait(i)
  <2>1. "parked" \in PC /\ "WaitingForApproval" \in RunState
    BY DEF PC, RunState
  <2> QED
    BY <1>7, <2>1, TransitionRequest, BrokersAlone DEF Wait
<1>8. CASE Request(i)
  BY <1>8, ParkKeepsDecisions DEF Request
<1>9. CASE AskUser(i)
  <2>1. {"ask", "tool"} \subseteq PC /\ {"WaitingForUserInput", "Running"} \subseteq RunState
    BY DEF PC, RunState
  <2>2. UNCHANGED <<waiter, wakes>>
    BY <1>9 DEF AskUser
  <2>3. CASE TryTransition(i, "WaitingForUserInput", "ask") /\ UNCHANGED asks
    BY <2>1, <2>2, <2>3, TransitionRequest, BrokersAlone
  <2>4. CASE \E a \in Fresh : Park(i, a, "pending", "none", "enrol")
    BY <2>2, <2>4, ParkKeepsDecisions
  <2>5. CASE TryTransition(i, "Running", "tool") /\ UNCHANGED asks
    BY <2>1, <2>2, <2>5, TransitionRequest, BrokersAlone
  <2> QED
    BY <1>9, <2>3, <2>4, <2>5 DEF AskUser
<1>10. CASE Register(i)
  <2>1. \A j \in Worker : SameRequest(j)
    BY <1>10, MovedRequest DEF Register, PC
  <2>2. UNCHANGED <<asks, wakes>>
    BY <1>10 DEF Register
  <2>3. \A a \in Ask : waiter'[a] = waiter[a] \/ Records(asks', waiter'[a], a)
    <3> TAKE a \in Ask
    <3>1. waiter'[a] = IF a \in worker[i].ask THEN Registered(a, worker[i].said) ELSE waiter[a]
      BY <1>10 DEF Register
    <3>2. a \in worker[i].ask => Records(asks, worker[i].said, a)
      BY DEF DecisionInv
    <3> QED
      BY <2>2, <3>1, <3>2 DEF Registered, Records
  <2> QED
    BY <2>1, <2>2, <2>3, DecisionKept DEF DecidedStay
<1>11. CASE Parked(i)
  <2>1. {"gate", "Cancelled"} \subseteq PC /\ worker[i].ask \subseteq Ask
    BY DEF PC, TypeOK
  <2>2. UNCHANGED <<asks, wakes>>
    BY <1>11 DEF Parked
  <2>3. PICK a \in worker[i].ask :
          Take(i, a, "gate") \/ (Goto(i, "Cancelled") /\ waiter' = [waiter EXCEPT ![a] = "none"])
    BY <1>11 DEF Parked
  <2>4. CASE Take(i, a, "gate")
    BY <2>1, <2>2, <2>4, TakeKeepsDecisions
  <2>5. CASE Goto(i, "Cancelled") /\ waiter' = [waiter EXCEPT ![a] = "none"]
    <3>1. \A b \in Ask : waiter'[b] = waiter[b] \/ waiter'[b] = "none"
      BY <2>1, <2>5 DEF TypeOK
    <3>2. \A b \in Ask : waiter'[b] = waiter[b] \/ Records(asks', waiter'[b], b)
      BY <3>1 DEF Records
    <3>3. \A j \in Worker : SameRequest(j)
      BY <2>1, <2>5, MovedRequest
    <3> QED
      BY <2>2, <3>2, <3>3, DecisionKept DEF DecidedStay
  <2> QED
    BY <2>3, <2>4, <2>5
<1>12. CASE Listen(i)
  BY <1>12, TakeKeepsDecisions DEF Listen, PC
<1>13. CASE Look(i) \/ Back(i)
  <2>1. {"back", "fail"} \subseteq PC
    BY DEF PC
  <2>2. \A j \in Worker : SameRequest(j) \/ worker'[j].ask = {}
    BY <1>13, <2>1, ResumedRequest, MovedRequest DEF Look, Back
  <2> QED
    BY <1>13, <2>2, BrokersAlone DEF Look, Back
<1>14. CASE Tool(i)
  <2>1. \A j \in Worker : SameRequest(j) \/ worker'[j].ask = {}
    BY <1>14 DEF Tool, Observed, Idle, TypeOK, SameRequest
  <2> QED
    BY <1>14, <2>1, BrokersAlone DEF Tool
<1>15. CASE Finish(i)
  <2>1. \A j \in Worker : SameRequest(j)
    BY <1>15, MovedRequest DEF Finish, PC
  <2> QED
    BY <1>15, <2>1, BrokersAlone DEF Finish
<1>16. CASE Exit(i)
  <2>1. \A j \in Worker : SameRequest(j) \/ worker'[j].ask = {}
    BY <1>16 DEF Exit, Idle, TypeOK, SameRequest
  <2> QED
    BY <1>16, <2>1, BrokersAlone DEF Exit
<1> QED
  BY <1>1, <1>2, <1>3, <1>4, <1>5, <1>6, <1>7, <1>8, <1>9, <1>10, <1>11, <1>12, <1>13, <1>14,
     <1>15, <1>16 DEF WorkerStep

LEMMA InstalledRequest ==
    ASSUME TypeOK, spawned < MaxWorkers, Install
    PROVE  \A j \in Worker : SameRequest(j)
  BY InstallFacts DEF SameRequest

LEMMA StepKeepsDecisions ==
    ASSUME TypeOK, DecisionInv, [Next]_vars
    PROVE  DecisionInv'
<1> USE DEF durable, tasks, launches, bootOnly
<1>1. UNCHANGED <<asks, waiter, wakes, worker>> => DecisionInv'
  BY BrokersAlone DEF SameRequest
<1>2. CASE Spawn
  BY <1>1, <1>2, InstalledRequest, BrokersAlone DEF Spawn
<1>3. CASE CancelRun \/ PauseRun \/ ResumeRun \/ RedriveForget
  BY <1>1, <1>3 DEF CancelRun, PauseRun, ResumeRun, RedriveForget
<1>4. CASE RedriveRefuse \/ Fallback
  BY <1>1, <1>4 DEF RedriveRefuse, Fallback
<1>13. CASE RedriveRead \/ RedriveRelease \/ RedriveCheck
  BY <1>1, <1>13 DEF RedriveRead, RedriveRelease, RedriveCheck, redriveOnly
<1>5. CASE RedriveSpawn
  BY <1>1, <1>5, InstalledRequest, BrokersAlone DEF RedriveSpawn
<1>6. ASSUME NEW verb \in {"cancel", "pause", "resume"}, Command(verb) PROVE DecisionInv'
  BY <1>1, <1>6 DEF Command
<1>7. ASSUME NEW a \in Ask, Wake(a) PROVE DecisionInv'
  <2>1. UNCHANGED <<asks, worker>> /\ \A b \in Ask : wakes'[b] = wakes[b] \/ wakes'[b] = "none"
    BY <1>7 DEF Wake, TypeOK
  <2>2. \A b \in Ask : waiter'[b] = waiter[b] \/ (b = a /\ waiter'[b] = wakes[a])
    BY <1>7 DEF Wake, TypeOK
  <2>3. \A b \in Ask : waiter'[b] = waiter[b] \/ Records(asks', waiter'[b], b)
    BY <2>1, <2>2 DEF DecisionInv
  <2>4. \A b \in Ask : wakes'[b] = wakes[b] \/ Records(asks', wakes'[b], b)
    BY <2>1 DEF Records
  <2> QED
    BY <2>1, <2>3, <2>4, DecisionKept DEF DecidedStay, SameRequest
<1>8. ASSUME NEW a \in Ask, NEW d \in Decision, Resolve(a, d) PROVE DecisionInv'
  <2>1. asks[a] = "pending" /\ UNCHANGED <<waiter, worker>>
    BY <1>8 DEF Resolve, Open
  <2>2. /\ asks'[a] = IF d = "approve" THEN "approved" ELSE "rejected"
        /\ \A b \in Ask : b # a => asks'[b] = asks[b]
    BY <1>8 DEF Resolve, TypeOK
  <2>3. wakes'[a] = d /\ \A b \in Ask : b # a => wakes'[b] = wakes[b]
    BY <1>8 DEF Resolve, TypeOK
  <2>4. DecidedStay
    BY <2>1, <2>2 DEF DecidedStay
  <2>5. Records(asks', wakes'[a], a)
    BY <2>2, <2>3 DEF Records, Decision
  <2> QED
    BY <2>1, <2>3, <2>4, <2>5, DecisionKept DEF SameRequest
<1>9. CASE Crash
  <2>1. UNCHANGED asks /\ \A a \in Ask : waiter'[a] = "none" /\ wakes'[a] = "none"
    BY <1>9 DEF Crash
  <2>2. \A j \in Worker : worker'[j].ask = {}
    BY <1>9 DEF Crash, Idle
  <2>3. \A a \in Ask : Records(asks', waiter'[a], a) /\ Records(asks', wakes'[a], a)
    BY <2>1 DEF Records
  <2> QED
    BY <2>1, <2>2, <2>3, DecisionKept DEF DecidedStay
<1>10. CASE RecoverRuns
  BY <1>1, <1>10 DEF RecoverRuns
<1>11. CASE Serve
  <2>1. DecidedStay /\ UNCHANGED <<waiter, wakes>>
    BY <1>11 DEF Serve, DecidedStay
  <2>2. \A j \in Worker : SameRequest(j)
    <3>1. CASE Relaunched
      BY <3>1, InstalledRequest DEF Relaunched
    <3>2. CASE ~Relaunched
      BY <1>11, <3>2, ServeFacts DEF SameRequest
    <3> QED
      BY <3>1, <3>2
  <2> QED
    BY <2>1, <2>2, DecisionKept
<1>12. CASE UNCHANGED vars
  BY <1>1, <1>12 DEF vars
<1> QED
  BY <1>2, <1>3, <1>4, <1>5, <1>6, <1>7, <1>8, <1>9, <1>10, <1>11, <1>12, <1>13,
     WorkerKeepsDecisions DEF Next, Executor

(* A worker acts on the decision its request's row records, for any number *)
(* of requests, answers and restarts: a row is decided once, and whatever  *)
(* carries its decision (the wake-up, the waiter's entry, the worker)      *)
(* carries that one (resolve_in_tx, wake, register_waiter).                *)
THEOREM DecisionsAreTrue == SafetySpec => []DecisionAgrees
<1>1. Init => DecisionInv
  BY DEF Init, DecisionInv, Records, Idle
<1>2. TypeOK /\ DecisionInv /\ [Next]_vars => DecisionInv'
  BY StepKeepsDecisions
<1>3. DecisionInv => DecisionAgrees
  BY DEF DecisionInv, DecisionAgrees, Records
<1> QED
  BY <1>1, <1>2, <1>3, TypeCorrect, PTL DEF SafetySpec

-----------------------------------------------------------------------------
(* The effects                                                             *)

LEMMA QueuedKept ==
    ASSUME TypeOK, EvidenceInv, RegistryInv, QueuedInv, [Next]_vars
    PROVE  QueuedInv'
<1> SUFFICES ASSUME row' = "Queued" PROVE QueuedInv'
  BY DEF QueuedInv
<1> USE DEF durable, registry, tasks, launches, bootOnly, bounds
<1>0. /\ row = "Queued" =>
            /\ ~started /\ live # "Paused" /\ "pause" \notin pending
            /\ signals \cap {"pause", "resume"} = {}
            /\ \A i \in Worker : worker[i].pc \in NotBegun
  BY DEF QueuedInv
<1>1. ASSUME UNCHANGED <<row, started, worker>>, signals' \subseteq signals,
             pending' \subseteq pending, live' = live \/ live' # "Paused"
      PROVE  QueuedInv'
  BY <1>0, <1>1 DEF QueuedInv
<1>2. ASSUME UNCHANGED <<row, started>>, signals' \subseteq signals,
             spawned < MaxWorkers, Install
      PROVE  QueuedInv'
  <2>1. live' # "Paused" /\ "pause" \notin pending'
    BY <1>0, <1>2, InstallFacts
  <2>2. \A j \in Worker : worker'[j] = worker[j] \/ worker'[j].pc = "setup"
    BY <1>2, InstallFacts
  <2>3. \A j \in Worker : worker'[j].pc \in NotBegun
    BY <1>0, <1>2, <2>2 DEF NotBegun
  <2> QED
    BY <1>0, <1>2, <2>1, <2>3 DEF QueuedInv
<1>3. CASE Spawn
  BY <1>1, <1>2, <1>3 DEF Spawn
<1>4. CASE CancelRun
  BY <1>0, <1>4 DEF CancelRun, QueuedInv
<1>5. CASE PauseRun \/ ResumeRun
  BY <1>0, <1>5 DEF PauseRun, ResumeRun
<1>6. CASE Fallback
  BY <1>1, <1>6 DEF Fallback
<1>17. CASE RedriveRead \/ RedriveRelease \/ RedriveCheck
  BY <1>1, <1>17 DEF RedriveRead, RedriveRelease, RedriveCheck, redriveOnly
<1>18. CASE RedriveForget
  BY <1>1, <1>18 DEF RedriveForget, Forget
<1>7. CASE RedriveRefuse
  <2>1. UNCHANGED row
    BY <1>7 DEF RedriveRefuse, FailRun
  <2> QED
    BY <1>1, <1>7, <2>1 DEF RedriveRefuse
<1>8. CASE RedriveSpawn
  BY <1>1, <1>2, <1>8 DEF RedriveSpawn
<1>9. ASSUME NEW i \in Worker, Advance(i) PROVE QueuedInv'
  <2>1. row = "Queued" /\ UNCHANGED <<live, pending, signals>>
    BY <1>9 DEF Advance, workerOnly
  <2>2. \A j \in Worker : worker'[j].pc \in NotBegun
    BY <1>0, <1>9, <2>1 DEF Advance
  <2>3. started' = started
    BY <1>0, <1>9, <2>1 DEF Advance, NotBegun
  <2> QED
    BY <1>0, <2>1, <2>2, <2>3 DEF QueuedInv
<1>10. ASSUME NEW i \in Worker, Exit(i) PROVE QueuedInv'
  <2>1. \A j \in Worker : worker'[j] = worker[j] \/ worker'[j].pc = "none"
    BY <1>10 DEF Exit, Idle, TypeOK
  <2>2. row = "Queued" => \A j \in Worker : worker'[j].pc \in NotBegun
    BY <1>0, <2>1 DEF NotBegun
  <2> QED
    BY <1>0, <1>10, <2>2 DEF Exit, Forget, QueuedInv
<1>11. ASSUME NEW verb \in {"cancel", "pause", "resume"}, Command(verb) PROVE QueuedInv'
  BY <1>11 DEF Command, Target
<1>12. ASSUME NEW a \in Ask, Wake(a) \/ \E d \in Decision : Resolve(a, d) PROVE QueuedInv'
  <2>1. UNCHANGED <<row, started, worker, signals, pending, live>>
    BY <1>12 DEF Wake, Resolve
  <2> QED
    BY <1>1, <2>1
<1>13. CASE Crash
  <2>1. \A j \in Worker : worker'[j].pc \in NotBegun
    BY <1>13 DEF Crash, Idle, NotBegun
  <2> QED
    BY <1>0, <1>13, <2>1 DEF Crash, Forget, QueuedInv
<1>14. CASE RecoverRuns
  BY <1>1, <1>14 DEF RecoverRuns
<1>15. CASE Serve
  <2>1. UNCHANGED <<started, signals>>
    BY <1>15 DEF Serve
  <2>2. CASE Relaunched
    BY <1>2, <2>1, <2>2 DEF Relaunched
  <2>3. CASE ~Relaunched
    <3>1. UNCHANGED row
      BY <1>15, <2>3, ServeFacts DEF FailRun
    <3> QED
      BY <1>1, <1>15, <2>1, <2>3, <3>1, ServeFacts
  <2> QED
    BY <2>2, <2>3
<1>16. CASE UNCHANGED vars
  BY <1>1, <1>16 DEF vars
<1> QED
  BY <1>3, <1>4, <1>5, <1>6, <1>7, <1>8, <1>9, <1>10, <1>11, <1>12, <1>13, <1>14, <1>15, <1>16,
     <1>17, <1>18,
     WorkerAdvances DEF Next, Executor

(* A worker spawned otherwise than by the launch is spawned while no tool  *)
(* of the run was started.                                                 *)
LEMMA InstallKeepsEffects ==
    ASSUME TypeOK, RegistryInv, EffectInv, spawned < MaxWorkers, Install, live = "none",
           UNCHANGED <<started, effects>>, redrive' = "none",
           \/ launched' = launched /\ signals' = signals /\ ~started
           \/ launched = 0 /\ launched' = spawned + 1 /\ signals' = signals \ {"spawn"}
    PROVE  EffectInv'
<1>1. /\ spawned + 1 \in Worker /\ spawned' = spawned + 1 /\ spawned \in Nat
      /\ worker'[spawned + 1].pc = "setup"
      /\ \A j \in Worker : j # spawned + 1 => worker'[j] = worker[j]
  BY InstallFacts, AgentRunAssumption DEF TypeOK
<1>2. \A j \in Worker : Alive(j)' => j = spawned + 1
  BY <1>1 DEF RegistryInv, Alive
<1>3. effects \subseteq 1..spawned /\ effects \subseteq Worker
  BY <1>1 DEF EffectInv, TypeOK, Worker
<1>4. \A i \in Worker : Alive(i)' => effects \subseteq 1..i
  BY <1>1, <1>2, <1>3
<1>5. \A i \in Worker : Alive(i)' /\ i # launched' => effects \subseteq {i}
  BY <1>2 DEF EffectInv
<1>6. \A i, j \in effects : i < j => j = launched'
  <2>1. CASE launched' = launched
    BY <2>1 DEF EffectInv, EffectsOfOneWorker
  <2>2. CASE launched = 0
    BY <1>3, <2>2 DEF EffectInv, EffectsOfOneWorker
  <2> QED
    BY <2>1, <2>2
<1>7. \A i \in Worker : worker'[i].pc # "effect"
  BY <1>1, <1>2 DEF Alive
<1>8. launched' <= spawned' /\ \A i \in effects : i <= spawned'
  <2>1. launched \in Nat /\ launched <= spawned
    BY AgentRunAssumption DEF TypeOK, EffectInv
  <2> QED
    BY <1>1, <1>3, <2>1
<1>9. "spawn" \in signals' => launched' = 0
  BY DEF EffectInv
<1> QED
  BY <1>4, <1>5, <1>6, <1>7, <1>8, <1>9 DEF EffectInv, EffectsOfOneWorker

LEMMA EffectKept ==
    ASSUME TypeOK, EvidenceInv, RegistryInv, QueuedInv, EffectInv, [Next]_vars
    PROVE  EffectInv'
<1> USE DEF durable, registry, tasks, launches, bootOnly, bounds
<1>1. ASSUME UNCHANGED <<started, effects, spawned, launched>>,
             "spawn" \in signals' => "spawn" \in signals,
             redrive' = "spawn" => ~started,
             \A i \in Worker : worker'[i].pc = worker[i].pc \/ worker'[i].pc = "none"
      PROVE  EffectInv'
  <2>1. \A i \in Worker : (Alive(i)' => Alive(i))
                          /\ (worker'[i].pc = "effect" => worker[i].pc = "effect")
    BY <1>1 DEF Alive
  <2> QED
    BY <1>1, <2>1 DEF EffectInv, EffectsOfOneWorker
<1>2. CASE Spawn
  <2>1. CASE MayRegister /\ Install /\ launched' = spawned + 1 /\ UNCHANGED starting
    <3>1. launched = 0 /\ redrive = "none" /\ live = "none"
      BY <1>2, <2>1 DEF Spawn, MayRegister, EffectInv, RegistryInv
    <3> QED
      BY <1>2, <2>1, <3>1, InstallKeepsEffects DEF Spawn
  <2>2. CASE UNCHANGED <<registry, worker, launches>>
    BY <1>1, <1>2, <2>2 DEF Spawn, EffectInv
  <2> QED
    BY <1>2, <2>1, <2>2 DEF Spawn
<1>3. CASE CancelRun
  BY <1>1, <1>3 DEF CancelRun, EffectInv
<1>4. CASE PauseRun
  BY <1>1, <1>4 DEF PauseRun, EffectInv
<1>5. CASE ResumeRun
  BY <1>1, <1>5 DEF ResumeRun, EffectInv
<1>6. CASE RedriveRead \/ RedriveRelease \/ RedriveCheck
  BY <1>1, <1>6 DEF RedriveRead, RedriveRelease, RedriveCheck, redriveOnly, AfterLedgerCheck
<1>7. CASE RedriveRefuse \/ RedriveForget \/ Fallback
  BY <1>1, <1>7 DEF RedriveRefuse, RedriveForget, Fallback, EffectInv
<1>8. CASE RedriveSpawn
  <2>1. CASE live = "none" /\ Install /\ UNCHANGED launched
    <3>1. ~started
      BY <1>8 DEF RedriveSpawn, EffectInv
    <3> QED
      BY <1>8, <2>1, <3>1, InstallKeepsEffects DEF RedriveSpawn
  <2>2. CASE UNCHANGED <<live, pending, worker, launches>>
    BY <1>1, <1>8, <2>2 DEF RedriveSpawn
  <2> QED
    BY <1>8, <2>1, <2>2 DEF RedriveSpawn
<1>9. ASSUME NEW i \in Worker, Advance(i) PROVE EffectInv'
  <2>1. redrive = "none" /\ UNCHANGED <<redrive, signals, spawned, launched>>
    BY <1>9 DEF Advance, workerOnly, RegistryInv
  <2>2. i <= spawned /\ i \in Nat /\ spawned \in Nat
    BY <1>9, AgentRunAssumption DEF Advance, RegistryInv, Worker, TypeOK
  <2>3. \A j \in Worker : Alive(j)' => j = i
    BY <1>9 DEF Advance, RegistryInv, OneWorker, Alive
  <2>4. started => started'
    BY <1>9 DEF Advance
  <2>5. effects' = effects \/ (started /\ effects' = effects \cup {i})
    BY <1>9 DEF Advance, EffectInv
  <2>6. /\ effects \subseteq 1..i
        /\ i # launched => effects \subseteq {i}
    BY <1>9 DEF Advance, EffectInv
  <2>7. /\ effects' \subseteq 1..i
        /\ i # launched => effects' \subseteq {i}
    <3>1. i \in 1..i
      BY <2>2, AgentRunAssumption DEF Worker
    <3>2. CASE effects' = effects
      BY <2>6, <3>2
    <3>3. CASE effects' = effects \cup {i}
      BY <2>6, <3>1, <3>3
    <3> QED
      BY <2>5, <3>2, <3>3
  <2>8. effects' # {} => started'
    BY <2>4, <2>5 DEF EffectInv
  <2>9. \A k, j \in effects' : k < j => j = launched
    <3>1. CASE i = launched
      <4>1. \A j \in effects : \A k \in effects : k < j => j = launched
        BY DEF EffectInv, EffectsOfOneWorker
      <4>2. \A j \in effects' : j \in 1..i
        BY <2>7
      <4> QED
        BY <2>2, <2>5, <3>1, <4>1, <4>2
    <3>2. CASE i # launched
      BY <2>2, <2>7, <3>2
    <3> QED
      BY <3>1, <3>2
  <2>10. \A j \in Worker : worker'[j].pc = "effect" => started'
    BY <1>9, <2>4 DEF Advance, EffectInv
  <2>11. \A j \in effects' : j <= spawned
    BY <2>2, <2>7
  <2>12. \A j \in Worker : Alive(j)' => effects' \subseteq 1..j
    BY <2>3, <2>7
  <2>13. \A j \in Worker : Alive(j)' /\ j # launched => effects' \subseteq {j}
    BY <2>3, <2>7
  <2> QED
    BY <2>1, <2>8, <2>9, <2>10, <2>11, <2>12, <2>13 DEF EffectInv, EffectsOfOneWorker
<1>10. ASSUME NEW i \in Worker, Exit(i) PROVE EffectInv'
  <2>1. \A j \in Worker : worker'[j].pc = worker[j].pc \/ worker'[j].pc = "none"
    BY <1>10 DEF Exit, Idle, TypeOK
  <2> QED
    BY <1>1, <1>10, <2>1 DEF Exit, EffectInv
<1>11. ASSUME NEW verb \in {"cancel", "pause", "resume"}, Command(verb) PROVE EffectInv'
  BY <1>1, <1>11 DEF Command, EffectInv
<1>12. ASSUME NEW a \in Ask, Wake(a) \/ \E d \in Decision : Resolve(a, d) PROVE EffectInv'
  <2>1. UNCHANGED <<started, effects, spawned, launched, signals, redrive, worker>>
    BY <1>12 DEF Wake, Resolve
  <2> QED
    BY <1>1, <2>1 DEF EffectInv
<1>13. CASE Crash
  <2>1. \A j \in Worker : worker'[j].pc = "none"
    BY <1>13 DEF Crash, Idle
  <2> QED
    BY <1>1, <1>13, <2>1 DEF Crash
<1>14. CASE RecoverRuns
  BY <1>1, <1>14 DEF RecoverRuns, EffectInv
<1>15. CASE Serve
  <2>1. live = "none" /\ redrive = "none"
    BY <1>15 DEF Serve, RegistryInv
  <2>2. CASE Relaunched
    <3>1. /\ spawned < MaxWorkers /\ Install /\ ~started
          /\ UNCHANGED <<started, effects, launched, signals, redrive>>
      BY <1>15, <2>2 DEF Serve, Relaunched, QueuedInv
    <3> QED
      BY <2>1, <3>1, InstallKeepsEffects
  <2>3. CASE ~Relaunched
    BY <1>1, <1>15, <2>1, <2>3, ServeFacts DEF Serve
  <2> QED
    BY <2>2, <2>3
<1>16. CASE UNCHANGED vars
  BY <1>1, <1>16 DEF vars, EffectInv
<1> QED
  BY <1>2, <1>3, <1>4, <1>5, <1>6, <1>7, <1>8, <1>9, <1>10, <1>11, <1>12, <1>13, <1>14,
     <1>15, <1>16, WorkerAdvances DEF Next, Executor

(* No worker that a resume re-drives or a restart relaunches begins a tool *)
(* when an earlier one did, for any number of crashes, pauses and resumes: *)
(* the ledger is asked while the reservation keeps every worker away, and  *)
(* a queued run has started nothing (redrive_resumed_run,                  *)
(* relaunch_queued_runs).                                                  *)
THEOREM RedriveRepeatsNothing == SafetySpec => []EffectsOfOneWorker
<1>1. Init => QueuedInv /\ EffectInv
  <2> SUFFICES ASSUME Init PROVE QueuedInv /\ EffectInv
    OBVIOUS
  <2>1. \A i \in Worker : worker[i].pc = "none"
    BY DEF Init, Idle
  <2> QED
    BY <2>1 DEF Init, QueuedInv, EffectInv, EffectsOfOneWorker, Alive, NotBegun
<1>2. TypeOK /\ RegistryInv /\ EvidenceInv /\ QueuedInv /\ EffectInv /\ [Next]_vars
        => (QueuedInv /\ EffectInv)'
  BY QueuedKept, EffectKept
<1>3. EffectInv => EffectsOfOneWorker
  BY DEF EffectInv
<1> QED
  BY <1>1, <1>2, <1>3, TypeCorrect, ControlSafe, PTL DEF SafetySpec
=============================================================================
