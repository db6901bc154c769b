--------------------------- MODULE WorkflowBudget ---------------------------
(***************************************************************************)
(* The engine with its budget ledger.  The cost of every node lives in its *)
(* row (workflow_nodes.cost_json); a node's executor reads all of them     *)
(* once, before it works, and decides with that view both whether to start *)
(* and whether its own result is within budget (workflow_exec.rs).  Every  *)
(* step is an engine step together with what it does to the ledger.        *)
(***************************************************************************)
EXTENDS WorkflowEngine, BudgetCharge, Folds

CONSTANTS LimitsOf,    \* the nested ceilings in force for each node
          AttemptCost, \* what one attempt of each node may cost
          MaxMisses    \* bound on manifest reads and best-effort bank writes that fail

ASSUME BudgetAssumption ==
    /\ LimitsOf \in [Node -> BudgetLimits]
    /\ AttemptCost \in [Node -> SUBSET NodeCost]
    /\ \A n \in Node \ AgentNode : /\ \A d \in AttemptCost[n] : d.micros = None
                                  /\ \A x \in NodeCeiling : LimitsOf[n][x] = None
    /\ MaxMisses \in Nat
(* The envelope is the workflow's, the same for every node. *)
ASSUME EnvelopeAssumption ==
    \A m, n \in Node, x \in Ceiling \ NodeCeiling : LimitsOf[m][x] = LimitsOf[n][x]

VARIABLES cost,     \* cost_json of each row, or None
          view,     \* what the running attempt read of the ledger, or None
          bill,     \* the cost its outcome carries, or None
          spent,    \* what the node's finished attempts really cost since its last retry
          blocked,  \* nodes that blocked on their budget since the last retry
          misses    \* manifest reads and bank writes that failed

ledger == <<cost, view, bill, spent, blocked, misses>>
budgetVars == <<vars, ledger>>

(* A missing cost_json is the zero cost. *)
Recorded(n) == IF cost[n] = None THEN ZeroCost ELSE cost[n]

Total(S) == MapThenFoldSet(AddCost, ZeroCost, Recorded, LAMBDA T : CHOOSE n \in T : TRUE, S)

(* Measured spend, kept exactly. *)
NoSpend == [wall |-> 0, calls |-> 0, micros |-> 0]
Spend(s, c) == [wall   |-> s.wall + c.wall,
                calls  |-> s.calls + c.calls,
                micros |-> s.micros + (IF c.micros = None THEN 0 ELSE c.micros)]

----------------------------------------------------------------------------
(* A best-effort access to the store fails and the node goes on. *)
Miss == misses < MaxMisses /\ misses' = misses + 1

ReadLedger(n, limits) ==
    view' = [view EXCEPT ![n] = [limits |-> limits, others |-> Total(Node \ {n}),
                                 prior |-> Recorded(n)]]

(* budget_limits and budget_consumption: one read, before the node works.  *)
(* A manifest that cannot be read leaves the node's own slice.             *)
BudgetRead(n) ==
    /\ exec[n] = "gate" /\ view[n] = None
    /\ \/ ReadLedger(n, LimitsOf[n]) /\ UNCHANGED misses
       \/ ReadLedger(n, WithoutEnvelope(LimitsOf[n])) /\ Miss
    /\ UNCHANGED <<vars, cost, bill, spent, blocked>>

Exhausted(n) == Exceeded(view[n].limits, view[n].others, view[n].prior)

(* The pre-gate: an exhausted budget blocks the node before it works. *)
BudgetGate(n) ==
    /\ view[n] # None
    /\ \/ Exhausted(n) /\ NodeGate(n, "blocked")
       \/ ~Exhausted(n) /\ (NodeGate(n, "failed") \/ NodeAgent(n) \/ NodeTool(n) \/ NodePark(n))
    /\ UNCHANGED ledger

(* A preparation that fails before the ledger is read. *)
PrepareFailed(n) == view[n] = None /\ NodeGate(n, "failed") /\ UNCHANGED ledger

(* Every attempt is charged on top of the ones before it. *)
Measured(n, d) == AddCost(view[n].prior, d)

(* bank_attempt_spend: a failed attempt's spend goes to the row (which is  *)
(* running then), best effort.                                             *)
Bank(n, d) ==
    /\ \/ /\ cost' = [cost EXCEPT ![n] = Measured(n, d)] /\ nodeState'[n] = "running"
          /\ UNCHANGED misses
       \/ Miss /\ UNCHANGED cost
    /\ spent' = [spent EXCEPT ![n] = Spend(spent[n], d)]
    /\ UNCHANGED <<view, bill, blocked>>

(* An attempt ends.  A successful one is charged with the view read before *)
(* it started, and blocks when that exceeds a ceiling.                     *)
AttemptEnds(n, outcome, d) ==
    LET over == Exceeded(view[n].limits, view[n].others, Measured(n, d))
    IN  /\ NodeOutcome(n, outcome) \/ NodeEffect(n, outcome)
        /\ \/ outcome = "failed" /\ Bank(n, d)
           \/ /\ outcome = IF over THEN "blocked" ELSE "completed"
              /\ bill' = [bill EXCEPT ![n] = Measured(n, d)]
              /\ spent' = [spent EXCEPT ![n] = Spend(spent[n], d)]
              /\ UNCHANGED <<cost, view, blocked, misses>>

(* A park that ends without its effect banks what it measured. *)
ParkEnds(n, d) ==
    /\ NodeParkCancelled(n) \/ NodeUnpark(n) \/ NodeParkFails(n)
    /\ IF exec'[n] = "failed" THEN Bank(n, d) ELSE UNCHANGED ledger

(* Fault: the outcome's total is added to what the row already holds. *)
CompletedAddsBill(n) ==
    /\ NodeCompleted(n)
    /\ cost' = [cost EXCEPT ![n] = AddCost(Recorded(n), bill[n])]
    /\ UNCHANGED <<view, bill, spent, blocked, misses>>

(* The outcome's cost replaces the row's. *)
BudgetCompleted(n) ==
    /\ NodeCompleted(n)
    /\ cost' = [cost EXCEPT ![n] = bill[n]]
    /\ UNCHANGED <<view, bill, spent, blocked, misses>>

(* Fault: a block records no cost. *)
BlockedDropsBill(n) ==
    /\ NodeBlocked(n)
    /\ blocked' = blocked \cup {n}
    /\ UNCHANGED <<cost, view, bill, spent, misses>>

(* Fault: a block before any work writes its missing cost over the row's. *)
BlockedClearsCost(n) ==
    /\ NodeBlocked(n)
    /\ cost' = [cost EXCEPT ![n] = bill[n]]
    /\ blocked' = blocked \cup {n}
    /\ UNCHANGED <<view, bill, spent, misses>>

BudgetBlocked(n) ==
    /\ NodeBlocked(n)
    /\ cost' = [cost EXCEPT ![n] = IF bill[n] = None THEN cost[n] ELSE bill[n]]
    /\ blocked' = blocked \cup {n}
    /\ UNCHANGED <<view, bill, spent, misses>>

(* The next attempt reads the ledger again. *)
BudgetRetry(n) ==
    /\ NodeRetry(n)
    /\ view' = [view EXCEPT ![n] = None]
    /\ bill' = [bill EXCEPT ![n] = None]
    /\ UNCHANGED <<cost, spent, blocked, misses>>

(* Fault: a blocked node is reset like an interrupted one. *)
ResetForgetsCost(n) ==
    /\ DriveReset(n)
    /\ cost' = [cost EXCEPT ![n] = None]
    /\ UNCHANGED <<view, bill, spent, blocked, misses>>

(* reset_blocked_node keeps the cost, reset_interrupted_node clears it. *)
BudgetReset(n) ==
    /\ DriveReset(n)
    /\ cost' = [cost EXCEPT ![n] = IF nodeState[n] = "blocked" THEN cost[n] ELSE None]
    /\ UNCHANGED <<view, bill, spent, blocked, misses>>

(* retry_from_node clears the cost of what it resets. *)
BudgetRetryReset(c, n) ==
    /\ RetryReset(c, n)
    /\ cost' = [m \in Node |-> IF m \in Downstream(n) THEN None ELSE cost[m]]
    /\ spent' = [m \in Node |-> IF m \in Downstream(n) THEN NoSpend ELSE spent[m]]
    /\ blocked' = {}
    /\ UNCHANGED <<view, bill, misses>>

(* A future that ends takes its view and its bill along. *)
FuturesEnd ==
    /\ (\E n \in Node : DriveCollect(n) \/ NodeDbError(n)) \/ DriveDbError \/ CrashRestart
    /\ view' = [n \in Node |-> IF exec'[n] \in {"idle", "error"} THEN None ELSE view[n]]
    /\ bill' = [n \in Node |-> IF exec'[n] \in {"idle", "error"} THEN None ELSE bill[n]]
    /\ UNCHANGED <<cost, spent, blocked, misses>>

(* The engine steps that leave the ledger alone. *)
OtherStep ==
    /\ \/ DriveAcquire \/ DriveCheck \/ DriveBegin \/ DriveEnter \/ DriveStart
       \/ DriveRound \/ DriveFrontier \/ DriveFill \/ DriveRecheck \/ DriveReread
       \/ DriveFinal \/ DriveSettle \/ DriveAbort \/ DrivePublish \/ DriveFinish
       \/ \E n \in Node : \/ NodeReadAttempt(n) \/ NodeRun(n) \/ NodeParkRegister(n)
                          \/ Decide(n) \/ NodePauseRun(n) \/ NodeFailed(n)
       \/ \E c \in Client : \/ PausePublish(c) \/ CancelSkip(c) \/ CancelFire(c)
                            \/ CancelPublish(c) \/ RetryRejected(c) \/ Command(c)
    /\ UNCHANGED ledger

BudgetInit ==
    /\ Init
    /\ cost = [n \in Node |-> None]
    /\ view = [n \in Node |-> None]
    /\ bill = [n \in Node |-> None]
    /\ spent = [n \in Node |-> NoSpend]
    /\ blocked = {}
    /\ misses = 0

BudgetNext ==
    \/ \E n \in Node :
          \/ BudgetRead(n) \/ BudgetGate(n) \/ PrepareFailed(n)
          \/ BudgetCompleted(n) \/ BudgetBlocked(n) \/ BudgetRetry(n) \/ BudgetReset(n)
          \/ \E d \in AttemptCost[n] :
                \/ ParkEnds(n, d)
                \/ \E o \in {"completed", "blocked", "failed"} : AttemptEnds(n, o, d)
          \/ \E c \in Client : BudgetRetryReset(c, n)
    \/ FuturesEnd
    \/ OtherStep

BudgetSpec == BudgetInit /\ [][BudgetNext]_budgetVars

----------------------------------------------------------------------------
(* What a row records is never more than the node really spent: a resumed, *)
(* retried or re-blocked node is not charged twice for one attempt.        *)
LedgerIsAFloor == \A n \in Node : cost[n] # None => CostAtMost(cost[n], spent[n])

(* What node n is charged: its row before it works, or an attempt it ends. *)
Charges(n) == {view[n].prior} \cup {Measured(n, d) : d \in AttemptCost[n]}

(* Sums that saturate hide no breach of a ceiling below the largest u64,   *)
(* an unmeasured spend breaches none, and the breach charge names is the   *)
(* first there is, whatever the ledger holds after retries and resumes.    *)
ChargeIsExact ==
    \A n \in Node :
        (view[n] # None /\ \A x \in Ceiling : view[n].limits[x] # MaxU) =>
            \A c \in Charges(n) : BreachIsExact(view[n].limits, view[n].others, c)

(* Short of the largest ceilings, a verdict within budget warns of exactly *)
(* the ceilings of which four fifths are used, although check multiplies   *)
(* saturating words.                                                       *)
WarnsAtFourFifths ==
    \A n \in Node :
        (view[n] # None
           /\ \A x \in Ceiling : view[n].limits[x] # None => 4 * view[n].limits[x] <= MaxU) =>
            \A c \in Charges(n) : \/ Exceeded(view[n].limits, view[n].others, c)
                                  \/ WarningIsExact(view[n].limits, view[n].others, c)

Sound == crashes = 0 /\ dbErrors = 0 /\ misses = 0

(* The largest word stands for every spend beyond it. *)
Saturated(s) == [x \in DOMAIN s |-> IF s[x] > MaxU THEN MaxU ELSE s[x]]

(* Without crashes, store errors and misses, a run at rest has charged     *)
(* every attempt of every node since its last retry, the failed ones       *)
(* included, as far as a word can hold it.                                 *)
EveryAttemptCharged ==
    (Sound /\ drive = "idle") =>
        \A n \in Node : Spend(NoSpend, Recorded(n)) = Saturated(spent[n])

KeepsRecorded ==
    \A n \in Node : cost[n] # None =>
        (cost'[n] # None /\ CostAtMost(cost[n], cost'[n])) \/ RetryTaken

(* Until a crash or a store error interrupts a node, recorded spend is     *)
(* forgotten only by a retry.                                              *)
BankedSpendStays == [][(crashes = 0 /\ dbErrors = 0) => KeepsRecorded]_budgetVars

StartsBlocked(n) == n \in blocked /\ exec[n] = "gate" /\ exec'[n] \in {"working", "parking"}

(* A node that blocked on its budget is re-blocked by a resume without     *)
(* working again, until a client retries or a fault makes the ledger       *)
(* forget what other nodes spent.                                          *)
ReblockSpendsNothing == [][Sound => \A n \in Node : ~StartsBlocked(n)]_budgetVars

(* The ceilings of the whole workflow, the same for every node. *)
Envelope == [x \in Ceiling |->
               IF x \in {"flowWall", "flowMicros"} /\ Node # {}
               THEN LimitsOf[CHOOSE n \in Node : TRUE][x] ELSE None]

(* What the finished attempts of all nodes cost, exactly. *)
AllSpent == MapThenFoldSet(Spend, NoSpend, LAMBDA n : spent[n], LAMBDA T : CHOOSE n \in T : TRUE, Node)

(* More was spent than the envelope allows.  No saturating sum exceeds a   *)
(* ceiling of the largest u64, which is none.                              *)
Overspent ==
    \/ Envelope["flowWall"] # MaxU /\ Over(AllSpent.wall, Envelope["flowWall"])
    \/ Envelope["flowMicros"] # MaxU /\ Over(AllSpent.micros, Envelope["flowMicros"])

(* A run that executes one node at a time and meets no crash or store      *)
(* error completes only when what its attempts really cost, the failed and *)
(* the re-blocked ones included, is within the envelope: a node that takes *)
(* it over blocks and pauses the run.  A client's retry forgives the spend *)
(* of the nodes it resets.                                                 *)
NoSilentOverrun == (Sound /\ Concurrency = 1 /\ runState = "completed") => ~Overspent

(* What budget.rs, drive.rs and workflow_exec.rs say of every run: "an     *)
(* overrun is never silent".                                               *)
OverrunNeverSilent == runState = "completed" => ~Overspent
=============================================================================
