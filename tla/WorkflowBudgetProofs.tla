------------------------ MODULE WorkflowBudgetProofs ------------------------
(* Proofs about the ledger of a run under a budget. *)
EXTENDS WorkflowBudget, WorkflowEngineProofs, BudgetChargeProofs

----------------------------------------------------------------------------
(* The budget only restricts the engine: every step is an engine step or   *)
(* leaves the engine alone, so all its theorems hold under a budget.       *)
LEMMA StepsAreEngineSteps == [BudgetNext]_budgetVars => [Next]_vars
<1> SUFFICES ASSUME [BudgetNext]_budgetVars PROVE [Next]_vars
  OBVIOUS
<1>1. CASE OtherStep
  BY <1>1 DEF OtherStep, Next, DriveStep, NodeStep, HandlerStep
<1>2. CASE FuturesEnd
  BY <1>2 DEF FuturesEnd, Next, DriveStep, NodeFault
<1>3. ASSUME NEW n \in Node,
             BudgetRead(n) \/ BudgetGate(n) \/ PrepareFailed(n) \/ BudgetCompleted(n)
               \/ BudgetBlocked(n) \/ BudgetRetry(n) \/ BudgetReset(n)
      PROVE  [Next]_vars
  BY <1>3 DEF BudgetRead, BudgetGate, PrepareFailed, BudgetCompleted, BudgetBlocked, BudgetRetry,
              BudgetReset, Next, DriveStep, NodeStep
<1>4. ASSUME NEW n \in Node, NEW d \in AttemptCost[n],
             ParkEnds(n, d) \/ \E o \in {"completed", "blocked", "failed"} : AttemptEnds(n, o, d)
      PROVE  [Next]_vars
  BY <1>4 DEF ParkEnds, AttemptEnds, Next, NodeStep, NodeFault
<1>5. ASSUME NEW n \in Node, NEW c \in Client, BudgetRetryReset(c, n) PROVE [Next]_vars
  BY <1>5 DEF BudgetRetryReset, Next, HandlerStep
<1>6. CASE UNCHANGED budgetVars
  BY <1>6 DEF budgetVars
<1> QED
  BY <1>1, <1>2, <1>3, <1>4, <1>5, <1>6 DEF BudgetNext

(* The engine with a budget implements the engine. *)
THEOREM BudgetIsEngine == BudgetSpec => SafetySpec
<1>1. BudgetInit => Init
  BY DEF BudgetInit
<1> QED
  BY <1>1, StepsAreEngineSteps, PTL DEF BudgetSpec, SafetySpec

----------------------------------------------------------------------------
(* The ledger *)

Spending == [wall : Nat, calls : Nat, micros : Nat]

(* Where a future has read the ledger and not yet ended its attempt. *)
Started == {"working", "parking", "parked", "granted", "refused", "effect"}

(* The strengthening that makes LedgerIsAFloor inductive: what a running   *)
(* attempt read of its own row, and the bill it carries, are below what    *)
(* the node spent, and an idle future carries neither.                     *)
LedgerInv ==
    /\ cost \in [Node -> NodeCost \cup {None}]
    /\ bill \in [Node -> NodeCost \cup {None}]
    /\ spent \in [Node -> Spending]
    /\ view = [n \in Node |-> view[n]]
    /\ \A n \in Node : view[n] # None =>
          view[n].prior \in NodeCost /\ CostAtMost(view[n].prior, spent[n])
    /\ \A n \in Node : bill[n] # None => CostAtMost(bill[n], spent[n])
    /\ \A n \in Node : exec[n] = "idle" => view[n] = None /\ bill[n] = None
    /\ \A n \in Node : exec[n] \in Started => view[n] # None
    /\ LedgerIsAFloor

(* A charge on top of what was spent stays below what is spent then. *)
LEMMA ChargeStaysBelow ==
    ASSUME NEW p \in NodeCost, NEW d \in NodeCost, NEW s \in Spending, CostAtMost(p, s)
    PROVE  /\ AddCost(p, d) \in NodeCost
           /\ Spend(s, d) \in Spending
           /\ CostAtMost(AddCost(p, d), Spend(s, d))
<1>1. AddCost(p, d) \in NodeCost
  BY AddCostFacts
<1>2. /\ p.wall \in U64 /\ p.calls \in U64 /\ p.micros \in Optional
      /\ d.wall \in U64 /\ d.calls \in U64 /\ d.micros \in Optional
      /\ s.wall \in Nat /\ s.calls \in Nat /\ s.micros \in Nat
      /\ p.wall <= s.wall /\ p.calls <= s.calls /\ AtMost(p.micros, s.micros)
  BY DEF NodeCost, Spending, CostAtMost
<1>3. Spend(s, d) \in Spending
  BY <1>2, NumberAssumption DEF Spend, Spending, Optional, U64
<1>4. SaturatingAdd(p.wall, d.wall) <= s.wall + d.wall
  BY <1>2, NumberAssumption DEF SaturatingAdd, U64
<1>5. SaturatingAdd(p.calls, d.calls) <= s.calls + d.calls
  BY <1>2, NumberAssumption DEF SaturatingAdd, U64
<1>6. AtMost(AddMeasured(p.micros, d.micros),
             s.micros + (IF d.micros = None THEN 0 ELSE d.micros))
  BY <1>2, NumberAssumption DEF AtMost, AddMeasured, SaturatingAdd, Optional, U64
<1> QED
  BY <1>1, <1>3, <1>4, <1>5, <1>6 DEF AddCost, Spend, CostAtMost

(* The zero cost is below everything. *)
LEMMA ZeroIsBelow == ZeroCost \in NodeCost /\ \A s \in Spending : CostAtMost(ZeroCost, s)
  BY NumberAssumption DEF ZeroCost, NodeCost, CostAtMost, AtMost, Spending, Optional, U64

(* What was below the spend stays below it when more is spent. *)
LEMMA SpendGrows ==
    ASSUME NEW c \in NodeCost, NEW d \in NodeCost, NEW s \in Spending, CostAtMost(c, s)
    PROVE  CostAtMost(c, Spend(s, d))
<1>1. /\ c.wall \in U64 /\ c.calls \in U64 /\ c.micros \in Optional
      /\ d.wall \in U64 /\ d.calls \in U64 /\ d.micros \in Optional
      /\ s.wall \in Nat /\ s.calls \in Nat /\ s.micros \in Nat
      /\ c.wall <= s.wall /\ c.calls <= s.calls /\ AtMost(c.micros, s.micros)
  BY DEF NodeCost, Spending, CostAtMost
<1> QED
  BY <1>1, NumberAssumption DEF Spend, CostAtMost, AtMost, Optional, U64

(* An attempt that ends, by banking its spend or by carrying it as a bill. *)
LEMMA SpendKeepsLedger ==
    ASSUME TypeOK, LedgerInv, NEW n \in Node, NEW d \in NodeCost, view[n] # None,
           spent' = [spent EXCEPT ![n] = Spend(spent[n], d)],
           UNCHANGED <<view, blocked>>,
           \/ cost' = [cost EXCEPT ![n] = Measured(n, d)] /\ UNCHANGED bill
           \/ bill' = [bill EXCEPT ![n] = Measured(n, d)] /\ UNCHANGED cost
           \/ UNCHANGED <<cost, bill>>,
           exec[n] # "idle",
           \A m \in Node \ {n} : exec'[m] = exec[m],
           exec'[n] \notin Started \cup {"idle"}
    PROVE  LedgerInv'
<1> USE DEF LedgerInv, LedgerIsAFloor
<1>1. view[n].prior \in NodeCost /\ CostAtMost(view[n].prior, spent[n]) /\ spent[n] \in Spending
  OBVIOUS
<1>2. /\ Measured(n, d) \in NodeCost
      /\ Spend(spent[n], d) \in Spending
      /\ CostAtMost(Measured(n, d), Spend(spent[n], d))
      /\ CostAtMost(view[n].prior, Spend(spent[n], d))
  BY <1>1, ChargeStaysBelow, SpendGrows DEF Measured
<1>3. cost' \in [Node -> NodeCost \cup {None}] /\ bill' \in [Node -> NodeCost \cup {None}]
      /\ spent' \in [Node -> Spending]
  BY <1>2
<1>4. \A m \in Node : m # n => cost'[m] = cost[m] /\ bill'[m] = bill[m] /\ spent'[m] = spent[m]
  OBVIOUS
<1>5. \A m \in Node : view'[m] # None =>
         view'[m].prior \in NodeCost /\ CostAtMost(view'[m].prior, spent'[m])
  BY <1>2, <1>4
<1>6. cost[n] # None => CostAtMost(cost[n], Spend(spent[n], d))
  BY <1>1, SpendGrows
<1>7. bill[n] # None => CostAtMost(bill[n], Spend(spent[n], d))
  BY <1>1, SpendGrows
<1>8. \A m \in Node : bill'[m] # None => CostAtMost(bill'[m], spent'[m])
  BY <1>2, <1>4, <1>7
<1>9. \A m \in Node : cost'[m] # None => CostAtMost(cost'[m], spent'[m])
  BY <1>2, <1>4, <1>6
<1>10. \A m \in Node : exec'[m] = "idle" => view'[m] = None /\ bill'[m] = None
  <2> SUFFICES ASSUME NEW m \in Node, exec'[m] = "idle" PROVE view'[m] = None /\ bill'[m] = None
    OBVIOUS
  <2>1. m # n
    OBVIOUS
  <2>2. exec[m] = "idle"
    BY <2>1
  <2> QED
    BY <1>4, <2>1, <2>2
<1>11. \A m \in Node : exec'[m] \in Started => view'[m] # None
  <2> SUFFICES ASSUME NEW m \in Node, exec'[m] \in Started PROVE view'[m] # None
    OBVIOUS
  <2>1. m # n
    OBVIOUS
  <2>2. exec[m] \in Started
    BY <2>1
  <2> QED
    BY <2>2
<1>12. view' = [m \in Node |-> view'[m]]
  OBVIOUS
<1> QED
  BY <1>3, <1>5, <1>8, <1>9, <1>10, <1>11, <1>12

(* Steps that leave the ledger alone, and start or end no attempt. *)
LEMMA LedgerUntouched ==
    ASSUME LedgerInv, UNCHANGED ledger,
           \A m \in Node : /\ exec'[m] = "idle" => exec[m] = "idle"
                           /\ exec'[m] \in Started => view[m] # None
    PROVE  LedgerInv'
  BY DEF LedgerInv, LedgerIsAFloor, ledger

(* The engine steps of OtherStep neither end a future nor start an attempt. *)
LEMMA OtherKeepsLedger == TypeOK /\ LedgerInv /\ OtherStep => LedgerInv'
<1> SUFFICES ASSUME TypeOK, LedgerInv, OtherStep PROVE LedgerInv'
  OBVIOUS
<1> USE DEF TypeOK, Started
<1>1. UNCHANGED ledger
  BY DEF OtherStep
<1>2. \A m \in Node : exec[m] \in Started => view[m] # None
  BY DEF LedgerInv
<1>3. \A m \in Node : /\ exec'[m] = "idle" => exec[m] = "idle"
                      /\ exec'[m] \in Started => exec[m] \in Started
  <2>1. CASE DriveFill
    BY <2>1 DEF DriveFill
  <2>2. CASE \/ DriveAcquire \/ DriveCheck \/ DriveBegin \/ DriveEnter \/ DriveStart
             \/ DriveRound \/ DriveFrontier \/ DriveRecheck \/ DriveReread
             \/ DriveFinal \/ DriveSettle \/ DriveAbort \/ DrivePublish \/ DriveFinish
    <3>1. UNCHANGED exec
      BY <2>2 DEF DriveAcquire, DriveCheck, DriveBegin, DriveEnter, DriveStart, DriveRound,
                  DriveFrontier, DriveRecheck, DriveReread, DriveFinal, DriveSettle, DriveAbort,
                  DrivePublish, DriveFinish, futures
    <3> QED
      BY <3>1
  <2>3. ASSUME NEW n \in Node,
               \/ NodeReadAttempt(n) \/ NodeRun(n) \/ NodeParkRegister(n)
               \/ Decide(n) \/ NodePauseRun(n) \/ NodeFailed(n)
        PROVE  \A m \in Node : /\ exec'[m] = "idle" => exec[m] = "idle"
                               /\ exec'[m] \in Started => exec[m] \in Started
    BY <2>3 DEF NodeReadAttempt, NodeRun, NodeParkRegister, Decide, NodeDecided, NodePauseRun,
                NodeFailed, NodeGoes
  <2>4. ASSUME NEW c \in Client,
               \/ PausePublish(c) \/ CancelSkip(c) \/ CancelFire(c)
               \/ CancelPublish(c) \/ RetryRejected(c) \/ Command(c)
        PROVE  UNCHANGED exec
    BY <2>4 DEF PausePublish, CancelSkip, CancelFire, CancelPublish, RetryRejected, Command,
                StartAgain, Pause, Resume, Retry, Cancel, futures
  <2> QED
    BY <2>1, <2>2, <2>3, <2>4 DEF OtherStep
<1> QED
  BY <1>1, <1>2, <1>3, LedgerUntouched

(* Futures that end drop their view and bill. *)
LEMMA EndKeepsLedger == TypeOK /\ LedgerInv /\ FuturesEnd => LedgerInv'
<1> SUFFICES ASSUME TypeOK, LedgerInv, FuturesEnd PROVE LedgerInv'
  OBVIOUS
<1> USE DEF TypeOK
<1>1. \A m \in Node : exec'[m] \in {"idle", "error"} \/ exec'[m] = exec[m]
  BY DEF FuturesEnd, DriveCollect, NodeDbError, DriveDbError, CrashRestart
<1>2. /\ view' = [m \in Node |-> IF exec'[m] \in {"idle", "error"} THEN None ELSE view[m]]
      /\ bill' = [m \in Node |-> IF exec'[m] \in {"idle", "error"} THEN None ELSE bill[m]]
      /\ UNCHANGED <<cost, spent, blocked>>
  BY DEF FuturesEnd
<1>3. \A m \in Node : exec'[m] \in Started => exec[m] \in Started /\ view'[m] = view[m]
  BY <1>1, <1>2 DEF Started
<1> QED
  BY <1>2, <1>3 DEF LedgerInv, LedgerIsAFloor

(* The steps of one node that read or write the ledger. *)
LEMMA NodeKeepsLedger ==
    ASSUME TypeOK, LedgerInv, NEW n \in Node,
           BudgetRead(n) \/ BudgetGate(n) \/ PrepareFailed(n) \/ BudgetCompleted(n)
             \/ BudgetBlocked(n) \/ BudgetRetry(n) \/ BudgetReset(n)
    PROVE  LedgerInv'
<1> USE DEF TypeOK
<1>1. CASE BudgetRead(n)
  <2>1. Recorded(n) \in NodeCost /\ CostAtMost(Recorded(n), spent[n])
    BY ZeroIsBelow DEF Recorded, LedgerInv, LedgerIsAFloor
  <2>2. UNCHANGED <<exec, cost, bill, spent, blocked>>
    BY <1>1 DEF BudgetRead, vars, futures
  <2>3. PICK l \in {LimitsOf[n], WithoutEnvelope(LimitsOf[n])} :
          view' = [view EXCEPT ![n] = [limits |-> l, others |-> Total(Node \ {n}),
                                       prior |-> Recorded(n)]]
    BY <1>1 DEF BudgetRead, ReadLedger
  <2>4. exec[n] = "gate" /\ view[n] = None
    BY <1>1 DEF BudgetRead
  <2>5. view'[n].prior = Recorded(n) /\ \A m \in Node : m # n => view'[m] = view[m]
    BY <2>3 DEF LedgerInv
  <2>6. \A m \in Node : view'[m] # None =>
           view'[m].prior \in NodeCost /\ CostAtMost(view'[m].prior, spent[m])
    BY <2>1, <2>5 DEF LedgerInv
  <2>7. view' = [m \in Node |-> view'[m]]
    BY <2>3 DEF LedgerInv
  <2>8. \A m \in Node : exec[m] = "idle" => view'[m] = None /\ bill[m] = None
    BY <2>4, <2>5 DEF LedgerInv
  <2>9. \A m \in Node : exec[m] \in Started => view'[m] # None
    BY <2>4, <2>5 DEF LedgerInv, Started
  <2> QED
    BY <2>2, <2>6, <2>7, <2>8, <2>9 DEF LedgerInv, LedgerIsAFloor
<1>2. CASE BudgetGate(n)
  <2>1. UNCHANGED ledger /\ view[n] # None
    BY <1>2 DEF BudgetGate
  <2>2. exec' = [exec EXCEPT ![n] = exec'[n]] /\ exec'[n] # "idle"
    BY <1>2 DEF BudgetGate, NodeGate, NodeAgent, NodeTool, NodePark, NodeGoes
  <2>3. \A m \in Node : exec[m] \in Started => view[m] # None
    BY DEF LedgerInv
  <2> QED
    BY <2>1, <2>2, <2>3, LedgerUntouched
<1>3. CASE PrepareFailed(n)
  <2>1. UNCHANGED ledger /\ exec' = [exec EXCEPT ![n] = "failed"]
    BY <1>3 DEF PrepareFailed, NodeGate, NodeGoes
  <2>2. \A m \in Node : exec[m] \in Started => view[m] # None
    BY DEF LedgerInv
  <2> QED
    BY <2>1, <2>2, LedgerUntouched DEF Started
<1>4. CASE BudgetCompleted(n)
  <2>1. /\ exec' = [exec EXCEPT ![n] = "done"] /\ exec[n] = "completed"
        /\ cost' = [cost EXCEPT ![n] = bill[n]]
        /\ UNCHANGED <<view, bill, spent, blocked>>
    BY <1>4 DEF BudgetCompleted, NodeCompleted, NodeGoes
  <2> QED
    BY <2>1 DEF LedgerInv, LedgerIsAFloor, Started
<1>5. CASE BudgetBlocked(n)
  <2>1. /\ exec' = [exec EXCEPT ![n] = "pausing"] /\ exec[n] = "blocked"
        /\ cost' = [cost EXCEPT ![n] = IF bill[n] = None THEN cost[n] ELSE bill[n]]
        /\ UNCHANGED <<view, bill, spent>>
    BY <1>5 DEF BudgetBlocked, NodeBlocked, NodeGoes
  <2> QED
    BY <2>1 DEF LedgerInv, LedgerIsAFloor, Started
<1>6. CASE BudgetRetry(n)
  <2>1. /\ exec' = [exec EXCEPT ![n] = "head"]
        /\ view' = [view EXCEPT ![n] = None]
        /\ bill' = [bill EXCEPT ![n] = None]
        /\ UNCHANGED <<cost, spent, blocked>>
    BY <1>6 DEF BudgetRetry, NodeRetry, NodeGoes
  <2> QED
    BY <2>1 DEF LedgerInv, LedgerIsAFloor, Started
<1>7. CASE BudgetReset(n)
  <2>1. /\ UNCHANGED <<exec, view, bill, spent, blocked>>
        /\ cost' = [cost EXCEPT ![n] = IF nodeState[n] = "blocked" THEN cost[n] ELSE None]
    BY <1>7 DEF BudgetReset, DriveReset, futures
  <2> QED
    BY <2>1 DEF LedgerInv, LedgerIsAFloor
<1> QED
  BY <1>1, <1>2, <1>3, <1>4, <1>5, <1>6, <1>7

(* The end of an attempt. *)
LEMMA AttemptKeepsLedger ==
    ASSUME TypeOK, LedgerInv, NEW n \in Node, NEW d \in AttemptCost[n],
           ParkEnds(n, d) \/ \E o \in {"completed", "blocked", "failed"} : AttemptEnds(n, o, d)
    PROVE  LedgerInv'
<1> USE DEF TypeOK
<1>1. d \in NodeCost
  BY BudgetAssumption
<1>2. /\ exec' = [exec EXCEPT ![n] = exec'[n]]
      /\ exec[n] \in Started
      /\ exec'[n] \in {"completed", "blocked", "failed", "effect"}
  BY DEF ParkEnds, AttemptEnds, NodeOutcome, NodeEffect, NodeParkCancelled, NodeUnpark,
         NodeParkFails, NodeGoes, Started
<1>3. view[n] # None
  BY <1>2 DEF LedgerInv
<1>4. CASE ParkEnds(n, d) /\ exec'[n] # "failed"
  <2>1. UNCHANGED ledger
    BY <1>4 DEF ParkEnds
  <2>2. \A m \in Node : exec[m] \in Started => view[m] # None
    BY DEF LedgerInv
  <2> QED
    BY <1>2, <1>3, <2>1, <2>2, LedgerUntouched
<1>5. CASE ~(ParkEnds(n, d) /\ exec'[n] # "failed")
  <2>1. /\ spent' = [spent EXCEPT ![n] = Spend(spent[n], d)]
        /\ UNCHANGED <<view, blocked>>
        /\ \/ cost' = [cost EXCEPT ![n] = Measured(n, d)] /\ UNCHANGED bill
           \/ bill' = [bill EXCEPT ![n] = Measured(n, d)] /\ UNCHANGED cost
           \/ UNCHANGED <<cost, bill>>
        /\ exec'[n] # "effect"
    BY <1>5 DEF ParkEnds, AttemptEnds, Bank, NodeOutcome, NodeEffect, NodeGoes
  <2>2. exec[n] # "idle" /\ exec'[n] \notin Started \cup {"idle"}
    BY <1>2, <2>1 DEF Started
  <2>3. \A m \in Node \ {n} : exec'[m] = exec[m]
    BY <1>2
  <2> QED
    BY <1>1, <1>3, <2>1, <2>2, <2>3, SpendKeepsLedger
<1> QED
  BY <1>4, <1>5

(* A retry forgets cost and spend together, when no future is in flight. *)
LEMMA RetryKeepsLedger ==
    ASSUME TypeOK, RunInv, LedgerInv, NEW n \in Node, NEW c \in Client, BudgetRetryReset(c, n)
    PROVE  LedgerInv'
<1> USE DEF TypeOK
<1>1. \A m \in Node : exec[m] = "idle"
  BY DEF BudgetRetryReset, RetryReset, RunInv, NoOrphanFuture, Inflight
<1>2. \A m \in Node : view[m] = None /\ bill[m] = None
  BY <1>1 DEF LedgerInv
<1>3. /\ UNCHANGED <<exec, view, bill>>
      /\ cost' = [m \in Node |-> IF m \in Downstream(n) THEN None ELSE cost[m]]
      /\ spent' = [m \in Node |-> IF m \in Downstream(n) THEN NoSpend ELSE spent[m]]
  BY DEF BudgetRetryReset, RetryReset, futures
<1>4. NoSpend \in Spending
  BY DEF NoSpend, Spending
<1> QED
  BY <1>1, <1>2, <1>3, <1>4 DEF LedgerInv, LedgerIsAFloor, Started

(* The ledger stays consistent. *)
LEMMA LedgerSafe == BudgetSpec => []LedgerInv
<1>1. BudgetInit => LedgerInv
  <2> SUFFICES ASSUME BudgetInit PROVE LedgerInv
    OBVIOUS
  <2>1. NoSpend \in Spending
    BY DEF NoSpend, Spending
  <2> QED
    BY <2>1 DEF BudgetInit, Init, LedgerInv, LedgerIsAFloor, Started
<1>2. TypeOK /\ RunInv /\ LedgerInv /\ [BudgetNext]_budgetVars => LedgerInv'
  <2> SUFFICES ASSUME TypeOK, RunInv, LedgerInv, [BudgetNext]_budgetVars PROVE LedgerInv'
    OBVIOUS
  <2>1. CASE UNCHANGED budgetVars
    BY <2>1 DEF budgetVars, ledger, vars, futures, LedgerInv, LedgerIsAFloor
  <2> QED
    BY <2>1, OtherKeepsLedger, EndKeepsLedger, NodeKeepsLedger, AttemptKeepsLedger,
       RetryKeepsLedger DEF BudgetNext
<1> QED
  BY <1>1, <1>2, BudgetIsEngine, TypeSafe, RunSafe, PTL DEF BudgetSpec

(* What a node's row records never exceeds what its attempts cost since    *)
(* its last retry, whatever crashes, resumes and lost writes intervene: no *)
(* attempt is charged twice.                                               *)
THEOREM NothingChargedTwice == BudgetSpec => []LedgerIsAFloor
  BY LedgerSafe, PTL DEF LedgerInv

----------------------------------------------------------------------------
(* What one step does to the ledger *)

(* Only node n's future moves. *)
Alone(n, pc) == exec' = [exec EXCEPT ![n] = pc]

(* Steps that leave the ledger alone: how a node's future may move then.   *)
MovesQuietly(m) ==
    \/ exec'[m] = exec[m]
    \/ exec[m] \in {"idle", "launched"} /\ exec'[m] \in {"launched", "head"}
    \/ exec[m] = "head" /\ exec'[m] = "gate"
    \/ exec[m] = "gate" /\ exec'[m] = "failed"
    \/ exec[m] = "gate" /\ view[m] # None /\ Exhausted(m) /\ exec'[m] = "blocked"
    \/ exec[m] = "gate" /\ view[m] # None /\ ~Exhausted(m) /\ exec'[m] \in {"working", "parking"}
    \/ exec[m] \in Started /\ exec'[m] \in Started \ {"working", "parking"}
    \/ exec[m] \in {"pausing", "failed"} /\ exec'[m] = "done"

Quiet ==
    /\ UNCHANGED ledger
    /\ \A m \in Node : MovesQuietly(m) /\ (nodeState'[m] = "completed" => nodeState[m] = "completed")

(* Futures end, by a fault wherever they are. *)
Ends ==
    /\ UNCHANGED <<cost, spent, blocked, nodeState>>
    /\ \A m \in Node :
          \/ exec'[m] = exec[m] /\ view'[m] = view[m] /\ bill'[m] = bill[m]
          \/ /\ exec'[m] \in {"idle", "error"} /\ view'[m] = None /\ bill'[m] = None
             /\ exec[m] \in {"idle", "done", "error"} \/ crashes' # 0 \/ dbErrors' # 0
    /\ view' = [m \in Node |-> view'[m]]

Reads(n) ==
    /\ exec[n] = "gate" /\ view[n] = None
    /\ \E l \in BudgetLimits :
          /\ l = LimitsOf[n] \/ misses' = misses + 1
          /\ view' = [view EXCEPT ![n] = [limits |-> l, others |-> Total(Node \ {n}),
                                          prior |-> Recorded(n)]]
    /\ UNCHANGED <<exec, nodeState, cost, bill, spent, blocked>>

Banks(n, d) ==
    /\ exec[n] \in Started /\ Alone(n, "failed")
    /\ \/ cost' = [cost EXCEPT ![n] = Measured(n, d)]
       \/ misses' = misses + 1 /\ UNCHANGED cost
    /\ spent' = [spent EXCEPT ![n] = Spend(spent[n], d)]
    /\ \A m \in Node : nodeState'[m] = "completed" => nodeState[m] = "completed"
    /\ UNCHANGED <<view, bill, blocked>>

Bills(n, d) ==
    /\ exec[n] \in Started
    /\ Alone(n, IF Exceeded(view[n].limits, view[n].others, Measured(n, d))
                THEN "blocked" ELSE "completed")
    /\ bill' = [bill EXCEPT ![n] = Measured(n, d)]
    /\ spent' = [spent EXCEPT ![n] = Spend(spent[n], d)]
    /\ UNCHANGED <<cost, view, blocked, nodeState>>

Completes(n) ==
    /\ exec[n] = "completed" /\ Alone(n, "done")
    /\ cost' = [cost EXCEPT ![n] = bill[n]]
    /\ nodeState' = [nodeState EXCEPT ![n] = "completed"]
    /\ UNCHANGED <<view, bill, spent, blocked>>

Blocks(n) ==
    /\ exec[n] = "blocked" /\ Alone(n, "pausing")
    /\ cost' = [cost EXCEPT ![n] = IF bill[n] = None THEN cost[n] ELSE bill[n]]
    /\ nodeState' = [nodeState EXCEPT ![n] = "blocked"]
    /\ blocked' = blocked \cup {n}
    /\ UNCHANGED <<view, bill, spent>>

Retries(n) ==
    /\ exec[n] = "failed" /\ Alone(n, "head")
    /\ view' = [view EXCEPT ![n] = None]
    /\ bill' = [bill EXCEPT ![n] = None]
    /\ nodeState' = [nodeState EXCEPT ![n] = "pending"]
    /\ UNCHANGED <<cost, spent, blocked>>

Resets(n) ==
    /\ drive = "reset" /\ nodeState[n] \in {"running", "waitingApproval", "blocked"}
    /\ cost' = [cost EXCEPT ![n] = IF nodeState[n] = "blocked" THEN cost[n] ELSE None]
    /\ nodeState' = [nodeState EXCEPT ![n] = "pending"]
    /\ UNCHANGED <<exec, view, bill, spent, blocked>>

Forgets(n) ==
    /\ drive = "idle" /\ RetryTaken
    /\ cost' = [m \in Node |-> IF m \in Downstream(n) THEN None ELSE cost[m]]
    /\ spent' = [m \in Node |-> IF m \in Downstream(n) THEN NoSpend ELSE spent[m]]
    /\ nodeState' = [m \in Node |-> IF m \in Downstream(n) THEN "pending" ELSE nodeState[m]]
    /\ blocked' = {}
    /\ UNCHANGED <<exec, view, bill>>

(* A step that writes the ledger for node n. *)
Writes(n) ==
    \/ Reads(n) \/ Completes(n) \/ Blocks(n) \/ Retries(n) \/ Resets(n) \/ Forgets(n)
    \/ \E d \in NodeCost : Banks(n, d) \/ Bills(n, d)

(* The engine steps outside the ledger are quiet. *)
LEMMA OtherIsQuiet == TypeOK /\ NodeInv /\ OtherStep => Quiet
<1> SUFFICES ASSUME TypeOK, NodeInv, OtherStep PROVE Quiet
  OBVIOUS
<1> USE DEF TypeOK
<1>1. UNCHANGED ledger
  BY DEF OtherStep
<1> SUFFICES ASSUME NEW m \in Node
             PROVE  MovesQuietly(m) /\ (nodeState'[m] = "completed" => nodeState[m] = "completed")
  BY <1>1 DEF Quiet
<1>2. CASE DriveFill
  BY <1>2 DEF DriveFill, MovesQuietly, durable, Launchable, NodeInv, InWave
<1>3. CASE \/ DriveAcquire \/ DriveCheck \/ DriveBegin \/ DriveEnter \/ DriveStart
           \/ DriveRound \/ DriveFrontier \/ DriveRecheck \/ DriveReread
           \/ DriveFinal \/ DriveSettle \/ DriveAbort \/ DrivePublish \/ DriveFinish
  <2>1. UNCHANGED <<exec, nodeState>>
    BY <1>3 DEF DriveAcquire, DriveCheck, DriveBegin, DriveEnter, DriveStart, DriveRound,
                DriveFrontier, DriveRecheck, DriveReread, DriveFinal, DriveSettle, DriveAbort,
                DrivePublish, DriveFinish, futures, durable
  <2> QED
    BY <2>1 DEF MovesQuietly
<1>4. ASSUME NEW n \in Node,
             \/ NodeReadAttempt(n) \/ NodeRun(n) \/ NodeParkRegister(n)
             \/ Decide(n) \/ NodePauseRun(n) \/ NodeFailed(n)
      PROVE  MovesQuietly(m) /\ (nodeState'[m] = "completed" => nodeState[m] = "completed")
  BY <1>4 DEF NodeReadAttempt, NodeRun, NodeParkRegister, Decide, NodeDecided, NodePauseRun,
              NodeFailed, NodeGoes, TransitionNode, durable, MovesQuietly, Started
<1>5. ASSUME NEW c \in Client,
             \/ PausePublish(c) \/ CancelSkip(c) \/ CancelFire(c)
             \/ CancelPublish(c) \/ RetryRejected(c) \/ Command(c)
      PROVE  MovesQuietly(m) /\ (nodeState'[m] = "completed" => nodeState[m] = "completed")
  BY <1>5 DEF PausePublish, CancelSkip, SkipPendingNodes, CancelFire, CancelPublish, RetryRejected,
              Command, StartAgain, Pause, Resume, Retry, Cancel, futures, durable, MovesQuietly
<1> QED
  BY <1>2, <1>3, <1>4, <1>5 DEF OtherStep

(* Futures that end take their view and bill along. *)
LEMMA EndIsEnds == TypeOK /\ LedgerInv /\ FuturesEnd => Ends
<1> SUFFICES ASSUME TypeOK, LedgerInv, FuturesEnd PROVE Ends
  OBVIOUS
<1> USE DEF TypeOK
<1>1. /\ view' = [m \in Node |-> IF exec'[m] \in {"idle", "error"} THEN None ELSE view[m]]
      /\ bill' = [m \in Node |-> IF exec'[m] \in {"idle", "error"} THEN None ELSE bill[m]]
      /\ UNCHANGED <<cost, spent, blocked>>
  BY DEF FuturesEnd
<1>2. UNCHANGED nodeState
  BY DEF FuturesEnd, DriveCollect, NodeDbError, DriveDbError, CrashRestart, durable
<1>3. \/ \E n \in Node : exec' = [exec EXCEPT ![n] = "idle"] /\ exec[n] \in {"done", "error"}
      \/ (\A m \in Node : exec'[m] \in {"idle", "error"} \/ exec'[m] = exec[m])
            /\ (crashes' # 0 \/ dbErrors' # 0)
  <2>1. ASSUME NEW n \in Node, DriveCollect(n)
        PROVE  exec' = [exec EXCEPT ![n] = "idle"] /\ exec[n] \in {"done", "error"}
    BY <2>1 DEF DriveCollect
  <2>2. ASSUME NEW n \in Node, NodeDbError(n)
        PROVE  exec' = [exec EXCEPT ![n] = "error"] /\ dbErrors' # 0
    BY <2>2, BoundAssumption DEF NodeDbError
  <2>3. CASE DriveDbError
    BY <2>3, BoundAssumption DEF DriveDbError
  <2>4. CASE CrashRestart
    BY <2>4, BoundAssumption DEF CrashRestart
  <2> QED
    BY <2>1, <2>2, <2>3, <2>4 DEF FuturesEnd
<1>4. ASSUME NEW m \in Node
      PROVE  \/ exec'[m] = exec[m] /\ view'[m] = view[m] /\ bill'[m] = bill[m]
             \/ /\ exec'[m] \in {"idle", "error"} /\ view'[m] = None /\ bill'[m] = None
                /\ exec[m] \in {"idle", "done", "error"} \/ crashes' # 0 \/ dbErrors' # 0
  BY <1>1, <1>3
<1> QED
  BY <1>1, <1>2, <1>4 DEF Ends

(* The gate and the ends of attempts. *)
LEMMA NodeWrites ==
    ASSUME TypeOK, LedgerInv, NEW n \in Node,
           BudgetRead(n) \/ BudgetGate(n) \/ PrepareFailed(n) \/ BudgetCompleted(n)
             \/ BudgetBlocked(n) \/ BudgetRetry(n) \/ BudgetReset(n)
    PROVE  Quiet \/ Writes(n)
<1> USE DEF TypeOK
<1>1. CASE BudgetRead(n)
  <2>1. LimitsOf[n] \in BudgetLimits /\ WithoutEnvelope(LimitsOf[n]) \in BudgetLimits
    BY BudgetAssumption DEF BudgetLimits, WithoutEnvelope, NodeCeiling, Ceiling, Optional
  <2>2. Reads(n)
    BY <1>1, <2>1 DEF BudgetRead, ReadLedger, Miss, Reads, vars, futures, durable
  <2> QED
    BY <2>2 DEF Writes
<1>2. CASE BudgetGate(n)
  <2>1. UNCHANGED ledger /\ view[n] # None /\ exec[n] = "gate"
    BY <1>2 DEF BudgetGate, NodeGate, NodeAgent, NodeTool, NodePark
  <2>2. /\ exec' = [exec EXCEPT ![n] = exec'[n]]
        /\ \/ Exhausted(n) /\ exec'[n] = "blocked"
           \/ ~Exhausted(n) /\ exec'[n] \in {"failed", "working", "parking"}
    BY <1>2 DEF BudgetGate, NodeGate, NodeAgent, NodeTool, NodePark, NodeGoes
  <2>3. \A m \in Node : nodeState'[m] = "completed" => nodeState[m] = "completed"
    BY <1>2 DEF BudgetGate, NodeGate, NodeAgent, NodeTool, NodePark, TransitionNode, durable
  <2> QED
    BY <2>1, <2>2, <2>3 DEF Quiet, MovesQuietly
<1>3. CASE PrepareFailed(n)
  <2>1. UNCHANGED <<ledger, nodeState>> /\ exec' = [exec EXCEPT ![n] = "failed"] /\ exec[n] = "gate"
    BY <1>3 DEF PrepareFailed, NodeGate, NodeGoes, durable
  <2> QED
    BY <2>1 DEF Quiet, MovesQuietly
<1>4. CASE BudgetCompleted(n)
  BY <1>4 DEF BudgetCompleted, NodeCompleted, NodeGoes, TransitionNode, Writes, Completes, Alone
<1>5. CASE BudgetBlocked(n)
  BY <1>5 DEF BudgetBlocked, NodeBlocked, NodeGoes, TransitionNode, Writes, Blocks, Alone
<1>6. CASE BudgetRetry(n)
  BY <1>6 DEF BudgetRetry, NodeRetry, NodeGoes, TransitionNode, Writes, Retries, Alone
<1>7. CASE BudgetReset(n)
  BY <1>7 DEF BudgetReset, DriveReset, Interrupted, TransitionNode, futures, Writes, Resets
<1> QED
  BY <1>1, <1>2, <1>3, <1>4, <1>5, <1>6, <1>7

(* The end of an attempt banks its spend or carries it as a bill. *)
LEMMA AttemptWrites ==
    ASSUME TypeOK, LedgerInv, NEW n \in Node, NEW d \in AttemptCost[n],
           ParkEnds(n, d) \/ \E o \in {"completed", "blocked", "failed"} : AttemptEnds(n, o, d)
    PROVE  Quiet \/ Writes(n)
<1> USE DEF TypeOK
<1>1. d \in NodeCost
  BY BudgetAssumption
<1>2. \A m \in Node : nodeState'[m] = "completed" => nodeState[m] = "completed"
  BY DEF ParkEnds, AttemptEnds, NodeOutcome, NodeEffect, NodeParkCancelled, NodeUnpark,
         NodeParkFails, BankWrite, TransitionNode, durable
<1>3. /\ exec' = [exec EXCEPT ![n] = exec'[n]]
      /\ exec[n] \in Started
  BY DEF ParkEnds, AttemptEnds, NodeOutcome, NodeEffect, NodeParkCancelled, NodeUnpark,
         NodeParkFails, NodeGoes, Started
<1>4. CASE ParkEnds(n, d)
  <2>1. exec'[n] \in {"failed", "effect"}
    BY <1>4 DEF ParkEnds, NodeParkCancelled, NodeUnpark, NodeParkFails, NodeGoes
  <2>2. CASE exec'[n] = "effect"
    <3>1. UNCHANGED ledger
      BY <1>4, <2>2 DEF ParkEnds
    <3>2. \A m \in Node : MovesQuietly(m)
      BY <1>3, <2>2 DEF MovesQuietly, Started
    <3> QED
      BY <1>2, <3>1, <3>2 DEF Quiet
  <2>3. CASE exec'[n] = "failed"
    BY <1>1, <1>2, <1>3, <1>4, <2>3 DEF ParkEnds, Bank, Miss, Writes, Banks, Alone
  <2> QED
    BY <2>1, <2>2, <2>3
<1>5. ASSUME NEW o \in {"completed", "blocked", "failed"}, AttemptEnds(n, o, d)
      PROVE  Writes(n)
  <2>1. exec' = [exec EXCEPT ![n] = o] /\ UNCHANGED nodeState
    BY <1>5 DEF AttemptEnds, NodeOutcome, NodeEffect, NodeGoes, durable
  <2>2. CASE o = "failed" /\ Bank(n, d)
    BY <1>1, <1>2, <1>3, <2>1, <2>2 DEF Bank, Miss, Writes, Banks, Alone
  <2>3. CASE ~(o = "failed" /\ Bank(n, d))
    <3>1. /\ o = IF Exceeded(view[n].limits, view[n].others, Measured(n, d))
                 THEN "blocked" ELSE "completed"
          /\ bill' = [bill EXCEPT ![n] = Measured(n, d)]
          /\ spent' = [spent EXCEPT ![n] = Spend(spent[n], d)]
          /\ UNCHANGED <<cost, view, blocked>>
      BY <1>5, <2>3 DEF AttemptEnds
    <3>2. Bills(n, d)
      BY <1>3, <2>1, <3>1 DEF Bills, Alone
    <3> QED
      BY <1>1, <3>2 DEF Writes
  <2> QED
    BY <2>2, <2>3
<1> QED
  BY <1>4, <1>5

(* Every step is quiet, ends futures, or writes the ledger for one node. *)
LEMMA StepShape ==
    TypeOK /\ NodeInv /\ LedgerInv /\ [BudgetNext]_budgetVars
        => Quiet \/ Ends \/ \E n \in Node : Writes(n)
<1> SUFFICES ASSUME TypeOK, NodeInv, LedgerInv, [BudgetNext]_budgetVars
             PROVE  Quiet \/ Ends \/ \E n \in Node : Writes(n)
  OBVIOUS
<1>1. CASE UNCHANGED budgetVars
  BY <1>1 DEF budgetVars, vars, futures, durable, Quiet, MovesQuietly
<1>2. ASSUME NEW n \in Node, NEW c \in Client, BudgetRetryReset(c, n) PROVE Writes(n)
  BY <1>2 DEF BudgetRetryReset, RetryReset, RetryFromNode, RetryTaken, futures, Writes, Forgets
<1> QED
  BY <1>1, <1>2, OtherIsQuiet, EndIsEnds, NodeWrites, AttemptWrites DEF BudgetNext

----------------------------------------------------------------------------
(* Sums over the rows *)

RecordsOf(c) == [n \in Node |-> IF c[n] = None THEN ZeroCost ELSE c[n]]

(* The fold that Total is, over any ledger, is the sum of its records. *)
LEMMA FoldIsSum ==
    ASSUME NEW c, NEW R \in SUBSET Node
    PROVE  MapThenFoldSet(AddCost, ZeroCost, LAMBDA n : IF c[n] = None THEN ZeroCost ELSE c[n],
                          LAMBDA T : CHOOSE n \in T : TRUE, R) = SumOf(RecordsOf(c), R)
<1> DEFINE rec(n) == IF c[n] = None THEN ZeroCost ELSE c[n]
           IsFold(G) == G = [s \in SUBSET R |->
              IF s = {} THEN ZeroCost ELSE AddCost(rec(Pick(s)), G[s \ {Pick(s)}])]
<1>1. IsFiniteSet(R)
  BY GraphAssumption, FS_Subset
<1>2. MapThenFoldSet(AddCost, ZeroCost, LAMBDA n : IF c[n] = None THEN ZeroCost ELSE c[n],
                     LAMBDA T : CHOOSE n \in T : TRUE, R) = (CHOOSE G : IsFold(G))[R]
  BY DEF MapThenFoldSet, Pick
<1>3. \A s \in SUBSET R : s # {} => RecordsOf(c)[Pick(s)] = rec(Pick(s))
  BY DEF Pick, RecordsOf
<1>4. ASSUME NEW G PROVE Sums(G, RecordsOf(c), R) <=> IsFold(G)
  BY <1>3 DEF Sums
<1>5. \E G : IsFold(G)
  BY <1>1, <1>4, SumExists
<1>6. IsFold(CHOOSE G : IsFold(G))
  BY <1>5
<1>7. Sums(CHOOSE G : IsFold(G), RecordsOf(c), R)
  BY <1>4, <1>6
<1>8. PICK H : Sums(H, RecordsOf(c), R) /\ SumOf(RecordsOf(c), R) = H[R]
  BY <1>1, SumOfIsSum
<1> QED
  BY <1>1, <1>2, <1>7, <1>8, SumsAgree

(* Total before and after a step. *)
LEMMA TotalIsSum ==
    ASSUME NEW R \in SUBSET Node
    PROVE  Total(R) = SumOf(RecordsOf(cost), R) /\ Total(R)' = SumOf(RecordsOf(cost'), R)
<1>1. Total(R) = SumOf(RecordsOf(cost), R)
  BY FoldIsSum DEF Total, Recorded
<1>2. Total(R)' = SumOf(RecordsOf(cost'), R)
  <2>1. MapThenFoldSet(AddCost, ZeroCost, LAMBDA n : IF cost'[n] = None THEN ZeroCost ELSE cost'[n],
                       LAMBDA T : CHOOSE n \in T : TRUE, R) = SumOf(RecordsOf(cost'), R)
    BY FoldIsSum
  <2> QED
    BY <2>1 DEF Total, Recorded, MapThenFoldSet
<1> QED
  BY <1>1, <1>2

(* The order of costs. *)
LEMMA CostOrder ==
    /\ \A x \in NodeCost : CostAtMost(x, x)
    /\ \A x, y \in NodeCost : CostAtMost(x, y) /\ CostAtMost(y, x) => x = y
    /\ \A x, y, z \in NodeCost : CostAtMost(x, y) /\ CostAtMost(y, z) => CostAtMost(x, z)
    /\ \A x, y \in NodeCost : CostAtMost(x, AddCost(x, y))
    /\ \A x \in NodeCost : AddCost(ZeroCost, x) = x /\ CostAtMost(ZeroCost, x)
<1>1. \A x \in NodeCost : /\ x.wall \in U64 /\ x.calls \in U64 /\ x.micros \in Optional
                          /\ x = [wall |-> x.wall, calls |-> x.calls, micros |-> x.micros]
  BY DEF NodeCost
<1> USE NumberAssumption DEF Optional, U64
<1>2. \A x \in NodeCost : CostAtMost(x, x)
  BY <1>1 DEF CostAtMost, AtMost
<1>3. ASSUME NEW x \in NodeCost, NEW y \in NodeCost, CostAtMost(x, y), CostAtMost(y, x) PROVE x = y
  <2>1. x.wall = y.wall /\ x.calls = y.calls /\ x.micros = y.micros
    BY <1>1, <1>3 DEF CostAtMost, AtMost
  <2> QED
    BY <1>1, <2>1
<1>4. ASSUME NEW x \in NodeCost, NEW y \in NodeCost, NEW z \in NodeCost,
             CostAtMost(x, y), CostAtMost(y, z)
      PROVE  CostAtMost(x, z)
  BY <1>1, <1>4 DEF CostAtMost, AtMost
<1>5. \A x, y \in NodeCost : CostAtMost(x, AddCost(x, y))
  BY <1>1 DEF CostAtMost, AtMost, AddCost, SaturatingAdd, AddMeasured
<1>6. \A x \in NodeCost : AddCost(ZeroCost, x) = x
  BY <1>1 DEF ZeroCost, AddCost, SaturatingAdd, AddMeasured
<1>7. \A x \in NodeCost : CostAtMost(ZeroCost, x)
  BY <1>1 DEF ZeroCost, CostAtMost, AtMost
<1> QED
  BY <1>2, <1>3, <1>4, <1>5, <1>6, <1>7

(* Records are costs. *)
LEMMA RecordType ==
    ASSUME NEW c \in [Node -> NodeCost \cup {None}]
    PROVE  \A n \in Node : RecordsOf(c)[n] \in NodeCost
  BY ZeroIsBelow DEF RecordsOf

(* A total is a cost, and is made of one row and the total of the others. *)
LEMMA TotalFacts ==
    ASSUME LedgerInv
    PROVE  /\ Total({}) = ZeroCost
           /\ \A n \in Node : Recorded(n) \in NodeCost
           /\ \A R \in SUBSET Node : Total(R) \in NodeCost
           /\ \A R \in SUBSET Node : \A n \in R : Total(R) = AddCost(Recorded(n), Total(R \ {n}))
<1>1. cost \in [Node -> NodeCost \cup {None}]
  BY DEF LedgerInv
<1>2. \A n \in Node : RecordsOf(cost)[n] \in NodeCost /\ RecordsOf(cost)[n] = Recorded(n)
  BY <1>1, RecordType DEF RecordsOf, Recorded
<1>3. ASSUME NEW R \in SUBSET Node
      PROVE  /\ SumOf(RecordsOf(cost), {}) = ZeroCost
             /\ SumOf(RecordsOf(cost), R) \in NodeCost
             /\ \A n \in R : SumOf(RecordsOf(cost), R)
                               = AddCost(RecordsOf(cost)[n], SumOf(RecordsOf(cost), R \ {n}))
  <2>1. IsFiniteSet(R) /\ \A n \in R : RecordsOf(cost)[n] \in NodeCost
    BY <1>2, GraphAssumption, FS_Subset
  <2> QED
    BY <2>1, SumOfFacts
<1> QED
  BY <1>2, <1>3, TotalIsSum

(* A total grows with the records it is made of. *)
LEMMA TotalGrows ==
    ASSUME LedgerInv, LedgerInv', NEW R \in SUBSET Node,
           \A n \in R : CostAtMost(Recorded(n), Recorded(n)')
    PROVE  CostAtMost(Total(R), Total(R)')
<1>1. cost \in [Node -> NodeCost \cup {None}] /\ cost' \in [Node -> NodeCost \cup {None}]
  BY DEF LedgerInv
<1>2. \A n \in Node : /\ RecordsOf(cost)[n] \in NodeCost /\ RecordsOf(cost)[n] = Recorded(n)
                      /\ RecordsOf(cost')[n] \in NodeCost /\ RecordsOf(cost')[n] = Recorded(n)'
  BY <1>1, RecordType DEF RecordsOf, Recorded
<1>3. IsFiniteSet(R) /\ \A n \in R : RecordsOf(cost)[n] \in NodeCost
  BY <1>2, GraphAssumption, FS_Subset
<1>4. \A n \in R : /\ RecordsOf(cost')[n] \in NodeCost
                   /\ CostAtMost(RecordsOf(cost)[n], RecordsOf(cost')[n])
  BY <1>2
<1>5. CostAtMost(SumOf(RecordsOf(cost), R), SumOf(RecordsOf(cost'), R))
  BY <1>3, <1>4, SumOfFacts
<1> QED
  BY <1>5, TotalIsSum

(* Records that stay leave their total. *)
LEMMA TotalStays ==
    ASSUME LedgerInv, LedgerInv', NEW R \in SUBSET Node, \A n \in R : cost'[n] = cost[n]
    PROVE  Total(R)' = Total(R)
<1>1. cost \in [Node -> NodeCost \cup {None}] /\ cost' \in [Node -> NodeCost \cup {None}]
  BY DEF LedgerInv
<1>2. \A n \in R : /\ RecordsOf(cost)[n] \in NodeCost /\ RecordsOf(cost')[n] = RecordsOf(cost)[n]
                   /\ CostAtMost(RecordsOf(cost)[n], RecordsOf(cost)[n])
  BY <1>1, RecordType, CostOrder DEF RecordsOf
<1>3. IsFiniteSet(R)
  BY GraphAssumption, FS_Subset
<1>4. /\ SumOf(RecordsOf(cost), R) \in NodeCost /\ SumOf(RecordsOf(cost'), R) \in NodeCost
      /\ CostAtMost(SumOf(RecordsOf(cost), R), SumOf(RecordsOf(cost'), R))
      /\ CostAtMost(SumOf(RecordsOf(cost'), R), SumOf(RecordsOf(cost), R))
  BY <1>2, <1>3, SumOfFacts
<1> QED
  BY <1>4, CostOrder, TotalIsSum

----------------------------------------------------------------------------
(* What a running attempt knows *)

(* Where a future's own row still holds what its view says. *)
Holding == Started \cup {"gate", "completed", "blocked"}

(* The view of an attempt is the ledger's own record, its bill is a charge *)
(* on top of that, and its outcome is the verdict on the bill, or on the   *)
(* record alone when the pre-gate blocked it.                              *)
BillOK(n) ==
    /\ exec[n] \in {"launched", "head"} => view[n] = None /\ bill[n] = None
    /\ exec[n] \in {"completed", "blocked"} => view[n] # None
    /\ view[n] # None => /\ view[n].limits \in BudgetLimits
                         /\ view[n].others \in NodeCost
                         /\ misses = 0 => view[n].limits = LimitsOf[n]
    /\ exec[n] \in Holding /\ view[n] # None => view[n].prior = Recorded(n)
    /\ bill[n] # None => exec[n] \in {"completed", "blocked", "pausing", "done"}
    /\ exec[n] = "completed" =>
          bill[n] # None /\ ~Exceeded(view[n].limits, view[n].others, bill[n])
    /\ exec[n] \in {"completed", "blocked"} /\ bill[n] # None => CostAtMost(view[n].prior, bill[n])
    /\ exec[n] = "blocked" => Exceeded(view[n].limits, view[n].others,
                                       IF bill[n] = None THEN view[n].prior ELSE bill[n])

BillInv == misses \in Nat /\ \A n \in Node : BillOK(n)

(* A miss is not forgotten. *)
LEMMA MissesRemembered ==
    ASSUME misses \in Nat, [BudgetNext]_budgetVars
    PROVE  misses' \in Nat /\ (misses' = 0 => misses = 0 /\ misses' # misses + 1)
<1>1. UNCHANGED misses \/ misses' = misses + 1
  <2>1. CASE UNCHANGED budgetVars \/ FuturesEnd \/ OtherStep
    BY <2>1 DEF budgetVars, ledger, FuturesEnd, OtherStep
  <2>2. ASSUME NEW n \in Node,
               BudgetRead(n) \/ BudgetGate(n) \/ PrepareFailed(n) \/ BudgetCompleted(n)
                 \/ BudgetBlocked(n) \/ BudgetRetry(n) \/ BudgetReset(n)
        PROVE  UNCHANGED misses \/ misses' = misses + 1
    BY <2>2 DEF BudgetRead, Miss, BudgetGate, PrepareFailed, BudgetCompleted, BudgetBlocked,
                BudgetRetry, BudgetReset, ledger
  <2>3. ASSUME NEW n \in Node, NEW d \in AttemptCost[n],
               ParkEnds(n, d) \/ \E o \in {"completed", "blocked", "failed"} : AttemptEnds(n, o, d)
        PROVE  UNCHANGED misses \/ misses' = misses + 1
    BY <2>3 DEF ParkEnds, AttemptEnds, Bank, Miss, ledger
  <2>4. ASSUME NEW n \in Node, NEW c \in Client, BudgetRetryReset(c, n) PROVE UNCHANGED misses
    BY <2>4 DEF BudgetRetryReset
  <2> QED
    BY <2>1, <2>2, <2>3, <2>4 DEF BudgetNext
<1> QED
  BY <1>1

(* A future that stays with its row keeps what it knows. *)
LEMMA BillUntouched ==
    ASSUME NEW m \in Node, BillOK(m), exec'[m] = exec[m], view'[m] = view[m], bill'[m] = bill[m],
           cost'[m] = cost[m] \/ exec[m] \notin Holding, misses' = 0 => misses = 0
    PROVE  BillOK(m)'
  BY DEF BillOK, Recorded

(* A view is taken of the ledger as it is, and stays right until the       *)
(* future writes its row.                                                  *)
LEMMA BillKept ==
    TypeOK /\ RunInv /\ NodeInv /\ LedgerInv /\ BillInv /\ [BudgetNext]_budgetVars => BillInv'
<1> SUFFICES ASSUME TypeOK, RunInv, NodeInv, LedgerInv, BillInv, [BudgetNext]_budgetVars,
                    NEW m \in Node
             PROVE  BillOK(m)'
  BY MissesRemembered DEF BillInv
<1> USE DEF TypeOK
<1>0. /\ BillOK(m)
      /\ misses' = 0 => misses = 0 /\ misses' # misses + 1
      /\ exec[m] = "idle" => view[m] = None /\ bill[m] = None
      /\ exec[m] \in Started => view[m] # None
      /\ view = [n \in Node |-> view[n]]
      /\ cost \in [Node -> NodeCost \cup {None}] /\ bill \in [Node -> NodeCost \cup {None}]
  BY MissesRemembered DEF BillInv, LedgerInv
<1>1. CASE Quiet
  <2>1. MovesQuietly(m) /\ UNCHANGED <<cost, view, bill>>
    BY <1>1 DEF Quiet, ledger
  <2>2. CASE exec'[m] = exec[m]
    BY <1>0, <2>1, <2>2, BillUntouched
  <2>3. CASE exec[m] \in {"idle", "launched"} /\ exec'[m] \in {"launched", "head"}
    BY <1>0, <2>1, <2>3 DEF BillOK, Holding, Started
  <2>4. CASE exec[m] = "head" /\ exec'[m] = "gate"
    BY <1>0, <2>1, <2>4 DEF BillOK
  <2>5. CASE exec[m] \in {"gate", "failed", "pausing"} /\ exec'[m] \in {"failed", "done"}
               /\ ~(exec[m] = "pausing" /\ exec'[m] = "failed")
    BY <1>0, <2>1, <2>5 DEF BillOK, Holding, Started
  <2>6. CASE exec[m] = "gate" /\ view[m] # None /\ Exhausted(m) /\ exec'[m] = "blocked"
    BY <1>0, <2>1, <2>6 DEF BillOK, Holding, Exhausted, Recorded
  <2>7. CASE exec[m] \in Started \cup {"gate"} /\ view[m] # None /\ exec'[m] \in Started
    BY <1>0, <2>1, <2>7 DEF BillOK, Holding, Started, Recorded
  <2> QED
    BY <1>0, <2>1, <2>2, <2>3, <2>4, <2>5, <2>6, <2>7 DEF MovesQuietly, Started
<1>2. CASE Ends
  <2>1. \/ exec'[m] = exec[m] /\ view'[m] = view[m] /\ bill'[m] = bill[m]
        \/ exec'[m] \in {"idle", "error"} /\ view'[m] = None /\ bill'[m] = None
    BY <1>2 DEF Ends
  <2>2. cost'[m] = cost[m]
    BY <1>2 DEF Ends
  <2>3. CASE exec'[m] \in {"idle", "error"} /\ view'[m] = None /\ bill'[m] = None
    BY <2>3 DEF BillOK, Holding, Started
  <2> QED
    BY <1>0, <2>1, <2>2, <2>3, BillUntouched
<1>3. ASSUME NEW n \in Node, Reads(n) PROVE BillOK(m)'
  <2>1. PICK l \in BudgetLimits :
          /\ l = LimitsOf[n] \/ misses' = misses + 1
          /\ view' = [view EXCEPT ![n] = [limits |-> l, others |-> Total(Node \ {n}),
                                          prior |-> Recorded(n)]]
    BY <1>3 DEF Reads
  <2>2. exec[n] = "gate" /\ UNCHANGED <<exec, cost, bill>>
    BY <1>3 DEF Reads
  <2>3. CASE m # n
    BY <1>0, <2>1, <2>2, <2>3, BillUntouched
  <2>4. CASE m = n
    <3>1. Total(Node \ {n}) \in NodeCost
      BY TotalFacts
    <3>2. /\ view'[m].limits = l /\ view'[m].others = Total(Node \ {n})
          /\ view'[m].prior = Recorded(n)
      BY <1>0, <2>1, <2>4
    <3>3. exec'[m] = "gate" /\ bill'[m] = None /\ Recorded(m)' = Recorded(m)
      BY <1>0, <2>2, <2>4 DEF BillOK, Recorded
    <3> QED
      BY <1>0, <2>1, <2>4, <3>1, <3>2, <3>3 DEF BillOK
  <2> QED
    BY <2>3, <2>4
<1>4. ASSUME NEW n \in Node, NEW d \in NodeCost, Banks(n, d) PROVE BillOK(m)'
  <2>1. /\ exec[n] \in Started /\ exec' = [exec EXCEPT ![n] = "failed"]
        /\ cost' = [cost EXCEPT ![n] = Measured(n, d)] \/ UNCHANGED cost
        /\ UNCHANGED <<view, bill>>
    BY <1>4 DEF Banks, Alone
  <2>2. CASE m # n
    <3>1. cost'[m] = cost[m]
      BY <1>0, <2>1, <2>2
    <3> QED
      BY <1>0, <2>1, <2>2, <3>1, BillUntouched
  <2>3. CASE m = n
    BY <1>0, <2>1, <2>3 DEF BillOK, Holding, Started
  <2> QED
    BY <2>2, <2>3
<1>5. ASSUME NEW n \in Node, NEW d \in NodeCost, Bills(n, d) PROVE BillOK(m)'
  <2>1. /\ exec[n] \in Started
        /\ exec' = [exec EXCEPT ![n] = IF Exceeded(view[n].limits, view[n].others, Measured(n, d))
                                       THEN "blocked" ELSE "completed"]
        /\ bill' = [bill EXCEPT ![n] = Measured(n, d)]
        /\ UNCHANGED <<cost, view>>
    BY <1>5 DEF Bills, Alone
  <2>2. CASE m # n
    BY <1>0, <2>1, <2>2, BillUntouched
  <2>3. CASE m = n
    <3>1. view[n] # None /\ view[n].prior = Recorded(n) /\ view[n].prior \in NodeCost
      BY <1>0, <2>1, <2>3 DEF BillOK, Holding, LedgerInv
    <3>2. Measured(n, d) \in NodeCost /\ CostAtMost(view[n].prior, Measured(n, d))
      BY <3>1, AddCostFacts, CostOrder DEF Measured
    <3>3. bill'[n] = Measured(n, d) /\ bill'[n] # None /\ Recorded(n)' = Recorded(n)
      BY <1>0, <2>1, <3>2, NoneAssumption DEF Recorded
    <3> QED
      BY <1>0, <2>1, <2>3, <3>1, <3>2, <3>3 DEF BillOK
  <2> QED
    BY <2>2, <2>3
<1>6. ASSUME NEW n \in Node, Completes(n) \/ Blocks(n) PROVE BillOK(m)'
  <2>1. /\ exec[n] \in {"completed", "blocked"} /\ exec' = [exec EXCEPT ![n] = exec'[n]]
        /\ exec'[n] \in {"done", "pausing"}
        /\ \A k \in Node \ {n} : cost'[k] = cost[k]
        /\ UNCHANGED <<view, bill>>
    BY <1>0, <1>6 DEF Completes, Blocks, Alone
  <2>2. CASE m # n
    BY <1>0, <2>1, <2>2, BillUntouched
  <2>3. CASE m = n
    BY <1>0, <2>1, <2>3 DEF BillOK, Holding, Started
  <2> QED
    BY <2>2, <2>3
<1>7. ASSUME NEW n \in Node, Retries(n) PROVE BillOK(m)'
  <2>1. /\ exec[n] = "failed" /\ exec' = [exec EXCEPT ![n] = "head"]
        /\ view' = [view EXCEPT ![n] = None] /\ bill' = [bill EXCEPT ![n] = None]
        /\ UNCHANGED cost
    BY <1>7 DEF Retries, Alone
  <2>2. CASE m # n
    BY <1>0, <2>1, <2>2, BillUntouched
  <2>3. CASE m = n
    <3>1. exec'[m] = "head" /\ view'[m] = None /\ bill'[m] = None
      BY <1>0, <2>1, <2>3
    <3> QED
      BY <3>1 DEF BillOK
  <2> QED
    BY <2>2, <2>3
<1>8. ASSUME NEW n \in Node, Resets(n) \/ Forgets(n) PROVE BillOK(m)'
  <2>1. exec[m] = "idle" /\ UNCHANGED <<exec, view, bill>>
    BY <1>8 DEF Resets, Forgets, RunInv, NoOrphanFuture, Inflight
  <2> QED
    BY <1>0, <2>1, BillUntouched DEF Holding, Started
<1> QED
  BY <1>1, <1>2, <1>3, <1>4, <1>5, <1>6, <1>7, <1>8, StepShape DEF Writes

(* Every attempt's view, bill and outcome agree. *)
LEMMA BillSafe == BudgetSpec => []BillInv
<1>1. BudgetInit => BillInv
  BY DEF BudgetInit, Init, BillInv, BillOK, Holding, Started
<1> QED
  BY <1>1, BillKept, LedgerSafe, BudgetIsEngine, TypeSafe, RunSafe, NodesSafe, PTL DEF BudgetSpec

(* What a node is charged is a cost. *)
LEMMA ChargesAreCosts ==
    ASSUME LedgerInv, BillInv, NEW n \in Node, view[n] # None
    PROVE  /\ view[n].limits \in BudgetLimits /\ view[n].others \in NodeCost
           /\ \A c \in Charges(n) : c \in NodeCost
<1>1. view[n].prior \in NodeCost /\ view[n].limits \in BudgetLimits /\ view[n].others \in NodeCost
  BY DEF LedgerInv, BillInv, BillOK
<1>2. \A d \in AttemptCost[n] : Measured(n, d) \in NodeCost
  BY <1>1, BudgetAssumption, AddCostFacts DEF Measured
<1> QED
  BY <1>1, <1>2 DEF Charges

(* Whatever a run's ledger comes to hold, charge names the first breach    *)
(* that exact sums have, although it adds saturating words.                *)
THEOREM ChargesAreExact == BudgetSpec => []ChargeIsExact
<1>1. LedgerInv /\ BillInv => ChargeIsExact
  BY ChargesAreCosts, BreachNamedExactly DEF ChargeIsExact
<1> QED
  BY <1>1, LedgerSafe, BillSafe, PTL

(* Whatever a run's ledger comes to hold, charge warns of exactly the      *)
(* ceilings of which four fifths are used.                                 *)
THEOREM WarningsAreExact == BudgetSpec => []WarnsAtFourFifths
<1>1. LedgerInv /\ BillInv => WarnsAtFourFifths
  BY ChargesAreCosts, WarnsExactly DEF WarnsAtFourFifths
<1> QED
  BY <1>1, LedgerSafe, BillSafe, PTL

----------------------------------------------------------------------------
(* Recorded spend stays *)

(* A fault is never forgotten. *)
LEMMA FaultsRemembered ==
    ASSUME TypeOK, [Next]_vars, crashes' = 0, dbErrors' = 0
    PROVE  crashes = 0 /\ dbErrors = 0
<1> USE BoundAssumption DEF TypeOK
<1>1. crashes \in Nat /\ dbErrors \in Nat
  OBVIOUS
<1>2. CASE UNCHANGED bounds
  BY <1>2 DEF bounds
<1>3. CASE UNCHANGED <<crashes, dbErrors>>
  BY <1>3
<1>4. CASE DriveStep
  BY <1>2, <1>4 DEF DriveStep, DriveAcquire, DriveCheck, DriveBegin, DriveEnter, DriveReset,
     DriveStart, DriveRound, DriveFrontier, DriveFill, DriveRecheck, DriveReread, DriveCollect,
     DriveFinal, DriveSettle, DriveAbort, DrivePublish, DriveFinish, world
<1>5. ASSUME NEW n \in Node, NodeStep(n) \/ Decide(n) PROVE UNCHANGED bounds
  BY <1>5 DEF NodeStep, NodeReadAttempt, NodeRun, NodeAgent, NodeTool, NodePark, NodeGate,
     NodeOutcome, NodeEffect, NodeParkRegister, NodeParkCancelled, NodeUnpark, NodeCompleted,
     NodeBlocked, NodePauseRun, NodeRetry, NodeFailed, Decide, NodeDecided, NodeGoes, world
<1>6. ASSUME NEW n \in Node, NodeFault(n) PROVE dbErrors' # 0
  BY <1>1, <1>6 DEF NodeFault, NodeDbError, NodeParkFails
<1>7. ASSUME NEW c \in Client, HandlerStep(c) PROVE UNCHANGED bounds
  BY <1>7 DEF HandlerStep, PausePublish, CancelSkip, CancelFire, CancelPublish, RetryRejected,
     RetryReset
<1>8. ASSUME NEW c \in Client, Command(c) PROVE UNCHANGED <<crashes, dbErrors>>
  BY <1>8 DEF Command, StartAgain, Pause, Resume, Retry, Cancel, Issue
<1>9. CASE DriveDbError \/ CrashRestart
  BY <1>1, <1>9 DEF DriveDbError, CrashRestart
<1>10. CASE UNCHANGED vars
  BY <1>2, <1>10 DEF vars, world
<1> QED
  BY <1>2, <1>3, <1>4, <1>5, <1>6, <1>7, <1>8, <1>9, <1>10 DEF Next

(* Until a fault, only a retry lowers a record. *)
RecordsKept ==
    \A n \in Node : \/ cost'[n] = cost[n]
                    \/ cost'[n] # None /\ CostAtMost(Recorded(n), cost'[n])

LEMMA RecordsGrow ==
    ASSUME TypeOK, RunInv, NodeInv, LiveRowHasFuture, LedgerInv, BillInv, [BudgetNext]_budgetVars,
           crashes = 0, dbErrors = 0, ~\E n \in Node : Forgets(n)
    PROVE  RecordsKept
<1> USE DEF TypeOK
<1>0. cost \in [Node -> NodeCost \cup {None}] /\ bill \in [Node -> NodeCost \cup {None}]
  BY DEF LedgerInv
<1>1. CASE Quiet \/ Ends
  BY <1>1 DEF Quiet, Ends, ledger, RecordsKept
<1>2. ASSUME NEW n \in Node, Reads(n) \/ Retries(n) PROVE RecordsKept
  BY <1>2 DEF Reads, Retries, RecordsKept
<1>3. ASSUME NEW n \in Node, NEW d \in NodeCost, Banks(n, d) PROVE RecordsKept
  <2>1. view[n] # None /\ view[n].prior = Recorded(n) /\ view[n].prior \in NodeCost
    BY <1>3 DEF Banks, LedgerInv, BillInv, BillOK, Holding
  <2>2. Measured(n, d) \in NodeCost /\ CostAtMost(Recorded(n), Measured(n, d))
    BY <2>1, AddCostFacts, CostOrder DEF Measured
  <2> QED
    BY <1>0, <1>3, <2>2, NoneAssumption DEF Banks, RecordsKept
<1>4. ASSUME NEW n \in Node, NEW d \in NodeCost, Bills(n, d) PROVE RecordsKept
  BY <1>4 DEF Bills, RecordsKept
<1>5. ASSUME NEW n \in Node, Completes(n) \/ Blocks(n) PROVE RecordsKept
  <2>1. exec[n] \in {"completed", "blocked"} /\ (exec[n] = "completed" => bill[n] # None)
    BY <1>5 DEF Completes, Blocks, BillInv, BillOK
  <2>2. bill[n] # None => CostAtMost(Recorded(n), bill[n])
    BY <2>1 DEF BillInv, BillOK, Holding
  <2>3. cost' = [cost EXCEPT ![n] = IF bill[n] = None THEN cost[n] ELSE bill[n]]
    BY <1>0, <1>5, <2>1 DEF Completes, Blocks
  <2> QED
    BY <1>0, <2>2, <2>3 DEF RecordsKept
<1>6. ASSUME NEW n \in Node, Resets(n) PROVE RecordsKept
  <2>1. exec[n] = "idle"
    BY <1>6 DEF Resets, RunInv, NoOrphanFuture, Inflight
  <2>2. nodeState[n] = "blocked"
    BY <1>6, <2>1 DEF Resets, LiveRowHasFuture
  <2>3. cost' = cost
    BY <1>0, <1>6, <2>2 DEF Resets
  <2> QED
    BY <2>3 DEF RecordsKept
<1> QED
  BY <1>1, <1>2, <1>3, <1>4, <1>5, <1>6, StepShape DEF Writes

(* A recorded spend is forgotten only by a retry until a crash or a store  *)
(* error interrupts a node: a resume resets blocked rows alone, and those  *)
(* keep their cost.                                                        *)
THEOREM SpendIsKept == BudgetSpec => BankedSpendStays
<1>1. ASSUME TypeOK, RunInv, NodeInv, LiveRowHasFuture, LedgerInv, BillInv, [BudgetNext]_budgetVars
      PROVE  (crashes = 0 /\ dbErrors = 0) => KeepsRecorded
  <2> SUFFICES ASSUME NEW n \in Node, crashes = 0, dbErrors = 0, cost[n] # None, ~RetryTaken
               PROVE  cost'[n] # None /\ CostAtMost(cost[n], cost'[n])
    BY DEF KeepsRecorded
  <2>1. RecordsKept
    BY <1>1, RecordsGrow DEF Forgets
  <2>2. cost[n] \in NodeCost /\ Recorded(n) = cost[n] /\ CostAtMost(cost[n], cost[n])
    BY <1>1, CostOrder DEF LedgerInv, Recorded
  <2> QED
    BY <2>1, <2>2 DEF RecordsKept
<1> QED
  BY <1>1, BillSafe, LedgerSafe, BudgetIsEngine, TypeSafe, RunSafe, NodesSafe, LiveRowsSafe, PTL
     DEF BudgetSpec, BankedSpendStays

----------------------------------------------------------------------------
(* Every attempt is charged *)

Cap(x) == IF x > MaxU THEN MaxU ELSE x

(* A record accounts for a spend, field by field. *)
LEMMA AccountsFor ==
    ASSUME NEW c \in NodeCost, NEW s \in Spending
    PROVE  Spend(NoSpend, c) = Saturated(s) <=> /\ c.wall = Cap(s.wall)
                                               /\ c.calls = Cap(s.calls)
                                               /\ OrZero(c.micros) = Cap(s.micros)
<1>1. c.wall \in Nat /\ c.calls \in Nat /\ OrZero(c.micros) \in Nat
  BY NumberAssumption DEF NodeCost, U64, Optional, OrZero
<1>2. Spend(NoSpend, c) = [wall |-> c.wall, calls |-> c.calls, micros |-> OrZero(c.micros)]
  BY <1>1 DEF Spend, NoSpend, OrZero
<1>3. Saturated(s) = [wall |-> Cap(s.wall), calls |-> Cap(s.calls), micros |-> Cap(s.micros)]
  BY DEF Saturated, Cap, Spending
<1> QED
  BY <1>2, <1>3

(* A charge on top of a record that accounts for a spend accounts for what *)
(* is spent then: saturation loses nothing a word could hold.              *)
LEMMA ChargeAccounts ==
    ASSUME NEW p \in NodeCost, NEW d \in NodeCost, NEW s \in Spending,
           Spend(NoSpend, p) = Saturated(s)
    PROVE  Spend(NoSpend, AddCost(p, d)) = Saturated(Spend(s, d))
<1>1. /\ p.wall \in U64 /\ p.calls \in U64 /\ p.micros \in Optional
      /\ d.wall \in U64 /\ d.calls \in U64 /\ d.micros \in Optional
      /\ s.wall \in Nat /\ s.calls \in Nat /\ s.micros \in Nat
  BY DEF NodeCost, Spending
<1>2. p.wall = Cap(s.wall) /\ p.calls = Cap(s.calls) /\ OrZero(p.micros) = Cap(s.micros)
  BY AccountsFor
<1>3. AddCost(p, d) \in NodeCost
  BY AddCostFacts
<1>4. Spend(s, d) \in Spending
  BY <1>1, NumberAssumption DEF Spend, Spending, Optional, U64
<1>5. \A x, y \in Nat, k \in U64 : x = Cap(y) => SaturatingAdd(x, k) = Cap(y + k)
  BY NumberAssumption DEF Cap, SaturatingAdd, U64
<1>6. /\ AddCost(p, d).wall = Cap(Spend(s, d).wall)
      /\ AddCost(p, d).calls = Cap(Spend(s, d).calls)
  BY <1>1, <1>2, <1>5, NumberAssumption DEF AddCost, Spend, U64
<1>7. OrZero(AddMeasured(p.micros, d.micros)) = Cap(s.micros + OrZero(d.micros))
  <2>1. OrZero(d.micros) \in U64 /\ OrZero(p.micros) \in U64
    BY <1>1, NumberAssumption DEF OrZero, Optional, U64
  <2>2. OrZero(AddMeasured(p.micros, d.micros)) = SaturatingAdd(OrZero(p.micros), OrZero(d.micros))
    BY <1>1, NumberAssumption DEF OrZero, AddMeasured, SaturatingAdd, Optional, U64
  <2> QED
    BY <1>1, <1>2, <1>5, <2>1, <2>2, NumberAssumption DEF U64
<1>8. OrZero(AddCost(p, d).micros) = Cap(Spend(s, d).micros)
  BY <1>7 DEF AddCost, Spend, OrZero
<1> QED
  BY <1>3, <1>4, <1>6, <1>8, AccountsFor

(* What a node is charged so far: the bill of an attempt that ended, until *)
(* its outcome writes it to the row.                                       *)
Held(n) == IF exec[n] \in {"completed", "blocked"} /\ bill[n] # None THEN bill[n] ELSE Recorded(n)

(* The strengthening that makes EveryAttemptCharged inductive. *)
ChargedInv == Sound => \A n \in Node : Spend(NoSpend, Held(n)) = Saturated(spent[n])

(* Every end of an attempt moves its spend into the bill or the row.       *)
LEMMA ChargedKept ==
    TypeOK /\ RunInv /\ NodeInv /\ LiveRowHasFuture /\ LedgerInv /\ BillInv /\ ChargedInv
        /\ [BudgetNext]_budgetVars => ChargedInv'
<1> SUFFICES ASSUME TypeOK, RunInv, NodeInv, LiveRowHasFuture, LedgerInv, BillInv, ChargedInv,
                    [BudgetNext]_budgetVars, Sound', NEW m \in Node
             PROVE  Spend(NoSpend, Held(m)') = Saturated(spent'[m])
  BY DEF ChargedInv
<1> USE DEF TypeOK
<1>0. /\ Spend(NoSpend, Held(m)) = Saturated(spent[m])
      /\ crashes = 0 /\ dbErrors = 0 /\ crashes' = 0 /\ dbErrors' = 0
      /\ misses = 0 /\ misses' # misses + 1
  BY StepsAreEngineSteps, FaultsRemembered, MissesRemembered DEF ChargedInv, Sound, BillInv
<1>1. /\ BillOK(m)
      /\ cost \in [Node -> NodeCost \cup {None}] /\ bill \in [Node -> NodeCost \cup {None}]
      /\ spent \in [Node -> Spending] /\ view = [n \in Node |-> view[n]]
  BY DEF BillInv, LedgerInv
<1> HIDE DEF TypeOK
<1>2. ASSUME Held(m)' = Held(m), spent'[m] = spent[m]
      PROVE  Spend(NoSpend, Held(m)') = Saturated(spent'[m])
  BY <1>0, <1>2
<1>3. CASE Quiet
  <2>1. MovesQuietly(m) /\ UNCHANGED <<cost, bill, spent>>
    BY <1>3 DEF Quiet, ledger
  <2>2. Held(m)' = Held(m)
    BY <1>1, <2>1 DEF MovesQuietly, BillOK, Held, Recorded, Started
  <2> QED
    BY <1>2, <2>1, <2>2
<1>4. CASE Ends
  <2>1. /\ UNCHANGED <<cost, spent>>
        /\ \/ exec'[m] = exec[m] /\ bill'[m] = bill[m]
           \/ exec'[m] \in {"idle", "error"} /\ exec[m] \in {"idle", "done", "error"}
    BY <1>0, <1>4 DEF Ends
  <2>2. Held(m)' = Held(m)
    BY <2>1 DEF Held, Recorded
  <2> QED
    BY <1>2, <2>1, <2>2
<1>5. ASSUME NEW n \in Node, Reads(n) PROVE Spend(NoSpend, Held(m)') = Saturated(spent'[m])
  BY <1>2, <1>5 DEF Reads, Held, Recorded
<1>6. ASSUME NEW n \in Node, NEW d \in NodeCost, Banks(n, d) \/ Bills(n, d)
      PROVE  Spend(NoSpend, Held(m)') = Saturated(spent'[m])
  <2>1. /\ exec[n] \in Started /\ exec' = [exec EXCEPT ![n] = exec'[n]]
        /\ spent' = [spent EXCEPT ![n] = Spend(spent[n], d)]
        /\ \/ /\ exec'[n] = "failed"
              /\ cost' = [cost EXCEPT ![n] = Measured(n, d)] /\ UNCHANGED bill
           \/ /\ exec'[n] \in {"completed", "blocked"}
              /\ bill' = [bill EXCEPT ![n] = Measured(n, d)] /\ UNCHANGED cost
    BY <1>0, <1>6 DEF Banks, Bills, Alone, TypeOK
  <2>2. CASE m # n
    <3>1. exec'[m] = exec[m] /\ cost'[m] = cost[m] /\ bill'[m] = bill[m] /\ spent'[m] = spent[m]
      BY <1>1, <2>1, <2>2 DEF TypeOK
    <3> QED
      BY <1>2, <3>1 DEF Held, Recorded
  <2>3. CASE m = n
    <3>1. view[n] # None /\ view[n].prior \in NodeCost /\ view[n].prior = Recorded(n)
      BY <1>1, <2>1, <2>3 DEF LedgerInv, BillOK, Holding
    <3>2. Held(n) = view[n].prior
      BY <2>1, <3>1 DEF Held, Started
    <3>3. Measured(n, d) \in NodeCost /\ Measured(n, d) # None
      BY <3>1, AddCostFacts, NoneAssumption DEF Measured
    <3>4. Held(n)' = Measured(n, d)
      BY <1>1, <2>1, <3>3 DEF Held, Recorded, TypeOK
    <3>5. spent[n] \in Spending /\ spent'[n] = Spend(spent[n], d)
      BY <1>1, <2>1
    <3> QED
      BY <1>0, <2>3, <3>1, <3>2, <3>4, <3>5, ChargeAccounts DEF Measured
  <2> QED
    BY <2>2, <2>3
<1>7. ASSUME NEW n \in Node, Completes(n) \/ Blocks(n)
      PROVE  Spend(NoSpend, Held(m)') = Saturated(spent'[m])
  <2>1. /\ exec[n] \in {"completed", "blocked"} /\ exec' = [exec EXCEPT ![n] = exec'[n]]
        /\ exec[n] = "completed" => bill[n] # None
        /\ exec'[n] \in {"done", "pausing"}
        /\ UNCHANGED <<bill, spent>>
    BY <1>7 DEF Completes, Blocks, Alone, BillInv, BillOK, TypeOK
  <2>2. cost' = [cost EXCEPT ![n] = IF bill[n] = None THEN cost[n] ELSE bill[n]]
    BY <1>1, <1>7, <2>1 DEF Completes, Blocks
  <2>3. CASE m # n
    BY <1>1, <1>2, <2>1, <2>2, <2>3 DEF Held, Recorded, TypeOK
  <2>4. CASE m = n
    <3>1. Held(m)' = Held(m)
      BY <1>1, <2>1, <2>2, <2>4 DEF Held, Recorded, TypeOK
    <3> QED
      BY <1>2, <2>1, <3>1
  <2> QED
    BY <2>3, <2>4
<1>8. ASSUME NEW n \in Node, Retries(n) PROVE Spend(NoSpend, Held(m)') = Saturated(spent'[m])
  <2>1. /\ exec[n] = "failed" /\ exec' = [exec EXCEPT ![n] = "head"]
        /\ bill' = [bill EXCEPT ![n] = None] /\ UNCHANGED <<cost, spent>>
    BY <1>8 DEF Retries, Alone
  <2>2. Held(m)' = Held(m)
    BY <1>1, <2>1 DEF Held, Recorded, TypeOK
  <2> QED
    BY <1>2, <2>1, <2>2
<1>9. ASSUME NEW n \in Node, Resets(n) PROVE Spend(NoSpend, Held(m)') = Saturated(spent'[m])
  <2>1. exec[n] = "idle"
    BY <1>9 DEF Resets, RunInv, NoOrphanFuture, Inflight
  <2>2. nodeState[n] = "blocked"
    BY <1>0, <1>9, <2>1 DEF Resets, LiveRowHasFuture
  <2>3. UNCHANGED <<cost, exec, bill, spent>>
    BY <1>1, <1>9, <2>2 DEF Resets
  <2> QED
    BY <1>2, <2>3 DEF Held, Recorded
<1>10. ASSUME NEW n \in Node, Forgets(n) PROVE Spend(NoSpend, Held(m)') = Saturated(spent'[m])
  <2>1. exec[m] = "idle" /\ UNCHANGED <<exec, bill>>
    BY <1>10 DEF Forgets, RunInv, NoOrphanFuture, Inflight
  <2>2. CASE m \in Downstream(n)
    <3>1. Held(m)' = ZeroCost /\ spent'[m] = NoSpend
      BY <1>10, <2>1, <2>2 DEF Forgets, Held, Recorded
    <3>2. NoSpend \in Spending /\ Cap(0) = 0
      BY NumberAssumption DEF NoSpend, Spending, Cap
    <3>3. Spend(NoSpend, ZeroCost) = Saturated(NoSpend)
      BY <3>2, ZeroIsBelow, AccountsFor DEF ZeroCost, NoSpend, OrZero
    <3> QED
      BY <3>1, <3>3
  <2>3. CASE m \notin Downstream(n)
    BY <1>2, <1>10, <2>1, <2>3 DEF Forgets, Held, Recorded
  <2> QED
    BY <2>2, <2>3
<1> QED
  BY <1>3, <1>4, <1>5, <1>6, <1>7, <1>8, <1>9, <1>10, StepShape DEF Writes

(* Which makes ChargedInv an invariant. *)
LEMMA ChargedSafe == BudgetSpec => []ChargedInv
<1>1. BudgetInit => ChargedInv
  <2> SUFFICES ASSUME BudgetInit, NEW n \in Node
               PROVE  Spend(NoSpend, Held(n)) = Saturated(spent[n])
    BY DEF ChargedInv
  <2>1. Held(n) = ZeroCost /\ spent[n] = NoSpend
    BY DEF BudgetInit, Init, Held, Recorded
  <2>2. NoSpend \in Spending /\ Cap(0) = 0
    BY NumberAssumption DEF NoSpend, Spending, Cap
  <2>3. Spend(NoSpend, ZeroCost) = Saturated(NoSpend)
    BY <2>2, ZeroIsBelow, AccountsFor DEF ZeroCost, NoSpend, OrZero
  <2> QED
    BY <2>1, <2>3
<1> QED
  BY <1>1, ChargedKept, BillSafe, LedgerSafe, BudgetIsEngine, TypeSafe, RunSafe, NodesSafe,
     LiveRowsSafe, PTL DEF BudgetSpec

(* Without crashes and store errors a run at rest has charged every        *)
(* attempt of every node, failed ones included (bank_attempt_spend): the   *)
(* rows hold what was spent, as far as a word can hold it.                 *)
THEOREM NothingGoesUncharged == BudgetSpec => []EveryAttemptCharged
<1>1. RunInv /\ ChargedInv => EveryAttemptCharged
  BY DEF RunInv, NoOrphanFuture, Inflight, ChargedInv, Held, EveryAttemptCharged
<1> QED
  BY <1>1, ChargedSafe, BudgetIsEngine, RunSafe, PTL

----------------------------------------------------------------------------
(* A blocked node stays blocked *)

(* The strengthening that makes ReblockSpendsNothing hold of every step: a *)
(* blocked node's ledger is over a ceiling, what an attempt read of other  *)
(* nodes is still a lower bound, and a blocked node that read the ledger   *)
(* again found it exhausted.                                               *)
ReblockOK(n) ==
    /\ n \in blocked => Exceeded(LimitsOf[n], Total(Node \ {n}), Recorded(n))
    /\ view[n] # None => CostAtMost(view[n].others, Total(Node \ {n}))
    /\ n \in blocked /\ exec[n] = "gate" /\ view[n] # None => Exhausted(n)

ReblockInv == Sound => \A n \in Node : ReblockOK(n)

(* Records that grow keep a blocked node over its ceiling. *)
LEMMA ReblockGrows ==
    ASSUME LedgerInv, LedgerInv', BillInv, RecordsKept, NEW m \in Node, ReblockOK(m),
           view'[m] = view[m] \/ view'[m] = None
    PROVE  /\ m \in blocked => Exceeded(LimitsOf[m], Total(Node \ {m})', Recorded(m)')
           /\ view'[m] # None => CostAtMost(view'[m].others, Total(Node \ {m})')
           /\ CostAtMost(Total(Node \ {m}), Total(Node \ {m})')
<1>0. /\ cost \in [Node -> NodeCost \cup {None}] /\ cost' \in [Node -> NodeCost \cup {None}]
      /\ LimitsOf[m] \in BudgetLimits
  BY BudgetAssumption DEF LedgerInv
<1>1. \A n \in Node : /\ Recorded(n) \in NodeCost /\ Recorded(n)' \in NodeCost
                      /\ CostAtMost(Recorded(n), Recorded(n)')
  BY <1>0, ZeroIsBelow, CostOrder DEF Recorded, RecordsKept
<1>2. Node \ {m} \in SUBSET Node
  OBVIOUS
<1>3. CostAtMost(Total(Node \ {m}), Total(Node \ {m})')
  BY <1>1, <1>2, TotalGrows
<1>4. Total(Node \ {m}) \in NodeCost
  BY <1>2, TotalFacts
<1>5. Total(Node \ {m})' \in NodeCost
  <2>1. /\ IsFiniteSet(Node \ {m})
        /\ \A n \in Node \ {m} : RecordsOf(cost')[n] \in NodeCost
    BY <1>0, GraphAssumption, FS_Subset, RecordType
  <2> QED
    BY <1>2, <2>1, SumOfFacts, TotalIsSum
<1>6. m \in blocked => Exceeded(LimitsOf[m], Total(Node \ {m})', Recorded(m)')
  BY <1>0, <1>1, <1>3, <1>4, <1>5, ExceededIsMonotone DEF ReblockOK
<1>7. view'[m] # None => CostAtMost(view'[m].others, Total(Node \ {m})')
  <2> SUFFICES ASSUME view'[m] # None PROVE CostAtMost(view'[m].others, Total(Node \ {m})')
    OBVIOUS
  <2>1. view'[m] = view[m] /\ view[m].others \in NodeCost
        /\ CostAtMost(view[m].others, Total(Node \ {m}))
    BY DEF BillInv, BillOK, ReblockOK
  <2> QED
    BY <1>3, <1>4, <1>5, <2>1, CostOrder
<1> QED
  BY <1>3, <1>6, <1>7

(* Without faults the ledger a blocked node exhausted only grows. *)
LEMMA ReblockKept ==
    TypeOK /\ RunInv /\ NodeInv /\ LiveRowHasFuture /\ LedgerInv /\ LedgerInv' /\ BillInv
        /\ ReblockInv /\ [BudgetNext]_budgetVars => ReblockInv'
<1> SUFFICES ASSUME TypeOK, RunInv, NodeInv, LiveRowHasFuture, LedgerInv, LedgerInv', BillInv,
                    ReblockInv, [BudgetNext]_budgetVars, Sound', NEW m \in Node
             PROVE  ReblockOK(m)'
  BY DEF ReblockInv
<1>0. /\ ReblockOK(m) /\ BillOK(m)
      /\ crashes = 0 /\ dbErrors = 0 /\ crashes' = 0 /\ dbErrors' = 0
      /\ misses = 0 /\ misses' # misses + 1
  BY StepsAreEngineSteps, FaultsRemembered, MissesRemembered DEF ReblockInv, Sound, BillInv
<1>1. /\ view = [n \in Node |-> view[n]] /\ exec \in [Node -> ExecPc]
      /\ cost \in [Node -> NodeCost \cup {None}] /\ bill \in [Node -> NodeCost \cup {None}]
  BY DEF LedgerInv, TypeOK
<1>2. ASSUME NEW n \in Node, Forgets(n) PROVE ReblockOK(m)'
  <2>1. exec[m] = "idle" /\ UNCHANGED view /\ blocked' = {}
    BY <1>2 DEF Forgets, RunInv, NoOrphanFuture, Inflight
  <2>2. view'[m] = None
    BY <2>1 DEF LedgerInv
  <2> QED
    BY <2>1, <2>2 DEF ReblockOK
<1>3. CASE ~\E n \in Node : Forgets(n)
  <2>0. RecordsKept
    BY <1>0, <1>3, RecordsGrow
  <2>1. ASSUME view'[m] = view[m] \/ view'[m] = None,
               m \in blocked' => m \in blocked,
               exec'[m] = "gate" /\ view'[m] # None => exec[m] = "gate" /\ view'[m] = view[m]
        PROVE  ReblockOK(m)'
    BY <1>0, <2>0, <2>1, ReblockGrows DEF ReblockOK, Exhausted
  <2>2. CASE Quiet
    <3>1. MovesQuietly(m) /\ UNCHANGED <<view, blocked>>
      BY <2>2 DEF Quiet, ledger
    <3>2. exec'[m] = "gate" /\ view[m] # None => exec[m] = "gate"
      BY <1>0, <3>1 DEF MovesQuietly, BillOK, Started
    <3> QED
      BY <2>1, <3>1, <3>2
  <2>3. CASE Ends
    BY <2>1, <2>3 DEF Ends
  <2>4. ASSUME NEW n \in Node, Reads(n) PROVE ReblockOK(m)'
    <3>1. PICK l \in BudgetLimits :
            /\ l = LimitsOf[n] \/ misses' = misses + 1
            /\ view' = [view EXCEPT ![n] = [limits |-> l, others |-> Total(Node \ {n}),
                                            prior |-> Recorded(n)]]
      BY <2>4 DEF Reads
    <3>2. UNCHANGED <<exec, cost, blocked>>
      BY <2>4 DEF Reads
    <3>3. CASE m # n
      BY <1>1, <2>1, <3>1, <3>2, <3>3
    <3>4. CASE m = n
      <4>1. /\ view'[m].limits = LimitsOf[m] /\ view'[m].others = Total(Node \ {m})
            /\ view'[m].prior = Recorded(m)
        BY <1>0, <1>1, <3>1, <3>4
      <4>2. Recorded(m)' = Recorded(m) /\ Total(Node \ {m})' = Total(Node \ {m})
        <5>1. Node \ {m} \in SUBSET Node /\ \A k \in Node \ {m} : cost'[k] = cost[k]
          BY <3>2
        <5>2. Total(Node \ {m})' = Total(Node \ {m})
          BY <5>1, TotalStays
        <5> QED
          BY <3>2, <5>2 DEF Recorded
      <4>3. Total(Node \ {m}) \in NodeCost
        BY TotalFacts
      <4> QED
        BY <1>0, <3>2, <4>1, <4>2, <4>3, CostOrder DEF ReblockOK, Exhausted
    <3> QED
      BY <3>3, <3>4
  <2>5. ASSUME NEW n \in Node, NEW d \in NodeCost, Banks(n, d) \/ Bills(n, d) PROVE ReblockOK(m)'
    <3>1. /\ exec' = [exec EXCEPT ![n] = exec'[n]] /\ exec'[n] # "gate"
          /\ UNCHANGED <<view, blocked>>
      BY <1>1, <2>5 DEF Banks, Bills, Alone
    <3> QED
      BY <1>1, <2>1, <3>1
  <2>6. ASSUME NEW n \in Node, Completes(n) \/ Retries(n) \/ Resets(n) PROVE ReblockOK(m)'
    <3>1. /\ view'[m] = view[m] \/ view'[m] = None
          /\ UNCHANGED blocked
          /\ exec'[m] = "gate" => exec[m] = "gate"
      BY <1>1, <2>6 DEF Completes, Retries, Resets, Alone
    <3> QED
      BY <2>1, <3>1
  <2>7. ASSUME NEW n \in Node, Blocks(n) PROVE ReblockOK(m)'
    <3>1. /\ exec[n] = "blocked" /\ exec' = [exec EXCEPT ![n] = "pausing"]
          /\ cost' = [cost EXCEPT ![n] = IF bill[n] = None THEN cost[n] ELSE bill[n]]
          /\ blocked' = blocked \cup {n} /\ UNCHANGED view
      BY <2>7 DEF Blocks, Alone
    <3>2. CASE m # n
      BY <1>1, <2>1, <3>1, <3>2
    <3>3. CASE m = n
      <4>1. /\ view[m] # None /\ view[m].limits = LimitsOf[m] /\ view[m].others \in NodeCost
            /\ view[m].limits \in BudgetLimits
            /\ Exceeded(LimitsOf[m], view[m].others, IF bill[m] = None THEN Recorded(m) ELSE bill[m])
        BY <1>0, <3>1, <3>3 DEF BillOK, Holding
      <4>2. Recorded(m)' = IF bill[m] = None THEN Recorded(m) ELSE bill[m]
        BY <1>1, <3>1, <3>3 DEF Recorded
      <4>3. /\ CostAtMost(view[m].others, Total(Node \ {m})')
            /\ Total(Node \ {m})' \in NodeCost
        <5>1. CostAtMost(view[m].others, Total(Node \ {m})')
          BY <1>0, <2>0, <3>1, <4>1, ReblockGrows
        <5>2. Node \ {m} \in SUBSET Node /\ \A k \in Node \ {m} : cost'[k] = cost[k]
          BY <1>1, <3>1, <3>3
        <5>3. Total(Node \ {m})' = Total(Node \ {m}) /\ Total(Node \ {m}) \in NodeCost
          BY <5>2, TotalStays, TotalFacts
        <5> QED
          BY <5>1, <5>3
      <4>4. Recorded(m)' \in NodeCost /\ CostAtMost(Recorded(m)', Recorded(m)')
        BY <1>1, <4>2, TotalFacts, CostOrder
      <4>5. Exceeded(LimitsOf[m], Total(Node \ {m})', Recorded(m)')
        BY <4>1, <4>2, <4>3, <4>4, ExceededIsMonotone
      <4>6. exec'[m] = "pausing"
        BY <1>1, <3>1, <3>3
      <4> QED
        BY <3>1, <4>3, <4>5, <4>6 DEF ReblockOK
    <3> QED
      BY <3>2, <3>3
  <2> QED
    BY <1>3, <2>2, <2>3, <2>4, <2>5, <2>6, <2>7, StepShape DEF Writes
<1> QED
  BY <1>2, <1>3

(* A blocked node's ledger stays exhausted. *)
LEMMA ReblockSafe == BudgetSpec => []ReblockInv
<1>1. BudgetInit => ReblockInv
  BY DEF BudgetInit, Init, ReblockInv, ReblockOK
<1> QED
  BY <1>1, ReblockKept, BillSafe, LedgerSafe, BudgetIsEngine, TypeSafe, RunSafe, NodesSafe,
     LiveRowsSafe, PTL DEF BudgetSpec

(* Without faults, a resume blocks a node that exhausted its budget again  *)
(* before it works, whatever other nodes did in the meantime: the pre-gate *)
(* sees at least what exceeded the ceiling.                                *)
THEOREM BlockedStaysBlocked == BudgetSpec => ReblockSpendsNothing
<1>1. ASSUME TypeOK, NodeInv, LedgerInv, ReblockInv, [BudgetNext]_budgetVars, Sound, NEW n \in Node
      PROVE  ~StartsBlocked(n)
  <2> SUFFICES ASSUME n \in blocked, exec[n] = "gate", exec'[n] \in {"working", "parking"}
               PROVE  FALSE
    BY DEF StartsBlocked
  <2>1. exec \in [Node -> ExecPc] /\ ReblockOK(n)
    BY <1>1 DEF TypeOK, ReblockInv
  <2>2. CASE Quiet
    <3>1. view[n] # None /\ ~Exhausted(n)
      BY <2>2 DEF Quiet, MovesQuietly, Started
    <3> QED
      BY <2>1, <3>1 DEF ReblockOK
  <2>3. CASE Ends
    BY <2>3 DEF Ends
  <2>4. ASSUME NEW k \in Node, Writes(k) PROVE FALSE
    BY <2>1, <2>4 DEF Writes, Reads, Completes, Blocks, Retries, Resets, Forgets, Banks, Bills, Alone
  <2> QED
    BY <1>1, <2>2, <2>3, <2>4, StepShape
<1>2. TypeOK /\ NodeInv /\ LedgerInv /\ ReblockInv /\ [BudgetNext]_budgetVars
        => (Sound => \A n \in Node : ~StartsBlocked(n))
  BY <1>1
<1> QED
  BY <1>2, ReblockSafe, LedgerSafe, BudgetIsEngine, TypeSafe, NodesSafe, PTL
     DEF BudgetSpec, ReblockSpendsNothing

----------------------------------------------------------------------------
(* The envelope *)

(* The strengthening that makes NoSilentOverrun inductive: what an attempt *)
(* read of the other nodes is what their rows hold, and a run whose nodes  *)
(* all completed is within its envelope.                                   *)
ViewsFresh == \A n \in Node : view[n] # None => view[n].others = Total(Node \ {n})
DoneWithin == (\A n \in Node : nodeState[n] = "completed") => ~Exceeded(Envelope, ZeroCost, Total(Node))

OverrunInv == (Concurrency = 1 /\ misses = 0) => ViewsFresh /\ DoneWithin

(* In a wave of one, one future is in flight. *)
LEMMA OneInFlight ==
    ASSUME Concurrency = 1, WaveBound, NEW m \in Inflight, NEW n \in Inflight PROVE m = n
<1> SUFFICES ASSUME m # n PROVE FALSE
  OBVIOUS
<1>1. Inflight \in SUBSET Node /\ IsFiniteSet(Inflight)
  BY GraphAssumption, FS_Subset DEF Inflight
<1>2. IsFiniteSet({m}) /\ Cardinality({m}) = 1
  BY FS_Singleton
<1>3. Cardinality({m} \cup {n}) = 2
  BY <1>2, FS_AddElement
<1>4. {m} \cup {n} \in SUBSET Inflight
  OBVIOUS
<1>5. Cardinality({m} \cup {n}) <= Cardinality(Inflight) /\ Cardinality(Inflight) \in Nat
  BY <1>1, <1>4, FS_Subset, FS_CardinalityType
<1> QED
  BY <1>3, <1>5 DEF WaveBound

(* A node within its ceilings leaves the whole workflow within its envelope. *)
LEMMA EnvelopeIsShared ==
    ASSUME NEW n \in Node, NEW o \in NodeCost, NEW c \in NodeCost,
           Exceeded(Envelope, ZeroCost, AddCost(c, o))
    PROVE  Exceeded(LimitsOf[n], o, c)
<1>1. PICK i \in DOMAIN ChargeOrder :
         Over(Used(ChargeOrder[i], ZeroCost, AddCost(c, o)), Envelope[ChargeOrder[i]])
  BY DEF Exceeded, Breaches
<1>2. ChargeOrder[i] \in Ceiling
  BY DEF ChargeOrder, Ceiling
<1>3. ChargeOrder[i] \in {"flowWall", "flowMicros"} /\ Envelope[ChargeOrder[i]] = LimitsOf[n][ChargeOrder[i]]
  <2>1. ChargeOrder[i] \in {"flowWall", "flowMicros"}
    BY <1>1, <1>2 DEF Envelope, Over
  <2>2. ChargeOrder[i] \in Ceiling \ NodeCeiling
    BY <1>2, <2>1 DEF NodeCeiling
  <2>3. (CHOOSE k \in Node : TRUE) \in Node
    OBVIOUS
  <2>4. Envelope[ChargeOrder[i]] = LimitsOf[CHOOSE k \in Node : TRUE][ChargeOrder[i]]
    BY <1>2, <2>1 DEF Envelope
  <2> QED
    BY <2>1, <2>2, <2>3, <2>4, EnvelopeAssumption
<1>4. AddCost(c, o) \in NodeCost /\ AddCost(ZeroCost, AddCost(c, o)) = AddCost(o, c)
  BY AddCostFacts, AddCostReorders, CostOrder
<1>5. Used(ChargeOrder[i], ZeroCost, AddCost(c, o)) = Used(ChargeOrder[i], o, c)
  BY <1>3, <1>4 DEF Used
<1>6. i \in Breaches(LimitsOf[n], o, c)
  BY <1>1, <1>3, <1>5 DEF Breaches
<1> QED
  BY <1>6 DEF Exceeded

(* In a wave of one nobody writes a row while another node holds a view.   *)
LEMMA ViewsStayFresh ==
    ASSUME Concurrency = 1, TypeOK, RunInv, NodeInv, WaveBound, LedgerInv, LedgerInv', ViewsFresh,
           [BudgetNext]_budgetVars
    PROVE  ViewsFresh'
<1> SUFFICES ASSUME NEW m \in Node, view'[m] # None
             PROVE  view'[m].others = Total(Node \ {m})'
  BY DEF ViewsFresh
<1>1. /\ view = [n \in Node |-> view[n]] /\ exec \in [Node -> ExecPc]
      /\ cost \in [Node -> NodeCost \cup {None}] /\ bill \in [Node -> NodeCost \cup {None}]
      /\ view[m] # None => exec[m] # "idle"
  BY DEF LedgerInv, TypeOK
<1>2. Node \ {m} \in SUBSET Node
  OBVIOUS
<1>3. ASSUME view'[m] = view[m], \A k \in Node \ {m} : cost'[k] = cost[k]
      PROVE  view'[m].others = Total(Node \ {m})'
  BY <1>2, <1>3, TotalStays DEF ViewsFresh
<1>4. CASE Quiet \/ Ends
  BY <1>3, <1>4 DEF Quiet, Ends, ledger
<1>5. ASSUME NEW n \in Node, Reads(n) PROVE view'[m].others = Total(Node \ {m})'
  <2>1. PICK l \in BudgetLimits :
          view' = [view EXCEPT ![n] = [limits |-> l, others |-> Total(Node \ {n}),
                                       prior |-> Recorded(n)]]
    BY <1>5 DEF Reads
  <2>2. UNCHANGED cost
    BY <1>5 DEF Reads
  <2>3. CASE m # n
    BY <1>1, <1>3, <2>1, <2>2, <2>3
  <2>4. CASE m = n
    <3>1. view'[m].others = Total(Node \ {m})
      BY <1>1, <2>1, <2>4
    <3>2. Total(Node \ {m})' = Total(Node \ {m})
      BY <1>2, <2>2, TotalStays
    <3> QED
      BY <3>1, <3>2
  <2> QED
    BY <2>3, <2>4
<1>6. ASSUME NEW n \in Node,
             Completes(n) \/ Blocks(n) \/ \E d \in NodeCost : Banks(n, d) \/ Bills(n, d)
      PROVE  view'[m].others = Total(Node \ {m})'
  <2>1. /\ exec[n] # "idle" /\ UNCHANGED view
        /\ \A k \in Node \ {n} : cost'[k] = cost[k]
    BY <1>1, <1>6 DEF Completes, Blocks, Banks, Bills, Started
  <2>2. m = n
    BY <1>1, <2>1, OneInFlight DEF Inflight
  <2> QED
    BY <1>3, <2>1, <2>2
<1>7. ASSUME NEW n \in Node, Retries(n) PROVE view'[m].others = Total(Node \ {m})'
  BY <1>1, <1>3, <1>7 DEF Retries
<1>8. ASSUME NEW n \in Node, Resets(n) \/ Forgets(n) PROVE FALSE
  <2>1. exec[m] = "idle" /\ UNCHANGED view
    BY <1>8 DEF Resets, Forgets, RunInv, NoOrphanFuture, Inflight
  <2> QED
    BY <1>1, <2>1
<1> QED
  BY <1>4, <1>5, <1>6, <1>7, <1>8, StepShape DEF Writes

(* The last node to complete sees what all others spent. *)
LEMMA DoneStaysWithin ==
    ASSUME misses = 0, TypeOK, RunInv, NodeInv, LedgerInv, LedgerInv', BillInv, ViewsFresh, DoneWithin,
           [BudgetNext]_budgetVars
    PROVE  DoneWithin'
<1> SUFFICES ASSUME \A k \in Node : nodeState'[k] = "completed"
             PROVE  ~Exceeded(Envelope, ZeroCost, Total(Node)')
  BY DEF DoneWithin, Envelope
<1>1. /\ nodeState \in [Node -> NodeState] /\ exec \in [Node -> ExecPc]
      /\ cost \in [Node -> NodeCost \cup {None}] /\ bill \in [Node -> NodeCost \cup {None}]
      /\ cost' \in [Node -> NodeCost \cup {None}]
  BY DEF LedgerInv, TypeOK
<1>2. ASSUME \A k \in Node : nodeState[k] = "completed", UNCHANGED cost
      PROVE  ~Exceeded(Envelope, ZeroCost, Total(Node)')
  <2>1. Total(Node)' = Total(Node)
    BY <1>2, TotalStays
  <2> QED
    BY <1>2, <2>1 DEF DoneWithin
<1>3. CASE Quiet \/ Ends
  BY <1>2, <1>3 DEF Quiet, Ends, ledger
<1>4. ASSUME NEW n \in Node, Reads(n) \/ \E d \in NodeCost : Bills(n, d)
      PROVE  ~Exceeded(Envelope, ZeroCost, Total(Node)')
  BY <1>2, <1>4 DEF Reads, Bills
<1>5. ASSUME NEW n \in Node, NEW d \in NodeCost, Banks(n, d) PROVE FALSE
  <2>1. exec[n] \in Started /\ nodeState[n] = "completed"
    BY <1>5 DEF Banks
  <2>2. n \in Executing
    BY <2>1 DEF Executing, Started
  <2> QED
    BY <2>1, <2>2 DEF NodeInv
<1>6. ASSUME NEW n \in Node, Completes(n) PROVE ~Exceeded(Envelope, ZeroCost, Total(Node)')
  <2>1. /\ exec[n] = "completed" /\ cost' = [cost EXCEPT ![n] = bill[n]]
        /\ nodeState' = [nodeState EXCEPT ![n] = "completed"]
    BY <1>6 DEF Completes
  <2>2. /\ view[n] # None /\ view[n].limits = LimitsOf[n] /\ view[n].others \in NodeCost
        /\ bill[n] \in NodeCost /\ ~Exceeded(LimitsOf[n], view[n].others, bill[n])
    BY <1>1, <2>1 DEF BillInv, BillOK
  <2>3. Node \ {n} \in SUBSET Node /\ \A k \in Node \ {n} : cost'[k] = cost[k]
    BY <1>1, <2>1
  <2>4. Total(Node \ {n})' = view[n].others
    BY <2>2, <2>3, TotalStays DEF ViewsFresh
  <2>5. Total(Node)' = AddCost(bill[n], Total(Node \ {n})')
    <3>1. /\ \A k \in Node : RecordsOf(cost')[k] \in NodeCost
          /\ RecordsOf(cost')[n] = bill[n]
      BY <1>1, <2>1, <2>2, RecordType, NoneAssumption DEF RecordsOf
    <3>2. SumOf(RecordsOf(cost'), Node) = AddCost(bill[n], SumOf(RecordsOf(cost'), Node \ {n}))
      BY <3>1, GraphAssumption, SumOfFacts
    <3> QED
      BY <2>3, <3>2, TotalIsSum
  <2> QED
    BY <2>2, <2>4, <2>5, EnvelopeIsShared
<1>7. ASSUME NEW n \in Node, Blocks(n) \/ Retries(n) \/ Resets(n) PROVE FALSE
  <2>1. nodeState' = [nodeState EXCEPT ![n] = nodeState'[n]] /\ nodeState'[n] # "completed"
    BY <1>1, <1>7 DEF Blocks, Retries, Resets
  <2> QED
    BY <2>1
<1>8. ASSUME NEW n \in Node, Forgets(n) PROVE FALSE
  <2>1. n \in Downstream(n)
    BY DEF Downstream
  <2> QED
    BY <1>8, <2>1 DEF Forgets
<1> QED
  BY <1>3, <1>4, <1>5, <1>6, <1>7, <1>8, StepShape DEF Writes

(* The exact sum of what nodes spent, as a fold over the sets of nodes. *)
SpentSums(H) ==
    H = [s \in SUBSET Node |-> IF s = {} THEN NoSpend ELSE Spend(spent[Pick(s)], H[s \ {Pick(s)}])]

(* It exists: sets of at most k nodes have one, for every k. *)
LEMMA SpentSumExists == \E H : SpentSums(H)
<1> DEFINE D(k) == {s \in SUBSET Node : Cardinality(s) <= k}
           Good(G, k) == G = [s \in D(k) |-> IF s = {} THEN NoSpend
                                             ELSE Spend(spent[Pick(s)], G[s \ {Pick(s)}])]
           T == {k \in Nat : ~\E G : Good(G, k)}
<1>1. \A s \in SUBSET Node : IsFiniteSet(s) /\ Cardinality(s) \in Nat /\ (Cardinality(s) = 0 => s = {})
  BY GraphAssumption, FS_Subset, FS_CardinalityType, FS_EmptySet
<1>2. T = {}
  <2> SUFFICES ASSUME T # {} PROVE FALSE
    OBVIOUS
  <2>1. PICK k \in T : \A j \in T : k <= j
    BY LeastNumber
  <2>2. k \in Nat /\ ~\E G : Good(G, k)
    OBVIOUS
  <2>3. CASE k = 0
    <3> DEFINE G == [s \in D(k) |-> NoSpend]
    <3>1. \A s \in D(k) : s = {}
      BY <1>1, <2>3
    <3>2. Good(G, k)
      BY <3>1
    <3> QED
      BY <2>2, <3>2
  <2>4. CASE k # 0
    <3>1. k - 1 \in Nat /\ k - 1 \notin T
      <4> HIDE DEF T
      <4>1. k \in Nat /\ k - 1 \in Nat /\ k - 1 < k
        BY <2>2, <2>4
      <4> QED
        BY <2>1, <4>1
    <3>2. PICK G : Good(G, k - 1)
      BY <3>1
    <3> DEFINE H == [s \in D(k) |-> IF s = {} THEN NoSpend
                                    ELSE Spend(spent[Pick(s)], G[s \ {Pick(s)}])]
    <3>3. ASSUME NEW s \in D(k), s # {}
          PROVE  s \ {Pick(s)} \in D(k - 1)
      <4>1. Pick(s) \in s
        BY <3>3 DEF Pick
      <4>2. Cardinality(s \ {Pick(s)}) = Cardinality(s) - 1
        BY <1>1, <4>1, FS_RemoveElement
      <4> QED
        BY <1>1, <2>2, <4>2
    <3>4. D(k - 1) \subseteq D(k)
      BY <1>1, <2>2
    <3>5. \A s \in D(k - 1) : H[s] = G[s]
      BY <3>2, <3>4
    <3>6. Good(H, k)
      BY <3>3, <3>5
    <3> QED
      BY <2>2, <3>6
  <2> QED
    BY <2>3, <2>4
<1>3. Cardinality(Node) \in Nat /\ D(Cardinality(Node)) = SUBSET Node
  BY GraphAssumption, FS_CardinalityType, FS_Subset
<1>4. \E G : Good(G, Cardinality(Node))
  BY <1>2, <1>3
<1> QED
  BY <1>3, <1>4 DEF SpentSums

(* AllSpent is that sum. *)
LEMMA AllSpentIsSum == \E H : SpentSums(H) /\ AllSpent = H[Node]
<1> DEFINE IsFold(G) == G = [s \in SUBSET Node |->
              IF s = {} THEN NoSpend ELSE Spend(spent[Pick(s)], G[s \ {Pick(s)}])]
<1>1. AllSpent = (CHOOSE G : IsFold(G))[Node]
  BY DEF AllSpent, MapThenFoldSet, Pick
<1>2. \E G : IsFold(G)
  BY SpentSumExists DEF SpentSums
<1>3. IsFold(CHOOSE G : IsFold(G))
  BY <1>2
<1> QED
  BY <1>1, <1>3 DEF SpentSums

(* Two accounts added account for what both spent. *)
LEMMA AccountsAdd ==
    ASSUME NEW p \in NodeCost, NEW q \in NodeCost, NEW s \in Spending, NEW t \in Spending,
           Spend(NoSpend, p) = Saturated(s), Spend(NoSpend, q) = Saturated(t)
    PROVE  Spend(s, t) \in Spending /\ Spend(NoSpend, AddCost(p, q)) = Saturated(Spend(s, t))
<1>1. /\ p.wall \in U64 /\ p.calls \in U64 /\ p.micros \in Optional
      /\ q.wall \in U64 /\ q.calls \in U64 /\ q.micros \in Optional
      /\ s.wall \in Nat /\ s.calls \in Nat /\ s.micros \in Nat
      /\ t.wall \in Nat /\ t.calls \in Nat /\ t.micros \in Nat
  BY DEF NodeCost, Spending
<1>2. /\ p.wall = Cap(s.wall) /\ p.calls = Cap(s.calls) /\ OrZero(p.micros) = Cap(s.micros)
      /\ q.wall = Cap(t.wall) /\ q.calls = Cap(t.calls) /\ OrZero(q.micros) = Cap(t.micros)
  BY AccountsFor
<1>3. AddCost(p, q) \in NodeCost
  BY AddCostFacts
<1>4. Spend(s, t) = [wall |-> s.wall + t.wall, calls |-> s.calls + t.calls,
                     micros |-> s.micros + t.micros]
  BY <1>1, NumberAssumption DEF Spend
<1>5. Spend(s, t) \in Spending
  BY <1>1, <1>4 DEF Spending
<1>6. \A x, y \in Nat : SaturatingAdd(Cap(x), Cap(y)) = Cap(x + y)
  BY NumberAssumption DEF Cap, SaturatingAdd
<1>7. /\ AddCost(p, q).wall = Cap(Spend(s, t).wall)
      /\ AddCost(p, q).calls = Cap(Spend(s, t).calls)
  BY <1>1, <1>2, <1>4, <1>6 DEF AddCost
<1>8. OrZero(AddMeasured(p.micros, q.micros)) = SaturatingAdd(OrZero(p.micros), OrZero(q.micros))
  BY <1>1, NumberAssumption DEF OrZero, AddMeasured, SaturatingAdd, Optional, U64
<1>9. OrZero(AddCost(p, q).micros) = Cap(Spend(s, t).micros)
  BY <1>1, <1>2, <1>4, <1>6, <1>8 DEF AddCost
<1> QED
  BY <1>3, <1>5, <1>7, <1>9, AccountsFor

(* When every row accounts for its node, their total accounts for all. *)
LEMMA TotalAccounts ==
    ASSUME LedgerInv, \A n \in Node : Spend(NoSpend, Recorded(n)) = Saturated(spent[n])
    PROVE  /\ AllSpent \in Spending /\ Total(Node) \in NodeCost
           /\ Spend(NoSpend, Total(Node)) = Saturated(AllSpent)
<1>1. PICK H : SpentSums(H) /\ AllSpent = H[Node]
  BY AllSpentIsSum
<1>2. spent \in [Node -> Spending] /\ NoSpend \in Spending /\ ZeroCost \in NodeCost
  BY ZeroIsBelow DEF LedgerInv, NoSpend, Spending
<1>3. Spend(NoSpend, ZeroCost) = Saturated(NoSpend)
  BY <1>2, AccountsFor, NumberAssumption DEF ZeroCost, NoSpend, OrZero, Cap
<1> DEFINE P == {s \in SUBSET Node : H[s] \in Spending /\ Spend(NoSpend, Total(s)) = Saturated(H[s])}
<1>4. ASSUME NEW s \in SUBSET Node, \A t \in SUBSET s : t # s => t \in P PROVE s \in P
  <2>1. H[s] = IF s = {} THEN NoSpend ELSE Spend(spent[Pick(s)], H[s \ {Pick(s)}])
    BY <1>1 DEF SpentSums
  <2>2. CASE s = {}
    BY <1>2, <1>3, <2>1, <2>2, TotalFacts
  <2>3. CASE s # {}
    <3>1. Pick(s) \in s /\ s \ {Pick(s)} \in P
      BY <1>4, <2>3 DEF Pick
    <3>2. /\ Total(s) = AddCost(Recorded(Pick(s)), Total(s \ {Pick(s)}))
          /\ Recorded(Pick(s)) \in NodeCost /\ Total(s \ {Pick(s)}) \in NodeCost
      BY <3>1, TotalFacts
    <3>3. /\ spent[Pick(s)] \in Spending /\ Spend(NoSpend, Recorded(Pick(s))) = Saturated(spent[Pick(s)])
          /\ H[s \ {Pick(s)}] \in Spending
          /\ Spend(NoSpend, Total(s \ {Pick(s)})) = Saturated(H[s \ {Pick(s)}])
      BY <1>2, <3>1
    <3> QED
      BY <2>1, <2>3, <3>2, <3>3, AccountsAdd
  <2> QED
    BY <2>2, <2>3
<1> HIDE DEF P
<1>5. \A s \in SUBSET Node : s \in P
  BY <1>4, GraphAssumption, SubsetInduction
<1>6. Node \in P
  BY <1>5
<1> QED
  BY <1>1, <1>6, TotalFacts DEF P

(* A total within the envelope hides no overrun of it. *)
LEMMA WithinMeansWithin ==
    ASSUME NEW c \in NodeCost, AllSpent \in Spending, Spend(NoSpend, c) = Saturated(AllSpent),
           ~Exceeded(Envelope, ZeroCost, c)
    PROVE  ~Overspent
<1>1. /\ c.wall = Cap(AllSpent.wall) /\ OrZero(c.micros) = Cap(AllSpent.micros)
      /\ AllSpent.wall \in Nat /\ AllSpent.micros \in Nat
      /\ c.wall \in U64 /\ c.micros \in Optional
  BY AccountsFor DEF Spending, NodeCost
<1>2. Envelope["flowWall"] \in Optional /\ Envelope["flowMicros"] \in Optional
  <2>1. CASE Node # {}
    BY <2>1, BudgetAssumption DEF Envelope, Ceiling, BudgetLimits
  <2>2. CASE Node = {}
    BY <2>2 DEF Envelope, Ceiling, Optional
  <2> QED
    BY <2>1, <2>2
<1>3. AddCost(ZeroCost, c) = c
  BY CostOrder
<1>4. ~Over(c.wall, Envelope["flowWall"]) /\ ~Over(c.micros, Envelope["flowMicros"])
  <2>1. 4 \in DOMAIN ChargeOrder /\ 5 \in DOMAIN ChargeOrder
        /\ ChargeOrder[4] = "flowWall" /\ ChargeOrder[5] = "flowMicros"
    BY DEF ChargeOrder
  <2>2. Used("flowWall", ZeroCost, c) = c.wall /\ Used("flowMicros", ZeroCost, c) = c.micros
    BY <1>3 DEF Used
  <2> QED
    BY <2>1, <2>2 DEF Exceeded, Breaches
<1>5. ~(Envelope["flowWall"] # MaxU /\ Over(AllSpent.wall, Envelope["flowWall"]))
  BY <1>1, <1>2, <1>4, NumberAssumption DEF Over, Cap, U64, Optional
<1>6. ~(Envelope["flowMicros"] # MaxU /\ Over(AllSpent.micros, Envelope["flowMicros"]))
  BY <1>1, <1>2, <1>4, NumberAssumption DEF Over, Cap, U64, Optional, OrZero
<1> QED
  BY <1>5, <1>6 DEF Overspent

(* A workflow that runs one node at a time, meets no fault and completes   *)
(* has really spent no more than its envelope, over resumes and retries:   *)
(* the last node to complete was charged with everything the rows hold,    *)
(* and the rows hold every attempt.                                        *)
THEOREM EnvelopeHolds == BudgetSpec => []NoSilentOverrun
<1>1. BudgetInit => OverrunInv
  <2> SUFFICES ASSUME BudgetInit PROVE ViewsFresh /\ DoneWithin
    BY DEF OverrunInv
  <2>1. ViewsFresh
    BY DEF BudgetInit, ViewsFresh
  <2>2. CASE Node # {}
    BY <2>1, <2>2 DEF BudgetInit, Init, DoneWithin
  <2>3. CASE Node = {}
    <3>1. \A i \in DOMAIN ChargeOrder : Envelope[ChargeOrder[i]] = None
      BY <2>3 DEF Envelope, ChargeOrder, Ceiling
    <3>2. ~Exceeded(Envelope, ZeroCost, Total(Node))
      BY <3>1 DEF Exceeded, Breaches, Over
    <3> QED
      BY <2>1, <3>2 DEF DoneWithin
  <2> QED
    BY <2>2, <2>3
<1>2. TypeOK /\ RunInv /\ NodeInv /\ WaveBound /\ LedgerInv /\ LedgerInv' /\ BillInv /\ OverrunInv
        /\ [BudgetNext]_budgetVars => OverrunInv'
  BY ViewsStayFresh, DoneStaysWithin, MissesRemembered DEF OverrunInv, BillInv
<1>3. ASSUME TypeOK, RunInv, NodeInv, LedgerInv, ChargedInv, OverrunInv PROVE NoSilentOverrun
  <2> SUFFICES ASSUME Sound, Concurrency = 1, runState = "completed" PROVE ~Overspent
    BY DEF NoSilentOverrun
  <2>1. ~Exceeded(Envelope, ZeroCost, Total(Node)) /\ \A n \in Node : nodeState[n] = "completed"
    BY <1>3 DEF Sound, RunInv, CompletedRunIsDone, OverrunInv, DoneWithin
  <2>2. \A n \in Node : exec[n] \notin {"completed", "blocked"}
    BY <1>3, <2>1 DEF NodeInv, Executing
  <2>3. \A n \in Node : Spend(NoSpend, Recorded(n)) = Saturated(spent[n])
    BY <1>3, <2>2 DEF ChargedInv, Held
  <2> QED
    BY <1>3, <2>1, <2>3, TotalAccounts, WithinMeansWithin
<1> QED
  BY <1>1, <1>2, <1>3, ChargedSafe, BillSafe, LedgerSafe, BudgetIsEngine, TypeSafe, RunSafe, NodesSafe, WaveSafe,
     PTL DEF BudgetSpec
=============================================================================
