---------------------------- MODULE BudgetCharge ----------------------------
(***************************************************************************)
(* The pure accounting of crates/workflow/src/budget.rs: what a node cost, *)
(* how costs add up, and the verdict of charging a node against its own    *)
(* slice and the workflow's envelope.  Tokens are recorded and never       *)
(* charged, so they are left out; so is the text of a block reason.        *)
(***************************************************************************)
EXTENDS Naturals, Sequences

CONSTANTS MaxU,   \* the largest u64
          None    \* an absent ceiling, an unmeasured spend

ASSUME NumberAssumption == MaxU \in Nat \ {0} /\ None \notin Nat

U64 == 0..MaxU
Optional == U64 \cup {None}

(* NodeCost: wall time and tool calls are always measured, the model spend *)
(* only when the run reported usage.                                       *)
NodeCost == [wall : U64, calls : U64, micros : Optional]
ZeroCost == [wall |-> 0, calls |-> 0, micros |-> None]

(* Fault: the sum wraps. *)
WrappingAdd(x, y) == (x + y) % (MaxU + 1)

SaturatingAdd(x, y) == IF x + y > MaxU THEN MaxU ELSE x + y
SaturatingMul(x, y) == IF x * y > MaxU THEN MaxU ELSE x * y

(* add_measured_cost: two unmeasured spends stay unmeasured. *)
AddMeasured(x, y) == IF x = None THEN y
                     ELSE IF y = None THEN x
                     ELSE SaturatingAdd(x, y)

AddCost(a, b) == [wall   |-> SaturatingAdd(a.wall, b.wall),
                  calls  |-> SaturatingAdd(a.calls, b.calls),
                  micros |-> AddMeasured(a.micros, b.micros)]

(* BudgetLimits: every ceiling is optional. *)
Ceiling == {"nodeWall", "nodeCalls", "nodeMicros", "flowWall", "flowMicros"}
BudgetLimits == [Ceiling -> Optional]

ASSUME NoneAssumption == None \notin Ceiling /\ None \notin NodeCost

(* A node without a role has no slice; an unreadable manifest no envelope. *)
NodeCeiling == {"nodeWall", "nodeCalls", "nodeMicros"}
WithoutEnvelope(limits) == [x \in Ceiling |-> IF x \in NodeCeiling THEN limits[x] ELSE None]

(* check: a ceiling is exceeded when more was used than it allows ... *)
Over(used, limit) == used # None /\ limit # None /\ used > limit

(* Fault: the line itself does not warn. *)
WarnsPast(used, limit) ==
    /\ used # None /\ limit # None /\ used > 0
    /\ SaturatingMul(used, 5) > SaturatingMul(limit, 4)

(* ... and warns from four fifths on, computed without division. *)
Warns(used, limit) ==
    /\ used # None /\ limit # None /\ used > 0
    /\ SaturatingMul(used, 5) >= SaturatingMul(limit, 4)

(* Fault: the envelope sees the node alone. *)
UsedAlone(x, others, cost) ==
    CASE x \in {"nodeWall", "flowWall"} -> cost.wall
      [] x = "nodeCalls"                -> cost.calls
      [] x \in {"nodeMicros", "flowMicros"} -> cost.micros

(* What is charged against each ceiling: the node's own cost against its   *)
(* slice, all nodes' cost against the envelope.                            *)
Used(x, others, cost) ==
    CASE x = "nodeWall"   -> cost.wall
      [] x = "nodeCalls"  -> cost.calls
      [] x = "nodeMicros" -> cost.micros
      [] x = "flowWall"   -> AddCost(others, cost).wall
      [] x = "flowMicros" -> AddCost(others, cost).micros

(* charge looks at the ceilings in this order. *)
ChargeOrder == <<"nodeWall", "nodeCalls", "nodeMicros", "flowWall", "flowMicros">>

Breaches(limits, others, cost) ==
    {i \in DOMAIN ChargeOrder :
        Over(Used(ChargeOrder[i], others, cost), limits[ChargeOrder[i]])}

Exceeded(limits, others, cost) == Breaches(limits, others, cost) # {}

(* The verdict: the first breach, or the ceilings that warn. *)
Charge(limits, others, cost) ==
    IF Exceeded(limits, others, cost)
    THEN [exceeded |-> ChargeOrder[CHOOSE i \in Breaches(limits, others, cost) :
                                      \A j \in Breaches(limits, others, cost) : i <= j],
          warnings |-> {}]
    ELSE [exceeded |-> None,
          warnings |-> {x \in Ceiling : Warns(Used(x, others, cost), limits[x])}]

(* One cost is at most another; an unmeasured spend is below any. *)
AtMost(x, y) == x = None \/ (y # None /\ x <= y)
CostAtMost(a, b) == a.wall <= b.wall /\ a.calls <= b.calls /\ AtMost(a.micros, b.micros)

----------------------------------------------------------------------------
OrZero(x) == IF x = None THEN 0 ELSE x

(* What was really used, with unbounded sums. *)
Exact(x, others, cost) ==
    CASE x = "nodeWall"   -> cost.wall
      [] x = "nodeCalls"  -> cost.calls
      [] x = "nodeMicros" -> OrZero(cost.micros)
      [] x = "flowWall"   -> others.wall + cost.wall
      [] x = "flowMicros" -> OrZero(others.micros) + OrZero(cost.micros)

ExactlyOver(x, limits, others, cost) ==
    limits[x] # None /\ Exact(x, others, cost) > limits[x]

(* The verdict against exact sums: the breach it names is a real one with  *)
(* none before it, or there is none.                                       *)
BreachIsExact(limits, others, cost) ==
    LET named == Charge(limits, others, cost).exceeded
    IN  IF named = None
        THEN \A x \in Ceiling : ~ExactlyOver(x, limits, others, cost)
        ELSE \E i \in DOMAIN ChargeOrder :
                /\ named = ChargeOrder[i]
                /\ ExactlyOver(named, limits, others, cost)
                /\ \A j \in 1..(i - 1) : ~ExactlyOver(ChargeOrder[j], limits, others, cost)

(* It warns of exactly the ceilings of which four fifths are used. *)
WarningIsExact(limits, others, cost) ==
    Charge(limits, others, cost).warnings =
        {x \in Ceiling : /\ limits[x] # None
                         /\ Exact(x, others, cost) > 0
                         /\ 5 * Exact(x, others, cost) >= 4 * limits[x]}
=============================================================================
