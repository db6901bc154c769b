SPECIFICATION BudgetSpec
CONSTANTS
  a = a
  b = b
  Node = {a, b}
  AgentNode = {a}
  DependsOn <- NoEdges
  MaxAttempts = 2
  Concurrency = 1
  Client = {k1}
  MaxCommands = 1
  MaxCrashes = 1
  MaxDbErrors = 1
  MayUpgrade = TRUE
  MaxU = 20
  None = None
  LimitsOf <- Limits
  AttemptCost <- Attempts
  MaxMisses = 1
INVARIANT LedgerIsAFloor
INVARIANT ChargeIsExact
INVARIANT WarnsAtFourFifths
INVARIANT EveryAttemptCharged
INVARIANT NoSilentOverrun
PROPERTY BankedSpendStays
PROPERTY ReblockSpendsNothing
CHECK_DEADLOCK FALSE
