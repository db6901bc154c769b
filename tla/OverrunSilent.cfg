SPECIFICATION BudgetSpec
CONSTANTS
  a = a
  b = b
  Node = {a, b}
  AgentNode = {a}
  DependsOn <- NoEdges
  MaxAttempts = 2
  Concurrency = 2
  Client = {k1}
  MaxCommands = 0
  MaxCrashes = 1
  MaxDbErrors = 0
  MayUpgrade = FALSE
  MaxU = 20
  None = None
  LimitsOf <- Limits
  AttemptCost <- Attempts
  MaxMisses = 0
INVARIANT OverrunNeverSilent
CHECK_DEADLOCK FALSE
