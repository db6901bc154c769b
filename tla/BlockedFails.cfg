SPECIFICATION Spec
CONSTANTS
  a = a
  b = b
  c = c
  Node = {a, b}
  AgentNode = {a}
  DependsOn <- NoEdges
  MaxAttempts = 1
  Concurrency = 2
  Client = {k1}
  MaxCommands = 1
  MaxCrashes = 0
  MaxDbErrors = 0
  MayUpgrade = FALSE
INVARIANT BlockedNodeKeepsRunAlive
CHECK_DEADLOCK FALSE
