SPECIFICATION Spec
CONSTANTS
  a = a
  b = b
  c = c
  Node = {a, b}
  AgentNode = {a}
  DependsOn <- NoEdges
  MaxAttempts = 2
  Concurrency = 1
  Client = {k1, k2}
  MaxCommands = 2
  MaxCrashes = 1
  MaxDbErrors = 0
  MayUpgrade = TRUE
INVARIANT WaveBound
INVARIANT NoStrandedRun
PROPERTY CompletedNodesStay
PROPERTY AttemptsOnlyGrow
PROPERTY CancelDrains
PROPERTY RunComesToRest
CHECK_DEADLOCK FALSE
