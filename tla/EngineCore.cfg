SPECIFICATION SafetySpec
CONSTANTS
  a = a
  b = b
  c = c
  Node = {a, b, c}
  AgentNode = {a}
  DependsOn <- ChainAndSide
  MaxAttempts = 2
  Concurrency = 2
  Client = {k1}
  MaxCommands = 2
  MaxCrashes = 0
  MaxDbErrors = 1
  MayUpgrade = FALSE
INVARIANT TypeOK
INVARIANT CompletedRunIsDone
INVARIANT DependencyOrder
INVARIANT NoOrphanFuture
INVARIANT SettledRunHasNoLiveNode
PROPERTY AcceptedCommandSticks
PROPERTY NoEffectAfterCancel
CHECK_DEADLOCK FALSE
