SPECIFICATION Spec
CONSTANTS
  MaxAsks = 2
  MaxWorkers = 2
  MaxCommands = 2
  MaxCrashes = 1
INVARIANT OneWorker
INVARIANT DecisionAgrees
INVARIANT EvidenceAgrees
INVARIANT EffectsOfOneWorker
PROPERTY EndIsFinal
PROPERTY AnswerReachesWorker
PROPERTY CancelCompletes
CHECK_DEADLOCK FALSE
