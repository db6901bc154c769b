SPECIFICATION SafetySpec
CONSTANTS
  None = None
  Receipt = {push}
  Event = {push}
  Sweeper = {s1}
  Handler = {h1}
  MaxAttempts = 2
  SkipsOverlap = FALSE
  MaxFaults = 1
  MaxToggles = 0
INVARIANT FilteredNeverRuns
CHECK_DEADLOCK FALSE
