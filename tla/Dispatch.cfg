SPECIFICATION Spec
CONSTANTS
  None = None
  Receipt = {push, tick}
  Event = {push}
  Sweeper = {s1}
  Handler = {h1}
  MaxAttempts = 2
  SkipsOverlap = TRUE
  MaxFaults = 1
  MaxToggles = 1
INVARIANT OutcomeRecorded
INVARIANT AttemptsBounded
PROPERTY SettledOnce
PROPERTY ReservationSettles
CHECK_DEADLOCK FALSE
