SPECIFICATION Spec
CONSTANTS
  b1 = b1
  l1 = l1
  l2 = l2
  None = None
  InstanceId = InstanceId
  Binding = {b1}
  Loop = {l1, l2}
  Period <- EveryTick
  Once = 1
  Keep = 2
  Grace = 1
  LeaseTtl = 1
  MaxScan = 3
  MaxClaims = 1
  MaxTime = 4
  MaxPatches = 1
  MaxCrashes = 1
INVARIANT BacklogBounded
INVARIANT NothingLostOnTime
PROPERTY DueIsRearmed
CHECK_DEADLOCK FALSE
