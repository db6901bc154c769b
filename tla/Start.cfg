SPECIFICATION Spec
CONSTANTS
  o1 = o1
  o2 = o2
  k1 = k1
  x = x
  y = y
  v1 = v1
  v2 = v2
  broken = broken
  None = None
  Delivery = {d1, d2}
  Owner = {o1, o2}
  Key = {k1}
  Input = {x, y}
  Definition = {v1, v2, broken}
  Startable = {v1, v2}
  Request <- Sent
  MaxDeliveries = 2
  MaxEdits = 1
  MaxCrashes = 1
  MaxErrors = 1
INVARIANT AcceptedIsServed
INVARIANT RetryRecoversReceipt
PROPERTY CreatedIsDriven
CHECK_DEADLOCK FALSE
