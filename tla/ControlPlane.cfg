SPECIFICATION Spec
CONSTANTS
  Nothing = Nothing
  Commands = {c}
  Owners = {o, p}
  Timeout = 1
  Skews <- WithinTimeout
  MaxTime = 3
  MaxRestarts = 1
INVARIANTS
  AtMostOnce
  AcknowledgedIsStored
PROPERTIES
  RefusedStaysRefused
  InterruptedStaysInterrupted
SYMMETRY Symmetry
CHECK_DEADLOCK FALSE
