SPECIFICATION FairSpec
CONSTANTS
  Hosts = {g, h}
  Agents = {a}
  Founder = g
  Nothing = Nothing
  QuickRestarts = FALSE
  MaxEvents = 1
CHECK_DEADLOCK FALSE
INVARIANTS
  LeavesInOrder
PROPERTIES
  SteadyOwnerKept
  EventuallyOwned
