SPECIFICATION FairSpec
CONSTANTS
  Hosts = {g, h}
  Batch = 2
  Nothing = Nothing
  MaxEvents = 2
  MaxMishaps = 1
  Owners = {a, b}
  Nobody = Nobody
INVARIANTS
  NothingSkipped
  OnceUnlessMishap
PROPERTIES
  InOrder
  EventuallyDelivered
CHECK_DEADLOCK FALSE
