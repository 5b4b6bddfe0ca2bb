SPECIFICATION FromFirst
CONSTANTS
  Hosts = {g, h}
  QueueLimit = 1
  Displaces = TRUE
  NoItem = NoItem
  SavesFail = TRUE
  MaxItems = 2
  MaxStarts = 2
  MaxMishaps = 2
CHECK_DEADLOCK FALSE
INVARIANTS
  AcceptedIsStored
  SerialActivation
PROPERTIES
  InOrder
  NoNeedlessRun
  QueueIsDrained
