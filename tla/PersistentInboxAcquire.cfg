SPECIFICATION InboxSpec
CONSTANTS
  Hosts = {g, h}
  QueueLimit = 2
  Displaces = TRUE
  NoItem = NoItem
  SavesFail = FALSE
  MaxItems = 2
  MaxStarts = 2
  MaxMishaps = 2
CHECK_DEADLOCK FALSE
INVARIANT AcknowledgedSurvives
