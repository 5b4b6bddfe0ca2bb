SPECIFICATION FairSpec
CONSTANTS
  Runs = {q, r}
  Limit = 1
  MaxAttempts = 2
  NoStatus = NoStatus
  Flaky = {r}
  MaxStops = 1
  MaxAborts = 1
  MaxFailedWrites = 1
CHECK_DEADLOCK FALSE
INVARIANTS
  PermitsAccounted
  CompletionNotLost
  OnlyLateOutlive
PROPERTY RunsSettle
