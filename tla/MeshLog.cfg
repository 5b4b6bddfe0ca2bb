SPECIFICATION FairSpec
CONSTANTS
  a = a
  x = x
  NoId = NoId
  Nothing = Nothing
  Partial = Partial
  Requests <- TwoRequests
  Tailers = {c}
  Readers = {r}
  MaxSeq = 3
  MaxLines = 2
  Page = 1
  MaxRestarts = 1
CHECK_DEADLOCK FALSE
INVARIANTS
  SequenceNamesOneEvent
  IdsRetainedOnce
  ReadSkipsNothing
  TailMissesNothing
PROPERTY TailCatchesUp
