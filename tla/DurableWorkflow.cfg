SPECIFICATION FairSpec
CONSTANTS
  p1 = p1
  p2 = p2
  p3 = p3
  Nothing = Nothing
  Phases = {p1, p2, p3}
  Workers = {v, w}
  Deps <- JoinDeps
  MaxAttempts <- JoinAttempts
  Lease = 1
INVARIANTS
  DependenciesFirst
  CompletedByLastClaimant
PROPERTIES
  SettledStays
  WorkflowSettles
