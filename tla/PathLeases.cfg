SPECIFICATION LeaseSpec
CONSTANTS
  dir = dir
  inner = inner
  other = other
  run1 = run1
  run2 = run2
  call1 = call1
  call2 = call2
  call3 = call3
  Owners = {run1, run2}
  Callers = {call1, call2, call3}
  OwnerOf <- RunOf
  Paths = {dir, inner, other}
  Below <- Tree
  Requests <- Asked
  Ttls = {1, 2}
  Capacity = 2
  MaxIssued = 2
  Writes <- Written
  Nothing = Nothing
INVARIANTS
  NoOverlap
  HeldIsStored
