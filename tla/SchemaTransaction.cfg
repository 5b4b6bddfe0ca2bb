SPECIFICATION Spec
CONSTANTS
  t1 = t1
  t2 = t2
  shared = shared
  own = own
  other = other
  None = None
  Original = Original
  Edited = Edited
  Hosts = {g, h}
  Transactions = {t1, t2}
  Files = {shared, own, other}
  Touches <- SmallTouches
  MaxWithdrawals = 1
  MaxEdits = 1
  MaxFailedWrites = 1
  MaxFailedRestores = 1
CONSTRAINTS OneMishap UntilTrespass
SYMMETRY Symmetry
CHECK_DEADLOCK FALSE
INVARIANT OneAtATime
PROPERTIES
  WithdrawnChangesNothing
  AllOrNothing
