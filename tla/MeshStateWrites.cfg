SPECIFICATION Spec
CONSTANTS
  Absent = Absent
  Nothing = Nothing
  Procs = {p, q}
  Keys = {j, k}
  MaxTombstones = 1
  MaxWrites = 6
PROPERTIES
  CasOverwritesWhatItGot
  ReadsNeverGoBack
  ImplementsRegisters
SYMMETRY Symmetry
CHECK_DEADLOCK FALSE
