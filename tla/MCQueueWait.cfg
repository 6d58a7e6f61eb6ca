SPECIFICATION Spec
CONSTANTS
  Keys = {k1, k2}
  Cgroups = {2, 3}
  Targets = {2}
  NoAttribution = FALSE
  MaxTime = 4
  MaxEvents = 5
SYMMETRY Symmetry
INVARIANTS
  TypeOK
  HistoryInOrder
PROPERTY
  ImplementsOccupancy
CHECK_DEADLOCK FALSE
