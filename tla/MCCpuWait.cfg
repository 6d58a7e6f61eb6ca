SPECIFICATION Spec
CONSTANTS
  w1 = w1
  w2 = w2
  n1 = n1
  Cpus = {c1, c2}
  Tids = {w1, w2, n1}
  CgOf <- CgroupOfThread
  Targets = {2}
  NoAttribution = FALSE
  MaxTime = 3
  MaxEvents = 6
SYMMETRY Symmetry
INVARIANTS
  TypeOK
  HistoriesInOrder
PROPERTY
  ImplementsOccupancy
CHECK_DEADLOCK FALSE
