SPECIFICATION Spec
CONSTANTS
  v = v
  n = n
  r = r
  Cpus = {c1, c2}
  Threads = {v, n, r}
  CgOf <- CgroupOfThread
  Targets = {2}
  NoAttribution = FALSE
  MaxTime = 3
  MaxEvents = 7
SYMMETRY Symmetry
INVARIANTS
  TypeOK
  ChargedIsWaiting
  ForeignHoldIsCharged
CHECK_DEADLOCK FALSE
