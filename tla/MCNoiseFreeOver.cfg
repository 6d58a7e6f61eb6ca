SPECIFICATION Spec
CONSTANTS
  v = v
  n = n
  Cpus = {c1}
  Tids = {v, n}
  CgOf <- CgroupOfThread
  Skbs = {k1}
  Requests = {r1}
  Cgroups = {2, 3}
  Targets = {2}
  NoAttribution = FALSE
  MaxTime = 3
  MaxEvents = 4
INVARIANT
  NoOverRemoval
CHECK_DEADLOCK FALSE
