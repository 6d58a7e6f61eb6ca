SPECIFICATION SoftirqSpec
CONSTANTS
  Cpus = {c1, c2}
  Cgroups = {2, 3}
  Targets = {2, 3}
  NoAttribution = FALSE
  MaxTime = 3
  MaxEvents = 5
SYMMETRY Symmetry
INVARIANTS
  SoftirqTypeOK
  SharesComeFromService
  SelfAndOtherDisjoint
CHECK_DEADLOCK FALSE
