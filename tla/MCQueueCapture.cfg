SPECIFICATION Spec
CONSTANTS
  Keys = {k1, k2}
  Sockets = {s1, s2}
  Cgroups = {2, 3}
  Containers = {2, 3}
  Targets = {2}
  MaxTracked = 1
  NoAttribution = FALSE
  MaxUses = 4
  MaxTime = 2
  MaxEvents = 4
  MaxSteps = 7
SYMMETRY Symmetry
INVARIANTS
  TypeOK
  TrackedIsLastSender
  ChargedWhileQueued
  ChargedBehindOthers
CHECK_DEADLOCK FALSE
