SPECIFICATION Spec
CONSTANTS
  Cpus = {c1, c2}
  RingSlots = 1
  BufferSize = 4
  MaxEvents = 2
  MaxMisreads = 0
  MaxFaults = 0
INVARIANT
  IncompleteTraceRejected
CHECK_DEADLOCK FALSE
