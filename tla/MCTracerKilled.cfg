SPECIFICATION Spec
CONSTANTS
  Cpus = {c1, c2}
  RingSlots = 1
  BufferSize = 4
  MaxEvents = 3
  MaxMisreads = 0
  MaxFaults = 0
INVARIANT
  DropRejected
CHECK_DEADLOCK FALSE
