SPECIFICATION Spec
CONSTANTS
  Cpus = {c1, c2}
  RingSlots = 2
  BufferSize = 4
  MaxEvents = 2
  MaxMisreads = 1
  MaxFaults = 1
INVARIANTS
  TypeOK
  TraceIsRingPrefix
  
  OrderlyExitKeepsEverything
  CountTracksLoss
CHECK_DEADLOCK FALSE
PROPERTIES
  StopsWhenAsked
  SubmittedIsHandled
