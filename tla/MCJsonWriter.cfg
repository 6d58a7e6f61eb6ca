SPECIFICATION PlacesSpec
CONSTANTS
  Byte <- ByteValues
  Data <- Fragments
  BufferSize = 4
  MaxFaults = 2
  MaxBytes = 8
INVARIANTS
  TypeOK
  CopyStaysInBuffer
  OnlyUnnoticedLoses
PROPERTY
  ImplementsLog
CHECK_DEADLOCK FALSE
