SPECIFICATION Spec
CONSTANTS
  Levels <- SoloAndStressed
  ITERATIONS = 1
  BLOCK_QUEUE_DEPTH = 2
  Depths = {0, 2, 32}
  OwnInterfaces <- PlainOrTuned
  MaxScripts = 2
  MaxRuns = 3
INVARIANTS
  TypeOK
  MachineIsGivenBack
  BlockRunsOnShortQueue
  SoloRunsAlone
  RowIsOfWholeRun
CHECK_DEADLOCK FALSE
