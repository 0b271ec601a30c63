SPECIFICATION Spec
CONSTANTS
  Paths = {"f"}
  BATCH_MAX = 2
  ROUND_BATCHES = 2
  MaxEvents = 3
  MaxCommands = 2
  MaxFaults = 1
INVARIANT ResentPasses
CHECK_DEADLOCK FALSE
