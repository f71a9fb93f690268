CONSTANTS
  Blocks <- MCBlocks
  Genesis = "g"
  Parent <- MCParent
  Calls <- MCCalls
  MaxFaults = 0
  ImportPeriod = 2
  Bootstraps = {"full"}
  StateAtChange = FALSE
SPECIFICATION Spec
CHECK_DEADLOCK FALSE
INVARIANT AssertionNeverFires
