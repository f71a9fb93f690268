CONSTANTS
  Blocks <- MCBlocks
  Genesis = "g"
  Parent <- MCParent
  Calls <- MCCalls
  MaxFaults = 1
  ImportPeriod = 2
  Bootstraps = {"full", "state"}
  StateAtChange = FALSE
SPECIFICATION Spec
CHECK_DEADLOCK FALSE
INVARIANTS
  FollowsNetwork
  DiskInStep
  NoChangeForgotten
  HistoryNamesSigner
  VoterInStep
PROPERTY CatchesUp
