CONSTANTS
  Blocks <- MCBlocks
  NoBlock = "none"
  First = "p"
  Parent <- MCParent
  Keys <- MCKeys
  Ins <- MCIns
  Del <- MCDel
  Root <- MCRoot
  Setups <- MCSetups
  MaxSiblings = 2
  MaxBlocks = 1
  MaxCanonicalized = 2
  MaxReaders = 2
  ReuseDiscarded = TRUE
  FailWhileRead = FALSE
SPECIFICATION Spec
CHECK_DEADLOCK FALSE
INVARIANT PinnedReadable
