\* Three peers that compete for one slot each way.
CONSTANTS
  Peers = {p1, p2, p3}
  MaxIn = 1
  MaxOut = 1
  Indices = {1}
SPECIFICATION Spec
INVARIANTS
  SlotAccounting
  SlotLimits
PROPERTIES
  BannedNotConnected
  CommandsSpec
  ReservedEventuallyConnected
  SlotsEventuallyFilled
