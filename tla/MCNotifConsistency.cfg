\* Commands and events that cross.
CONSTANTS
  Conns = {c1}
  MaxDelays = 1
  MaxIncoming = 1
  MaxQueue = 1
  DelegateToPeerset = TRUE
  Verdicts = {}

SPECIFICATION Spec

\* Behaviours end where the bound on incoming requests is reached.
CHECK_DEADLOCK FALSE

INVARIANTS
  EventuallyConsistent
