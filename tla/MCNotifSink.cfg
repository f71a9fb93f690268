\* The connection of the sink ends, another one is open.
CONSTANTS
  Conns = {c1, c2}
  MaxDelays = 1
  MaxIncoming = 1
  MaxQueue = 1
  DelegateToPeerset = TRUE
  Verdicts = {}

SPECIFICATION Spec

\* Behaviours end where the bound on incoming requests is reached.
CHECK_DEADLOCK FALSE

\* Up to the first time the entry of the peer is poisoned.
CONSTRAINT NotPoisoned
SYMMETRY ConnSymmetry

INVARIANTS
  ApiSinkOpen
