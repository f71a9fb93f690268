\* CloseDesired of one connection while another waits.
CONSTANTS
  Conns = {c1, c2}
  MaxDelays = 1
  MaxIncoming = 1
  MaxQueue = 1
  DelegateToPeerset = TRUE
  Verdicts = {}

SPECIFICATION Spec

\* Behaviours end where the bound on incoming requests is reached.
CHECK_DEADLOCK FALSE
SYMMETRY ConnSymmetry

INVARIANTS
  NeverPoisoned
