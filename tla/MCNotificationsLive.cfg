\* What must come to an end, with the protocol validating requests.
CONSTANTS
  Conns = {c1}
  MaxDelays = 2
  MaxIncoming = 2
  MaxQueue = 1
  DelegateToPeerset = FALSE
  Verdicts = {"Accept", "Reject", "Canceled"}

SPECIFICATION FairSpec

\* Behaviours end where the bound on incoming requests is reached.
CHECK_DEADLOCK FALSE

INVARIANTS
  NeverPoisoned
  BooksInStep

PROPERTIES
  RemoteAnswered
  TransitionsEnd
  WaitingEnds
