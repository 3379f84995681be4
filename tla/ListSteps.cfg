CONSTANTS
  Clients = {c1, c2, c3, c4}
  NULL = NULL
  JUNK = JUNK
SPECIFICATION Spec
INVARIANTS PointersLive NoneLost
PROPERTIES SweepComplete CallbackReturns ImplementsPool
\* cleanup_resources is the end of the program.
CHECK_DEADLOCK FALSE
