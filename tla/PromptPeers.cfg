SPECIFICATION Spec
CONSTANTS
  Clients = {c1, c2}
  Requests = {r1, r2, r3}
  Fds = {f1, f2}
  NULL = NULL
  DefCnt = 2
  Chunks <- WholeChunks
  StatResults = {"missing", "dir", "file", "long"}
  ProbeResults = {"missing", "found", "long"}
  OpenResults = {TRUE, FALSE}
  SendResults = {"full", "short"}
  Sending = "lockstep"
  EarlyClose = FALSE
SYMMETRY Identities
\* The server stops: it exits, or it has run into a fault.
CHECK_DEADLOCK FALSE
INVARIANTS
  OwnDocument
PROPERTIES
  AllDefaultsTried
  ImplementsExchange
