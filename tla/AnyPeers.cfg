SPECIFICATION Spec
CONSTANTS
  Clients = {c1, c2}
  Requests = {r1, r2}
  Fds = {f1, f2}
  NULL = NULL
  DefCnt = 2
  Chunks <- WholeChunks
  StatResults = {"dir"}
  ProbeResults = {"missing", "found"}
  OpenResults = {TRUE, FALSE}
  SendResults = {"full"}
  Sending = "pipelined"
  EarlyClose = TRUE
SYMMETRY Identities
\* The server stops: it exits, or it has run into a fault.
CHECK_DEADLOCK FALSE
INVARIANTS
  TypeOK
  ActiveExact
  HandleOutlived
  FilesClosedAtExit
  NeverAbandoned
  UnpinnedByAnother
PROPERTIES
  ImplementsPool
