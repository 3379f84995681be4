SPECIFICATION Spec
CONSTANTS
  Clients = {c1, c2}
  Requests = {r1, r2}
  Fds = {f1, f2}
  NULL = NULL
  DefCnt = 2
  Chunks <- WholeChunks
  StatResults = {"missing", "dir", "file"}
  ProbeResults = {"missing", "found"}
  OpenResults = {TRUE, FALSE}
  SendResults = {"full", "short"}
  Sending = "serial"
  EarlyClose = TRUE
SYMMETRY Identities
\* The server stops: it exits, or it has run into a fault.
CHECK_DEADLOCK FALSE
INVARIANTS
  ReferenceExact
  PinnedSendfile
  FaultConfined
