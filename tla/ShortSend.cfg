SPECIFICATION Spec
CONSTANTS
  Clients = {c1}
  Requests = {r1}
  Fds = {f1}
  NULL = NULL
  DefCnt = 2
  Chunks <- WholeChunks
  StatResults = {"file"}
  ProbeResults = {"found"}
  OpenResults = {TRUE}
  SendResults = {"full", "short"}
  Sending = "serial"
  EarlyClose = FALSE
\* The server stops: it exits, or it has run into a fault.
CHECK_DEADLOCK FALSE
INVARIANTS
  WholeFileSent
