SPECIFICATION Spec
CONSTANTS
  Clients = {c1}
  Requests = {r1}
  Fds = {f1}
  NULL = NULL
  DefCnt = 2
  Chunks <- WholeChunks
  StatResults = {"file"}
  ProbeResults = {"found"}
  OpenResults = {TRUE}
  SendResults = {"full"}
  Sending = "serial"
  EarlyClose = TRUE
\* The server stops: it exits, or it has run into a fault.
CHECK_DEADLOCK FALSE
INVARIANTS
  ReferencedClientKept
