SPECIFICATION Spec
CONSTANTS
  Clients = {c1}
  Requests = {r1, r2}
  Fds = {f1}
  NULL = NULL
  DefCnt = 2
  Chunks <- SplitChunks
  StatResults = {"dir"}
  ProbeResults = {"found"}
  OpenResults = {TRUE}
  SendResults = {"full"}
  Sending = "serial"
  EarlyClose = FALSE
\* The server stops: it exits, or it has run into a fault.
CHECK_DEADLOCK FALSE
INVARIANTS
  IndexFound
