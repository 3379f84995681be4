SPECIFICATION FairSpec
CONSTANTS
  Clients = {c1}
  Requests = {r1, r2}
  Fds = {f1}
  NULL = NULL
  DefCnt = 1
  Chunks <- AnyChunks
  StatResults = {"dir"}
  ProbeResults = {"missing", "found"}
  OpenResults = {TRUE, FALSE}
  SendResults = {"full"}
  Sending = "pipelined"
  EarlyClose = TRUE
\* The server stops: it exits, or it has run into a fault.
CHECK_DEADLOCK FALSE
INVARIANTS
  UrlUsable
PROPERTIES
  ClosedIsReclaimed
  ShutdownCompletes
