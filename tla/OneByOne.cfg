SPECIFICATION ReadingSpec
CONSTANTS
  Clients = {c1, c2}
  Requests = {r1, r2}
  Fds = {f1, f2}
  NULL = NULL
  DefCnt = 2
  Chunks <- WholeChunks
  StatResults = {"missing", "dir", "file"}
  ProbeResults = {"missing", "found"}
  OpenResults = {TRUE, FALSE}
  SendResults = {"full"}
  Sending = "serial"
  EarlyClose = FALSE
\* The server stops: it exits, or it has run into a fault.
CHECK_DEADLOCK FALSE
INVARIANTS
  NoFault
  NothingLeaked
PROPERTIES
  EveryMessageAnswered
