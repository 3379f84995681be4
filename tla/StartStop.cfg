\* Every outcome of the calls that set the server up, and every order of signals.
CONSTANTS
  EvLoops = {"loop", "NULL"}
  Configs = {"given", "NULL"}
  BindResults = {"configured", "any_host", "refused", "in_use"}
  ListenResults = {TRUE, FALSE}
SPECIFICATION Spec
INVARIANTS ClosedOnce
PROPERTIES SignalEndsProgram StoppedLoopCloses
CHECK_DEADLOCK FALSE
