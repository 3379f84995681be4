-------------------------- MODULE StartupProperties --------------------------
(***************************************************************************)
(* What Startup promises to the callers of webserver().                    *)
(***************************************************************************)
EXTENDS Startup

\* Every variable keeps its type.
TypeOK ==
  /\ pc \in Parts
  /\ ev_loop \in EvLoops
  /\ config \in Configs
  /\ web_config \in {"NULL"} \cup Configs
  /\ handle \in [Handles -> {"absent", "open", "closing", "closed"}]
  /\ pending \subseteq Signals
  /\ stop_flag \in BOOLEAN
  /\ address \in {"none", "any_port"} \cup BindResults
  /\ announced \in BOOLEAN
  /\ ret \in {"none", "error", "active", "zero"}
  /\ closed \in {"none", "busy", "zero"}

\* No handle is closed before it exists or a second time, for which libuv aborts
\* the program: webserver() closes the timer itself and walk_cb comes to it again
\* (webserver.c:876, 790-795), whatever has happened to the handles by then.
ClosedOnce == pc # "aborted"

\* A signal that is caught is never lost, also when it is caught before the loop
\* runs or while handles are being closed: a configured program ends.
SignalEndsProgram ==
  (pending # {} /\ config # "NULL") ~> (pc \in {"exited", "killed"})

\* A loop that was stopped closes every handle that webserver() has started, even
\* if more signals come while it does, and main() finds it empty: the server's
\* handle, a local variable, is out of it.
StoppedLoopCloses == pc = "timer" ~> (pc = "exited" /\ closed = "zero") \/ pc = "killed"
==============================================================================
