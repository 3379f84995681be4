------------------------------- MODULE Startup -------------------------------
(***************************************************************************)
(* webserver() and main() around the event loop (src/src/webserver.c,      *)
(* src/src/main.c): what is set up before the first uv_run, how the loop   *)
(* is stopped and emptied, and what the callers are told.                  *)
(*                                                                         *)
(* Connections are the subject of module WebServer and left out here.      *)
(* pc is the next part of webserver() or main() to run; signals arrive     *)
(* between any two parts.                                                  *)
(***************************************************************************)
EXTENDS Naturals, FiniteSets

CONSTANTS
  EvLoops,      \* what uv_default_loop may return: a loop, or NULL
  Configs,      \* the second argument: a configuration, or NULL
  BindResults,  \* what may become of uv_ip4_addr and uv_tcp_bind
  ListenResults \* whether listen() may succeed, may fail

Signals == {"sigint", "sigterm"}
Handles == Signals \cup {"server", "timer"}

ASSUME StartupAssumption ==
  /\ EvLoops \subseteq {"loop", "NULL"}
  /\ Configs \subseteq {"given", "NULL"}
  /\ BindResults \subseteq {"configured", "any_host", "refused", "in_use"}
  /\ ListenResults \subseteq BOOLEAN

VARIABLES
  pc,         \* the part of the program that runs next
  ev_loop,    \* the arguments of webserver()
  config,
  web_config, \* its static variable
  handle,     \* the four handles of webserver()
  pending,    \* signals caught and not yet dispatched by the loop
  stop_flag,  \* loop->stop_flag, set by uv_stop
  address,    \* what the server's socket is bound to
  announced,  \* "Server listening on port" was printed
  ret,        \* what webserver() returns
  closed      \* what uv_loop_close returned to main()

args == <<ev_loop, config>>
vars == <<pc, args, web_config, handle, pending, stop_flag, address, announced,
          ret, closed>>

Parts == {"webserver", "signals", "server", "listen", "uv_run", "timer", "walk",
          "drain", "returned", "exited", "killed", "fault", "aborted"}

\* The program has ended: by itself, by a signal, by a NULL pointer, by abort().
Ended == pc \in {"exited", "killed", "fault", "aborted"}

Init ==
  /\ pc = "webserver"
  /\ ev_loop \in EvLoops
  /\ config \in Configs
  /\ web_config = "NULL"
  /\ handle = [h \in Handles |-> "absent"]
  /\ pending = {}
  /\ stop_flag = FALSE
  /\ address = "none"
  /\ announced = FALSE
  /\ ret = "none"
  /\ closed = "none"

-----------------------------------------------------------------------------
(* webserver(), up to the loop                                             *)

\* A NULL configuration leaves the static web_config as it is, which is NULL.
arguments ==
  /\ pc = "webserver"
  /\ IF ev_loop = "NULL"
     THEN pc' = "returned" /\ ret' = "error" /\ UNCHANGED web_config
     ELSE /\ pc' = "signals" /\ UNCHANGED ret
          /\ web_config' = IF config # "NULL" THEN config ELSE web_config
  /\ UNCHANGED <<args, handle, pending, stop_flag, address, announced,
                 closed>>

signal_handlers ==
  /\ pc = "signals"
  /\ handle' = [h \in Handles |-> IF h \in Signals THEN "open" ELSE handle[h]]
  /\ pc' = "server"
  /\ UNCHANGED <<args, web_config, pending, stop_flag, address, announced,
                 ret, closed>>

\* uv_ip4_addr and uv_tcp_bind are called without a look at their results: a host
\* that is not a dotted address leaves 0.0.0.0, and a bind that is refused leaves
\* the socket without an address.  An address in use is reported by uv_listen.
bind ==
  /\ pc = "server"
  /\ handle' = [handle EXCEPT !["server"] = "open"]
  /\ IF web_config = "NULL"
     THEN pc' = "fault" /\ UNCHANGED address
     ELSE /\ \E b \in BindResults :
               address' = IF b = "refused" THEN "none" ELSE b
          /\ pc' = "listen"
  /\ UNCHANGED <<args, web_config, pending, stop_flag, announced, ret,
                 closed>>

\* The kernel gives a port of its choice to a socket without an address.
listen ==
  /\ pc = "listen"
  /\ \E ok \in ListenResults :
       IF address = "in_use" \/ ~ok
       THEN /\ pc' = "returned"
            /\ ret' = "error"
            /\ UNCHANGED <<handle, address, announced>>
       ELSE /\ pc' = "uv_run"
            /\ address' = IF address = "none" THEN "any_port" ELSE address
            /\ announced' = TRUE
            /\ handle' = [handle EXCEPT !["timer"] = "open"]
            /\ UNCHANGED ret
  /\ UNCHANGED <<args, web_config, pending, stop_flag, closed>>

-----------------------------------------------------------------------------
(* Signals                                                                 *)

\* libuv's own handler notes the signal while the handle is started.
caught(s) ==
  /\ ~Ended
  /\ handle[s] = "open"
  /\ s \notin pending
  /\ pending' = pending \cup {s}
  /\ UNCHANGED <<pc, args, web_config, handle, stop_flag, address, announced,
                 ret, closed>>

\* A signal whose handle is not started does what signals do by default.
killed(s) ==
  /\ ~Ended
  /\ handle[s] # "open"
  /\ pc' = "killed"
  /\ UNCHANGED <<args, web_config, handle, pending, stop_flag, address,
                 announced, ret, closed>>

\* The operators whose names end in _mutant are mistakes that the checked
\* properties must notice; no action uses them.
uv_stop_mutant(flag) == flag
uv_stop(flag) == TRUE

signal_handler(s) ==
  /\ pc = "uv_run"
  /\ s \in pending
  /\ pending' = pending \ {s}
  /\ stop_flag' = uv_stop(stop_flag)
  /\ UNCHANGED <<pc, args, web_config, handle, address, announced, ret,
                 closed>>

\* The loop takes a signal of a handle that is being closed, and drops it.
dropped(s) ==
  /\ pc = "drain"
  /\ s \in pending
  /\ pending' = pending \ {s}
  /\ UNCHANGED <<pc, args, web_config, handle, stop_flag, address, announced,
                 ret, closed>>

-----------------------------------------------------------------------------
(* webserver(), after the loop                                             *)

\* uv_run returns whether something is still active, and clears the flag.
uv_run ==
  /\ pc = "uv_run"
  /\ stop_flag
  /\ stop_flag' = FALSE
  /\ ret' = IF \E h \in Handles : handle[h] = "open" THEN "active" ELSE "zero"
  /\ pc' = "timer"
  /\ UNCHANGED <<args, web_config, handle, pending, address, announced,
                 closed>>

\* uv_close wants a handle that is not closing yet, and aborts the program
\* otherwise; next is where the program goes on.
uv_close(H, next) ==
  IF \A h \in H : handle[h] = "open"
  THEN /\ handle' = [h \in Handles |-> IF h \in H THEN "closing" ELSE handle[h]]
       /\ pc' = next
  ELSE pc' = "aborted" /\ UNCHANGED handle

close_timer ==
  /\ pc = "timer"
  /\ uv_close({"timer"}, "walk")
  /\ UNCHANGED <<args, web_config, pending, stop_flag, address, announced,
                 ret, closed>>

walk_cb_mutant(H) == {}
walk_cb_again_mutant(H) == H

\* The handles among H that walk_cb closes.
walk_cb(H) == {h \in H : handle[h] \notin {"closing", "closed"}}

\* uv_walk visits the handles of the loop.
uv_walk ==
  /\ pc = "walk"
  /\ uv_close(walk_cb({h \in Handles : handle[h] \notin {"absent", "closed"}}), "drain")
  /\ UNCHANGED <<args, web_config, pending, stop_flag, address, announced,
                 ret, closed>>

\* A signal handle is not closed while a signal of it waits to be dispatched.
finish_close(h) ==
  /\ pc = "drain"
  /\ handle[h] = "closing"
  /\ h \notin pending
  /\ handle' = [handle EXCEPT ![h] = "closed"]
  /\ UNCHANGED <<pc, args, web_config, pending, stop_flag, address, announced,
                 ret, closed>>

Drained == \A h \in Handles : handle[h] \notin {"open", "closing"}

\* The second uv_run is over; cleanup_resources runs, and webserver() returns
\* what the first uv_run returned.
drained ==
  /\ pc = "drain"
  /\ Drained
  /\ pc' = "returned"
  /\ UNCHANGED <<args, web_config, handle, pending, stop_flag, address,
                 announced, ret, closed>>

\* uv_loop_close dereferences the loop, and refuses one that has handles.
main ==
  /\ pc = "returned"
  /\ IF ev_loop = "NULL"
     THEN pc' = "fault" /\ UNCHANGED closed
     ELSE /\ pc' = "exited"
          /\ closed' = IF \E h \in Handles : handle[h] \notin {"absent", "closed"}
                       THEN "busy" ELSE "zero"
  /\ UNCHANGED <<args, web_config, handle, pending, stop_flag, address,
                 announced, ret>>

-----------------------------------------------------------------------------

Program ==
  \/ arguments \/ signal_handlers \/ bind \/ listen
  \/ uv_run \/ close_timer \/ uv_walk \/ drained \/ main

Loop ==
  \/ \E s \in Signals : signal_handler(s) \/ dropped(s)
  \/ \E h \in Handles : finish_close(h)

Next == Program \/ Loop \/ \E s \in Signals : caught(s) \/ killed(s)

\* The program runs on, and the loop dispatches what it has; signals need not come.
Fairness ==
  /\ WF_vars(Program)
  /\ \A s \in Signals : WF_vars(signal_handler(s) \/ dropped(s))
  /\ \A h \in Handles : WF_vars(finish_close(h))

Spec == Init /\ [][Next]_vars /\ Fairness
=============================================================================
