---------------------------- MODULE StartupProofs ----------------------------
(***************************************************************************)
(* No handle of webserver() is closed twice, whatever the system calls     *)
(* answer and whenever the signals come.                                   *)
(***************************************************************************)
EXTENDS StartupProperties, TLAPS

\* Which handles are open when each part begins.
Started ==
  /\ pc = "server" => \A h \in Signals : handle[h] = "open"
  /\ pc = "listen" => \A h \in Handles \ {"timer"} : handle[h] = "open"
  /\ pc \in {"uv_run", "timer"} => \A h \in Handles : handle[h] = "open"

\* Between the two closes the timer, and nothing else, is on its way out.
TimerClosing ==
  pc = "walk" =>
    /\ handle["timer"] = "closing"
    /\ \A h \in Handles \ {"timer"} : handle[h] = "open"

StartupInv == TypeOK /\ Started /\ TimerClosing /\ ClosedOnce

LEMMA StartupInit == Init => StartupInv
BY DEF Init, StartupInv, TypeOK, Started, TimerClosing, ClosedOnce, Parts

HandleStates == {"absent", "open", "closing", "closed"}

\* The two places that close handles find all of them open.
LEMMA TimerIsOpen ==
  ASSUME StartupInv, close_timer
  PROVE  pc' = "walk" /\ handle' \in [Handles -> HandleStates] /\ TimerClosing'
<1>1. pc = "timer" /\ \A h \in Handles : handle[h] = "open"
  BY DEF close_timer, StartupInv, Started
<1>2. /\ pc' = "walk"
      /\ handle' = [h \in Handles |-> IF h \in {"timer"} THEN "closing" ELSE handle[h]]
  BY <1>1 DEF close_timer, uv_close, Handles
<1> QED
  BY <1>1, <1>2 DEF TimerClosing, HandleStates, Handles

LEMMA WalkedAreOpen ==
  ASSUME StartupInv, uv_walk
  PROVE  pc' = "drain" /\ handle' \in [Handles -> HandleStates]
<1> DEFINE W == walk_cb({h \in Handles : handle[h] \notin {"absent", "closed"}})
<1>1. pc = "walk" /\ uv_close(W, "drain")
  BY DEF uv_walk
<1>2. \A h \in W : handle[h] = "open"
  BY <1>1 DEF walk_cb, StartupInv, TimerClosing
<1> HIDE DEF W
<1> QED
  BY <1>1, <1>2 DEF uv_close, StartupInv, TypeOK, HandleStates

LEMMA ProgramStep ==
  ASSUME StartupInv, Program
  PROVE  StartupInv'
<1> USE DEF StartupInv
<1>1. CASE arguments
  BY <1>1 DEF arguments, args, TypeOK, Parts, Started, TimerClosing, ClosedOnce
<1>2. CASE signal_handlers
  BY <1>2
  DEF signal_handlers, args, TypeOK, Parts, Started, TimerClosing, ClosedOnce, Handles
<1>3. CASE bind
  <2>1. TypeOK'
    BY <1>3 DEF bind, args, TypeOK, Parts
  <2> QED
    BY <1>3, <2>1 DEF bind, TypeOK, Started, TimerClosing, ClosedOnce, Handles
<1>4. CASE listen
  <2>1. TypeOK'
    BY <1>4, StartupAssumption DEF listen, args, TypeOK, Parts
  <2> QED
    BY <1>4, <2>1 DEF listen, TypeOK, Started, TimerClosing, ClosedOnce
<1>5. CASE uv_run
  BY <1>5 DEF uv_run, args, TypeOK, Parts, Started, TimerClosing, ClosedOnce
<1>6. CASE close_timer
  <2>1. UNCHANGED <<args, web_config, pending, stop_flag, address, announced, ret, closed>>
    BY <1>6 DEF close_timer
  <2> QED
    BY <1>6, <2>1, TimerIsOpen DEF args, TypeOK, Parts, Started, ClosedOnce, HandleStates
<1>7. CASE uv_walk
  <2>1. UNCHANGED <<args, web_config, pending, stop_flag, address, announced, ret, closed>>
    BY <1>7 DEF uv_walk
  <2> QED
    BY <1>7, <2>1, WalkedAreOpen
    DEF args, TypeOK, Parts, Started, TimerClosing, ClosedOnce, HandleStates
<1>8. CASE drained
  BY <1>8 DEF drained, args, TypeOK, Parts, Started, TimerClosing, ClosedOnce
<1>9. CASE main
  BY <1>9 DEF main, args, TypeOK, Parts, Started, TimerClosing, ClosedOnce
<1> QED
  BY <1>1, <1>2, <1>3, <1>4, <1>5, <1>6, <1>7, <1>8, <1>9 DEF Program

\* Signals and the loop's own work.
LEMMA EventStep ==
  ASSUME StartupInv, Loop \/ \E s \in Signals : caught(s) \/ killed(s)
  PROVE  StartupInv'
<1> USE DEF StartupInv
<1>1. ASSUME NEW s \in Signals, signal_handler(s) \/ dropped(s) \/ caught(s)
      PROVE  StartupInv'
  <2>1. /\ UNCHANGED <<pc, args, web_config, handle, address, announced, ret, closed>>
        /\ pending' \subseteq Signals
        /\ stop_flag' \in BOOLEAN
    BY <1>1 DEF signal_handler, dropped, caught, uv_stop, TypeOK
  <2> QED
    BY <2>1 DEF args, TypeOK, Started, TimerClosing, ClosedOnce
<1>2. ASSUME NEW s \in Signals, killed(s)
      PROVE  StartupInv'
  BY <1>2 DEF killed, args, TypeOK, Parts, Started, TimerClosing, ClosedOnce
<1>3. ASSUME NEW h \in Handles, finish_close(h)
      PROVE  StartupInv'
  BY <1>3 DEF finish_close, args, TypeOK, Started, TimerClosing, ClosedOnce
<1> QED
  BY <1>1, <1>2, <1>3 DEF Loop

LEMMA StartupInvariant == Spec => []StartupInv
<1>1. StartupInv /\ [Next]_vars => StartupInv'
  <2>1. StartupInv /\ UNCHANGED vars => StartupInv'
    BY DEF StartupInv, vars, args, TypeOK, Started, TimerClosing, ClosedOnce
  <2> QED
    BY <2>1, ProgramStep, EventStep DEF Next
<1> QED
  BY <1>1, StartupInit, PTL DEF Spec

\* Every variable keeps its type.
LEMMA StartupTypeCorrect == Spec => []TypeOK
<1>1. StartupInv => TypeOK
  BY DEF StartupInv
<1> QED
  BY <1>1, StartupInvariant, PTL

\* webserver() closes the timer and then lets walk_cb loose on all handles, and
\* none of them, in whatever state it is by then, is closed before it was started
\* or a second time.
THEOREM HandlesClosedOnce == Spec => []ClosedOnce
<1>1. StartupInv => ClosedOnce
  BY DEF StartupInv
<1> QED
  BY <1>1, StartupInvariant, PTL
=============================================================================
