----------------------------- MODULE ClientPool -----------------------------
(***************************************************************************)
(* What the pool of clients promises (src/src/webserver.c, webserver.h):   *)
(* a client enters it in use, may be referenced for a while, and leaves it *)
(* when it is neither in use nor referenced, or when the server is over.   *)
(* WebServer implements this with sets, ActiveList with linked blocks.     *)
(***************************************************************************)
CONSTANT Clients

VARIABLES
  members,     \* the clients the server has to give back
  used,        \* those whose connection is not closed yet
  referenced,  \* those whose file is being sent
  over         \* the loop has been stopped

poolVars == <<members, used, referenced, over>>

Init ==
  /\ members = {}
  /\ used = {}
  /\ referenced = {}
  /\ over = FALSE

Connect(c) ==
  /\ ~over
  /\ c \notin members
  /\ members' = members \cup {c}
  /\ used' = used \cup {c}
  /\ UNCHANGED <<referenced, over>>

Reference(c) ==
  /\ c \in members
  /\ referenced' = referenced \cup {c}
  /\ UNCHANGED <<members, used, over>>

Unreference(c) ==
  /\ referenced' = referenced \ {c}
  /\ UNCHANGED <<members, used, over>>

\* A client that nobody refers to may leave together with its connection.
Close(c) ==
  /\ c \in used
  /\ used' = used \ {c}
  /\ \/ UNCHANGED members
     \/ c \notin referenced /\ members' = members \ {c}
  /\ UNCHANGED <<referenced, over>>

Free(C) ==
  /\ C \subseteq members
  /\ over \/ C \cap (used \cup referenced) = {}
  /\ members' = members \ C
  /\ used' = used \ C
  /\ referenced' = referenced \ C
  /\ UNCHANGED over

Stop ==
  /\ over' = TRUE
  /\ UNCHANGED <<members, used, referenced>>

Next ==
  \/ \E c \in Clients : Connect(c) \/ Reference(c) \/ Unreference(c) \/ Close(c)
  \/ \E C \in SUBSET Clients : Free(C)
  \/ Stop

Spec == Init /\ [][Next]_poolVars
=============================================================================
