---------------------------- MODULE HttpExchange ----------------------------
(***************************************************************************)
(* What a peer that waits for its answers gets from the server, seen from  *)
(* the wire: its messages are answered one by one on its own connection,   *)
(* each with one page, or with a header that only its own body can follow. *)
(***************************************************************************)
EXTENDS Naturals, Sequences

CONSTANTS Clients, Requests, NULL

VARIABLES
  conn,   \* the connection a message came on
  ended,  \* how many messages have come on a connection
  wire    \* what has been sent on a connection

exchangeVars == <<conn, ended, wire>>

Init ==
  /\ conn = [r \in Requests |-> NULL]
  /\ ended = [c \in Clients |-> 0]
  /\ wire = [c \in Clients |-> <<>>]

Seen(r) == \E c \in Clients : \E i \in DOMAIN wire[c] : wire[c][i].req = r

Over(c) == wire[c] = <<>> \/ wire[c][Len(wire[c])].kind \in {"page", "body"}

\* A message comes once the one before it is answered.
Ask(c, r) ==
  /\ conn[r] = NULL
  /\ Over(c)
  /\ \A q \in Requests : conn[q] = c => Seen(q)
  /\ conn' = [conn EXCEPT ![r] = c]
  /\ ended' = [ended EXCEPT ![c] = @ + 1]
  /\ UNCHANGED wire

Send(c, r, kind) ==
  /\ wire' = [wire EXCEPT ![c] = Append(@, [kind |-> kind, req |-> r])]
  /\ UNCHANGED <<conn, ended>>

\* A page or a header opens the answer to a message of this connection.
Open(c, r) ==
  /\ conn[r] = c
  /\ Over(c)
  /\ ~Seen(r)
  /\ \E kind \in {"page", "head"} : Send(c, r, kind)

\* The file, or a part of it, directly after its header.
Fill(c, r) ==
  /\ wire[c] # <<>>
  /\ wire[c][Len(wire[c])] = [kind |-> "head", req |-> r]
  /\ \E kind \in {"body", "part"} : Send(c, r, kind)

Next == \E c \in Clients, r \in Requests : Ask(c, r) \/ Open(c, r) \/ Fill(c, r)

Spec == Init /\ [][Next]_exchangeVars
=============================================================================
