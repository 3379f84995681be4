----------------------------- MODULE ActiveList -----------------------------
(***************************************************************************)
(* activeClientList pointer by pointer: the macros of utlist.h as          *)
(* createClient, on_close, cleanup_freeList and cleanup_resources expand   *)
(* them.  Each of these runs from "loop" to its end before another one     *)
(* starts; a step is one turn of one of its loops.                         *)
(***************************************************************************)
CONSTANTS
  Clients,  \* the blocks calloc may return; a freed block may come back
  NULL,     \* the null pointer
  JUNK      \* what a pointer in memory that is not allocated reads as, and leads to

ASSUME ActiveListAssumption ==
  NULL \notin Clients /\ JUNK \notin Clients /\ NULL # JUNK

VARIABLES
  head,   \* activeClientList
  next,   \* client->next
  live,   \* the allocated blocks
  flags,  \* client->flags
  pc,     \* where the running callback is
  sweep,  \* who iterates: nobody, cleanup_freeList, cleanup_resources
  elt,    \* the client being appended, looked at or deleted
  tmp,    \* the tmp of LL_FOREACH_SAFE
  walk    \* the _tmp of LL_APPEND and LL_DELETE

list == <<head, next, live, flags>>
at   == <<pc, sweep, elt, tmp, walk>>
vars == <<list, at>>

Flags   == {"IN_USE", "IN_REF"}
Pointer == Clients \cup {NULL}

Init ==
  /\ head = NULL
  /\ next = [c \in Clients \cup {JUNK} |-> JUNK]
  /\ live = {}
  /\ flags = [c \in Clients \cup {JUNK} |-> {}]
  /\ pc = "loop"
  /\ sweep = "none"
  /\ elt = NULL
  /\ tmp = NULL
  /\ walk = NULL

\* The operators whose names end in _mutant are mistakes that the checked
\* properties must notice; no action uses them.
CLIENT_IS_FLAGS_FREE_mutant(f) == "IN_USE" \notin f
appended_next_mutant(h) == h
IsHead_mutant(h, del) == FALSE
following_mutant(e, t) == next'[e]
first_mutant(h) == IF h = NULL THEN NULL ELSE next[h]

CLIENT_IS_FLAGS_FREE(f) == f \cap Flags = {}

\* The callback is over.
return ==
  /\ pc' = "loop"
  /\ sweep' = "none"
  /\ elt' = NULL
  /\ tmp' = NULL
  /\ walk' = NULL

-----------------------------------------------------------------------------
(* LL_APPEND.                                                              *)

\* add->next, whatever the list is.
appended_next(h) == NULL

createClient(c) ==
  /\ pc = "loop"
  /\ c \notin live
  /\ live' = live \cup {c}
  /\ flags' = [flags EXCEPT ![c] = {"IN_USE"}]
  /\ next' = [next EXCEPT ![c] = appended_next(head)]
  /\ IF head = NULL
     THEN head' = c /\ UNCHANGED at
     ELSE /\ pc' = "append"
          /\ elt' = c
          /\ walk' = head
          /\ UNCHANGED <<head, sweep, tmp>>

LL_APPEND ==
  /\ pc = "append"
  /\ IF next[walk] # NULL
     THEN walk' = next[walk] /\ UNCHANGED <<list, pc, sweep, elt, tmp>>
     ELSE next' = [next EXCEPT ![walk] = elt] /\ return /\ UNCHANGED <<head, live, flags>>

-----------------------------------------------------------------------------
(* LL_DELETE and free_client.                                              *)

IsHead(h, del) == h = del

\* The test of LL_DELETE and what comes before its loop.
LL_DELETE(del) ==
  IF IsHead(head, del)
  THEN head' = next[head] /\ pc' = "free" /\ UNCHANGED walk
  ELSE walk' = head /\ pc' = "unlink" /\ UNCHANGED head

\* One turn of its loop, or the end of the loop.
unlink ==
  /\ pc = "unlink"
  /\ IF next[walk] \notin {NULL, elt}
     THEN walk' = next[walk] /\ UNCHANGED <<next, pc>>
     ELSE /\ next' = IF next[walk] = elt THEN [next EXCEPT ![walk] = next[elt]] ELSE next
          /\ pc' = "free"
          /\ UNCHANGED walk
  /\ UNCHANGED <<head, live, flags, sweep, elt, tmp>>

\* The increment of LL_FOREACH_SAFE.
following(e, t) == t

free_client ==
  /\ pc = "free"
  /\ live' = live \ {elt}
  /\ next' = [next EXCEPT ![elt] = JUNK]
  /\ flags' = [flags EXCEPT ![elt] = {}]
  /\ IF sweep = "none"
     THEN return
     ELSE /\ pc' = "each"
          /\ elt' = following(elt, tmp)
          /\ UNCHANGED <<sweep, tmp, walk>>
  /\ UNCHANGED head

on_close(c) ==
  /\ pc = "loop"
  /\ c \in live /\ "IN_USE" \in flags[c]
  /\ flags' = [flags EXCEPT ![c] = @ \ {"IN_USE"}]
  /\ IF CLIENT_IS_FLAGS_FREE(flags'[c])
     THEN elt' = c /\ LL_DELETE(c)
     ELSE UNCHANGED <<head, pc, elt, walk>>
  /\ UNCHANGED <<next, live, sweep, tmp>>

-----------------------------------------------------------------------------
(* LL_FOREACH_SAFE.                                                        *)

first(h) == h

start(who) ==
  /\ pc = "loop"
  /\ sweep' = who
  /\ pc' = "each"
  /\ elt' = first(head)
  /\ UNCHANGED <<list, tmp, walk>>

cleanup_freeList == start("idle")
cleanup_resources == start("all")

LL_FOREACH_SAFE ==
  /\ pc = "each"
  /\ elt # NULL
  /\ tmp' = next[elt]
  /\ IF sweep = "all" \/ CLIENT_IS_FLAGS_FREE(flags[elt])
     THEN LL_DELETE(elt) /\ UNCHANGED elt
     ELSE elt' = tmp' /\ UNCHANGED <<head, pc, walk>>
  /\ UNCHANGED <<next, live, flags, sweep>>

\* The server goes on after the timer's sweep and exits after the other one.
swept ==
  /\ pc = "each"
  /\ elt = NULL
  /\ IF sweep = "idle"
     THEN return
     ELSE pc' = "exited" /\ UNCHANGED <<sweep, elt, tmp, walk>>
  /\ UNCHANGED list

-----------------------------------------------------------------------------

\* send_file_context and final_sendfile.
CLIENT_SET_IN_REF(c) ==
  /\ pc = "loop"
  /\ c \in live
  /\ flags' = [flags EXCEPT ![c] = @ \cup {"IN_REF"}]
  /\ UNCHANGED <<head, next, live, at>>

CLIENT_CLEAR_IN_REF(c) ==
  /\ pc = "loop"
  /\ c \in live
  /\ flags' = [flags EXCEPT ![c] = @ \ {"IN_REF"}]
  /\ UNCHANGED <<head, next, live, at>>

Turn == LL_APPEND \/ unlink \/ free_client \/ LL_FOREACH_SAFE \/ swept

Next ==
  \/ Turn
  \/ cleanup_freeList \/ cleanup_resources
  \/ \E c \in Clients : \/ createClient(c) \/ on_close(c)
                        \/ CLIENT_SET_IN_REF(c) \/ CLIENT_CLEAR_IN_REF(c)

\* A callback that has begun runs on.
Spec == Init /\ [][Next]_vars /\ WF_vars(Turn)

-----------------------------------------------------------------------------
(* Properties.                                                             *)

\* What is found from p by following next lies in S.
Closed(p, S) ==
  /\ p # NULL => p \in S
  /\ \A c \in S \cap Clients : next[c] # NULL => next[c] \in S

\* The clients that are found from head: those in every such set.
Reachable ==
  LET closed == {S \in SUBSET (Clients \cup {JUNK}) : Closed(head, S)}
  IN  {c \in Clients \cup {JUNK} : \A S \in closed : c \in S}

\* Every pointer the macros are about to follow is NULL or points to an allocated
\* client: head, the links of allocated clients, and the locals of the loop that
\* is running, tmp included, although LL_DELETE and free_client run between its
\* reading and its use.
PointersLive ==
  /\ head \in live \cup {NULL}
  /\ \A c \in live : next[c] \in live \cup {NULL}
  /\ pc \in {"append", "unlink"} => walk \in live
  /\ pc \in {"append", "unlink", "free"} => elt \in live
  /\ pc \in {"each", "unlink", "free"} => {elt, tmp} \subseteq live \cup {NULL}

\* No client is lost: every allocated client can be reached from head, but for the
\* one that is being appended or deleted at this moment.
NoneLost == live \ Reachable \subseteq {elt} /\ Reachable \subseteq live

\* When the timer's sweep is over no client is left whose flags are clear; when
\* cleanup_resources is over no client is left at all.
SweepComplete ==
  [][swept => \A c \in live : sweep = "idle" /\ ~CLIENT_IS_FLAGS_FREE(flags[c])]_vars

\* The loops of the macros end: the list never becomes circular.
CallbackReturns == pc \notin {"loop", "exited"} ~> pc \in {"loop", "exited"}

\* The list implements the pool: its members are the clients linked from head.
Pool == INSTANCE ClientPool WITH
  members    <- Reachable,
  used       <- {c \in Reachable : "IN_USE" \in flags[c]},
  referenced <- {c \in Reachable : "IN_REF" \in flags[c]},
  over       <- sweep = "all"

\* The clients linked from head enter and leave as ClientPool says.
ImplementsPool == Pool!Spec
=============================================================================
