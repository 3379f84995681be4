-------------------------- MODULE ActiveListProofs --------------------------
(***************************************************************************)
(* activeClientList, for every number of clients: no pointer that the      *)
(* macros of utlist.h follow is stale, no client is lost, each sweep meets *)
(* every client, and the list implements ClientPool.                       *)
(*                                                                         *)
(* A list is described without its order: every client but the first has   *)
(* exactly one link to it, and a set that contains the first client and    *)
(* what its members link to contains the whole list.  So no proof needs    *)
(* induction along the list.                                               *)
(***************************************************************************)
EXTENDS ActiveList, TLAPS

-----------------------------------------------------------------------------
(* Lists as sets.                                                          *)

\* Following link from p does not lead out of S.
Keeps(link, p, S) == p \in S \cup {NULL} /\ \A c \in S : link[c] \in S \cup {NULL}

\* Whoever follows link from p in M comes to c.
Leads(link, M, p, c) == \A S \in SUBSET M : Keeps(link, p, S) => c \in S

\* M is what is linked from p, without a cycle and with one way to each member.
IsList(link, p, M) ==
  /\ Keeps(link, p, M)
  /\ \A c \in M : p # NULL => link[c] # p
  /\ \A c, d \in M : link[c] = link[d] /\ link[c] # NULL => c = d
  /\ \A c \in M : Leads(link, M, p, c)

\* No member links to itself.
LEMMA NoSelfLink ==
  ASSUME NEW link, NEW p, NEW M, NULL \notin M, IsList(link, p, M), NEW c \in M
  PROVE  link[c] # c
<1> SUFFICES ASSUME link[c] = c PROVE FALSE
  OBVIOUS
<1>1. c # NULL /\ p # c
  BY DEF IsList
<1>2. \A d \in M : link[d] = c => d = c
  BY <1>1 DEF IsList
<1>3. Keeps(link, p, M \ {c})
  BY <1>1, <1>2 DEF IsList, Keeps
<1> QED
  BY <1>3 DEF IsList, Leads

\* The only way to an end is on from where one stands.
LEMMA LeadsOn ==
  ASSUME NEW link, NEW M, NULL \notin M, NEW w \in M, NEW c \in M, c # w,
         link[w] \in M \cup {NULL}, Leads(link, M, w, c)
  PROVE  link[w] # NULL /\ Leads(link, M, link[w], c)
<1>1. link[w] # NULL
  <2> SUFFICES ASSUME link[w] = NULL PROVE FALSE
    OBVIOUS
  <2>1. Keeps(link, w, {w})
    BY DEF Keeps
  <2> QED
    BY <2>1 DEF Leads
<1>2. ASSUME NEW S \in SUBSET M, Keeps(link, link[w], S)
      PROVE  c \in S
  <2>1. Keeps(link, w, S \cup {w})
    BY <1>1, <1>2 DEF Keeps
  <2> QED
    BY <2>1 DEF Leads
<1> QED
  BY <1>1, <1>2 DEF Leads

\* Nothing is found from NULL.
LEMMA NullLeadsNowhere ==
  ASSUME NEW link, NEW M, NEW c
  PROVE  ~Leads(link, M, NULL, c)
<1>1. Keeps(link, NULL, {})
  BY DEF Keeps
<1> QED
  BY <1>1 DEF Leads

\* The first member is taken out by going on to the second.
LEMMA HeadRemoved ==
  ASSUME NEW link, NEW p, NEW M, NULL \notin M, IsList(link, p, M), p # NULL
  PROVE  IsList(link, link[p], M \ {p})
<1>1. p \in M /\ link[p] \in M \cup {NULL} /\ link[p] # p
  BY NoSelfLink DEF IsList, Keeps
<1>2. Keeps(link, link[p], M \ {p})
  BY <1>1 DEF IsList, Keeps
<1>3. \A c \in M \ {p} : link[p] # NULL => link[c] # link[p]
  BY <1>1 DEF IsList
<1>4. ASSUME NEW c \in M \ {p} PROVE Leads(link, M \ {p}, link[p], c)
  <2>1. Leads(link, M, p, c)
    BY DEF IsList
  <2>2. Leads(link, M, link[p], c)
    BY <1>1, <2>1, LeadsOn
  <2> QED
    BY <2>2 DEF Leads
<1> QED
  BY <1>2, <1>3, <1>4 DEF IsList

\* What a list leads to it still leads to when another member has been unlinked.
LEMMA LeadsPast ==
  ASSUME NEW link, NEW M, NULL \notin M, NEW w \in M, NEW e \in M, link[w] = e,
         link[e] \in M \cup {NULL}, w # e, NEW q, q # e, NEW c \in M, c # e,
         NEW link2, \A d \in M : link2[d] = IF d = w THEN link[e] ELSE link[d],
         Leads(link, M, q, c)
  PROVE  Leads(link2, M \ {e}, q, c)
<1> SUFFICES ASSUME NEW S \in SUBSET (M \ {e}), Keeps(link2, q, S)
             PROVE  c \in S
  BY DEF Leads
<1>1. CASE w \in S
  <2>1. Keeps(link, q, S \cup {e})
    BY <1>1 DEF Keeps
  <2> QED
    BY <2>1 DEF Leads
<1>2. CASE w \notin S
  <2>1. Keeps(link, q, S)
    BY <1>2 DEF Keeps
  <2> QED
    BY <2>1 DEF Leads
<1> QED
  BY <1>1, <1>2

\* LL_DELETE of a member that has one before it.
LEMMA InnerRemoved ==
  ASSUME NEW link, NEW p, NEW M, NULL \notin M, IsList(link, p, M),
         NEW w \in M, NEW e \in M, link[w] = e,
         NEW link2, \A d \in M : link2[d] = IF d = w THEN link[e] ELSE link[d]
  PROVE  IsList(link2, p, M \ {e})
<1>1. e # NULL /\ w # e /\ p # e /\ link[e] # e /\ link[e] \in M \cup {NULL}
  BY NoSelfLink DEF IsList, Keeps
<1>2. \A d \in M : link[d] = e => d = w
  BY <1>1 DEF IsList
<1>3. Keeps(link2, p, M \ {e})
  BY <1>1, <1>2 DEF IsList, Keeps
<1>4. \A c \in M \ {e} : p # NULL => link2[c] # p
  BY <1>1 DEF IsList
<1>5. \A c, d \in M \ {e} : link2[c] = link2[d] /\ link2[c] # NULL => c = d
  BY <1>1 DEF IsList
<1>6. ASSUME NEW c \in M \ {e} PROVE Leads(link2, M \ {e}, p, c)
  BY <1>1, LeadsPast DEF IsList
<1> QED
  BY <1>3, <1>4, <1>5, <1>6 DEF IsList

\* LL_APPEND behind the last member.
LEMMA LastAppended ==
  ASSUME NEW link, NEW p, NEW M, NULL \notin M, IsList(link, p, M),
         NEW w \in M, link[w] = NULL, NEW e, e \notin M, e # NULL, link[e] = NULL,
         NEW link2, \A d \in M \cup {e} : link2[d] = IF d = w THEN e ELSE link[d]
  PROVE  IsList(link2, p, M \cup {e})
<1>1. p \in M \cup {NULL} /\ p # e /\ w # e
  BY DEF IsList, Keeps
<1>2. Keeps(link2, p, M \cup {e})
  BY <1>1 DEF IsList, Keeps
<1>3. \A c \in M \cup {e} : p # NULL => link2[c] # p
  BY <1>1 DEF IsList
<1>4. \A c, d \in M \cup {e} : link2[c] = link2[d] /\ link2[c] # NULL => c = d
  BY <1>1 DEF IsList, Keeps
<1>5. ASSUME NEW c \in M \cup {e} PROVE Leads(link2, M \cup {e}, p, c)
  <2> SUFFICES ASSUME NEW S \in SUBSET (M \cup {e}), Keeps(link2, p, S)
               PROVE  c \in S
    BY DEF Leads
  <2>1. Keeps(link, p, S \ {e})
    <3>1. \A d \in S \ {e} : link[d] \in (S \ {e}) \cup {NULL}
      BY <1>1 DEF Keeps, IsList
    <3> QED
      BY <3>1, <1>1 DEF Keeps
  <2>2. M \subseteq S
    BY <2>1 DEF IsList, Leads
  <2>3. e \in S
    BY <2>2, <1>1 DEF Keeps
  <2> QED
    BY <2>2, <2>3
<1> QED
  BY <1>2, <1>3, <1>4, <1>5 DEF IsList

\* Only the links of the members make a list.
LEMMA SameLinks ==
  ASSUME NEW link, NEW link2, NEW p, NEW M, \A c \in M : link2[c] = link[c]
  PROVE  /\ IsList(link, p, M) => IsList(link2, p, M)
         /\ \A q, c : Leads(link, M, q, c) => Leads(link2, M, q, c)
<1>1. \A q : \A S \in SUBSET M : Keeps(link2, q, S) => Keeps(link, q, S)
  BY DEF Keeps
<1>2. \A q, c : Leads(link, M, q, c) => Leads(link2, M, q, c)
  BY <1>1 DEF Leads
<1>3. IsList(link, p, M) => IsList(link2, p, M)
  BY <1>2 DEF IsList, Keeps
<1> QED
  BY <1>2, <1>3

-----------------------------------------------------------------------------
(* The inductive invariant.                                                *)

\* The clients that are in the list: all but the one that LL_APPEND has not linked
\* yet or LL_DELETE has unlinked already.
Linked == IF pc \in {"append", "free"} THEN live \ {elt} ELSE live

ListTypes ==
  /\ next \in [Clients \cup {JUNK} -> Clients \cup {NULL, JUNK}]
  /\ flags \in [Clients \cup {JUNK} -> SUBSET Flags]
  /\ live \subseteq Clients
  /\ pc \in {"loop", "append", "unlink", "free", "each", "exited"}
  /\ sweep \in {"none", "idle", "all"}

AtLoop == pc = "loop" => sweep = "none" /\ tmp = NULL

Appending ==
  pc = "append" =>
    /\ elt \in live /\ next[elt] = NULL /\ flags[elt] = {"IN_USE"}
    /\ walk \in Linked
    /\ sweep = "none"

\* LL_DELETE works on a client that nothing speaks for; a sweep knows what came
\* after it.
Deleting ==
  pc \in {"unlink", "free"} =>
    /\ elt \in live
    /\ sweep = "all" \/ flags[elt] = {}
    /\ next[elt] \in (live \ {elt}) \cup {NULL}
    /\ tmp = IF sweep = "none" THEN NULL ELSE next[elt]

\* The _tmp of LL_DELETE comes before the client to be deleted.
Unlinking ==
  pc = "unlink" => walk \in live /\ walk # elt /\ Leads(next, live, walk, elt)

Sweeping ==
  pc = "each" => sweep # "none" /\ elt \in live \cup {NULL} /\ tmp \in {NULL, elt}

\* A client of the list that the sweep does not come to from p keeps its place.
Met(p) ==
  \A c \in Linked \ {elt} :
    \/ Leads(next, Linked, p, c)
    \/ sweep = "idle" /\ ~CLIENT_IS_FLAGS_FREE(flags[c])

SweptSoFar ==
  /\ pc = "each" => Met(elt)
  /\ pc \in {"unlink", "free"} /\ sweep # "none" => Met(tmp)

ListInv ==
  /\ ListTypes
  /\ AtLoop /\ Appending /\ Deleting /\ Unlinking /\ Sweeping
  /\ IsList(next, head, Linked)
  /\ SweptSoFar

-----------------------------------------------------------------------------
(* Each step keeps it.                                                     *)

LEMMA NoNullClient == ASSUME ListTypes PROVE NULL \notin live /\ NULL \notin Linked
BY ActiveListAssumption DEF ListTypes, Linked

\* The empty list holds nothing.
LEMMA EmptyList ==
  ASSUME NEW link, NEW M, IsList(link, NULL, M)
  PROVE  M = {}
BY NullLeadsNowhere DEF IsList

LEMMA StartsListed == Init => ListInv
<1> SUFFICES ASSUME Init PROVE ListInv
  OBVIOUS
<1>1. Linked = {} /\ pc = "loop"
  BY DEF Init, Linked
<1>2. ListTypes
  BY DEF Init, ListTypes
<1>3. IsList(next, head, Linked)
  BY <1>1 DEF Init, IsList, Keeps
<1> QED
  BY <1>1, <1>2, <1>3
  DEF Init, ListInv, AtLoop, Appending, Deleting, Unlinking, Sweeping, SweptSoFar

LEMMA CreateKeeps ==
  ASSUME ListInv, NEW c \in Clients, createClient(c)
  PROVE  ListInv'
<1>1. /\ pc = "loop" /\ sweep = "none" /\ tmp = NULL /\ Linked = live
      /\ c \notin live /\ c # NULL /\ c # JUNK
      /\ live' = live \cup {c} /\ sweep' = sweep /\ tmp' = tmp
  BY ActiveListAssumption DEF createClient, ListInv, AtLoop, Linked, at
<1>2. /\ flags' = [flags EXCEPT ![c] = {"IN_USE"}]
      /\ next' = [next EXCEPT ![c] = NULL]
  BY DEF createClient, appended_next
<1>3. next'[c] = NULL /\ flags'[c] = {"IN_USE"} /\ \A d \in live : next'[d] = next[d]
  BY <1>1, <1>2 DEF ListInv, ListTypes
<1>4. ListTypes'
  BY <1>1, <1>2 DEF createClient, ListInv, ListTypes, Flags, at
<1>5. CASE head = NULL
  <2>1. head' = c /\ pc' = "loop" /\ live = {}
    BY <1>1, <1>5, EmptyList DEF createClient, ListInv, at
  <2>2. Linked' = {c}
    BY <1>1, <2>1 DEF Linked
  <2>3. IsList(next', head', Linked')
    BY <1>1, <1>3, <2>1, <2>2 DEF IsList, Keeps, Leads
  <2> QED
    BY <1>1, <1>4, <2>1, <2>3
    DEF ListInv, AtLoop, Appending, Deleting, Unlinking, Sweeping, SweptSoFar
<1>6. CASE head # NULL
  <2>1. head' = head /\ pc' = "append" /\ elt' = c /\ walk' = head
    BY <1>6 DEF createClient
  <2>2. Linked' = live
    BY <1>1, <2>1 DEF Linked
  <2>3. IsList(next', head', Linked')
    BY <1>1, <1>3, <2>1, <2>2, SameLinks DEF ListInv
  <2>4. head \in live
    BY <1>1, <1>6 DEF ListInv, IsList, Keeps
  <2> QED
    BY <1>1, <1>3, <1>4, <2>1, <2>2, <2>3, <2>4
    DEF ListInv, AtLoop, Appending, Deleting, Unlinking, Sweeping, SweptSoFar
<1> QED
  BY <1>5, <1>6

LEMMA AppendKeeps ==
  ASSUME ListInv, LL_APPEND
  PROVE  ListInv'
<1>1. /\ pc = "append" /\ elt \in live /\ elt \in Clients /\ next[elt] = NULL
      /\ Linked = live \ {elt} /\ walk \in Linked /\ sweep = "none" /\ NULL \notin live
  BY NoNullClient DEF LL_APPEND, ListInv, ListTypes, Appending, Linked
<1>2. /\ live' = live /\ flags' = flags /\ head' = head
  BY DEF LL_APPEND, list
<1>3. CASE next[walk] # NULL
  <2>1. UNCHANGED <<next, pc, sweep, elt, tmp>> /\ walk' = next[walk]
    BY <1>3 DEF LL_APPEND, list
  <2>2. Linked' = Linked
    BY <1>2, <2>1 DEF Linked
  <2>3. next[walk] \in Linked
    BY <1>1, <1>3 DEF ListInv, IsList, Keeps
  <2>4. ListTypes' /\ Appending'
    BY <1>1, <1>2, <2>1, <2>2, <2>3 DEF ListInv, ListTypes, Appending
  <2> QED
    BY <1>1, <1>2, <2>1, <2>2, <2>4
    DEF ListInv, AtLoop, Deleting, Unlinking, Sweeping, SweptSoFar
<1>4. CASE next[walk] = NULL
  <2>1. /\ next' = [next EXCEPT ![walk] = elt]
        /\ pc' = "loop" /\ sweep' = "none" /\ tmp' = NULL
    BY <1>4 DEF LL_APPEND, return
  <2>2. Linked' = Linked \cup {elt}
    BY <1>1, <1>2, <2>1 DEF Linked
  <2>3. \A d \in Linked \cup {elt} : next'[d] = IF d = walk THEN elt ELSE next[d]
    BY <1>1, <2>1 DEF ListInv, ListTypes
  <2>4. IsList(next', head', Linked')
    BY <1>1, <1>2, <1>4, <2>2, <2>3, LastAppended DEF ListInv
  <2>5. ListTypes'
    BY <1>1, <1>2, <2>1 DEF ListInv, ListTypes
  <2> QED
    BY <2>1, <2>4, <2>5
    DEF ListInv, AtLoop, Appending, Deleting, Unlinking, Sweeping, SweptSoFar
<1> QED
  BY <1>3, <1>4

\* LL_DELETE either takes the first client out or looks for the one before it.
LEMMA DeleteBegins ==
  ASSUME ListTypes, IsList(next, head, live), NEW c \in live, LL_DELETE(c)
  PROVE  \/ pc' = "free" /\ IsList(next, head', live \ {c})
         \/ /\ pc' = "unlink" /\ head' = head
            /\ walk' \in live /\ walk' # c /\ Leads(next, live, walk', c)
<1>1. NULL \notin live
  BY NoNullClient
<1>2. CASE head = c
  BY <1>1, <1>2, HeadRemoved DEF LL_DELETE, IsHead
<1>3. CASE head # c
  <2>1. head' = head /\ walk' = head /\ pc' = "unlink"
    BY <1>3 DEF LL_DELETE, IsHead
  <2>2. head # NULL
    BY EmptyList
  <2>3. head \in live /\ Leads(next, live, head, c)
    BY <2>2 DEF IsList, Keeps
  <2> QED
    BY <1>3, <2>1, <2>3
<1> QED
  BY <1>2, <1>3

LEMMA CloseKeeps ==
  ASSUME ListInv, NEW c \in Clients, on_close(c)
  PROVE  ListInv'
<1>1. /\ pc = "loop" /\ sweep = "none" /\ tmp = NULL /\ Linked = live /\ c \in live
      /\ next' = next /\ live' = live /\ sweep' = sweep /\ tmp' = tmp
  BY DEF on_close, ListInv, AtLoop, Linked
<1>2. flags' = [flags EXCEPT ![c] = @ \ {"IN_USE"}]
  BY DEF on_close
<1>3. ListTypes /\ IsList(next, head, live)
  BY <1>1 DEF ListInv
<1>4. flags' \in [Clients \cup {JUNK} -> SUBSET Flags] /\ flags'[c] \subseteq Flags
  BY <1>2, <1>3 DEF ListTypes
<1>5. next[c] \in (live \ {c}) \cup {NULL}
  BY <1>1, <1>3, NoNullClient, NoSelfLink DEF IsList, Keeps
<1>6. CASE CLIENT_IS_FLAGS_FREE(flags'[c])
  <2>1. elt' = c /\ LL_DELETE(c)
    BY <1>6 DEF on_close
  <2>2. flags'[c] = {}
    BY <1>4, <1>6 DEF CLIENT_IS_FLAGS_FREE
  <2>3. \/ pc' = "free" /\ IsList(next, head', live \ {c})
        \/ /\ pc' = "unlink" /\ head' = head
           /\ walk' \in live /\ walk' # c /\ Leads(next, live, walk', c)
    BY <1>1, <1>3, <2>1, DeleteBegins
  <2>4. ListTypes'
    BY <1>1, <1>3, <1>4, <2>3 DEF ListTypes
  <2>5. IsList(next', head', Linked')
    BY <1>1, <1>3, <2>1, <2>3 DEF Linked
  <2> QED
    BY <1>1, <1>5, <2>1, <2>2, <2>3, <2>4, <2>5
    DEF ListInv, AtLoop, Appending, Deleting, Unlinking, Sweeping, SweptSoFar
<1>7. CASE ~CLIENT_IS_FLAGS_FREE(flags'[c])
  <2>1. UNCHANGED <<head, pc, elt, walk>>
    BY <1>7 DEF on_close
  <2>2. ListTypes' /\ Linked' = live
    BY <1>1, <1>3, <1>4, <2>1 DEF ListTypes, Linked
  <2> QED
    BY <1>1, <1>3, <2>1, <2>2
    DEF ListInv, AtLoop, Appending, Deleting, Unlinking, Sweeping, SweptSoFar
<1> QED
  BY <1>6, <1>7

LEMMA UnlinkKeeps ==
  ASSUME ListInv, unlink
  PROVE  ListInv'
<1>1. /\ pc = "unlink" /\ Linked = live /\ NULL \notin live
      /\ elt \in live /\ walk \in live /\ walk # elt /\ Leads(next, live, walk, elt)
      /\ tmp \in (live \ {elt}) \cup {NULL} /\ next[elt] \in (live \ {elt}) \cup {NULL}
  BY NoNullClient DEF unlink, ListInv, Deleting, Unlinking, Linked
<1>2. UNCHANGED <<head, live, flags, sweep, elt, tmp>>
  BY DEF unlink
<1>3. ListTypes /\ IsList(next, head, live)
  BY <1>1 DEF ListInv
<1>4. next[walk] \in live /\ Leads(next, live, next[walk], elt)
  BY <1>1, <1>3, LeadsOn DEF IsList, Keeps
<1>5. CASE next[walk] # elt
  <2>1. walk' = next[walk] /\ UNCHANGED <<next, pc>>
    BY <1>1, <1>4, <1>5 DEF unlink
  <2>2. ListTypes' /\ Linked' = Linked
    BY <1>2, <1>3, <2>1 DEF ListTypes, Linked
  <2>3. Unlinking' /\ Deleting'
    BY <1>2, <1>4, <1>5, <2>1 DEF ListInv, Unlinking, Deleting
  <2>4. SweptSoFar'
    BY <1>2, <2>1, <2>2 DEF ListInv, SweptSoFar, Met
  <2> QED
    BY <1>1, <1>2, <2>1, <2>2, <2>3, <2>4 DEF ListInv, AtLoop, Appending, Sweeping
<1>6. CASE next[walk] = elt
  <2>1. next' = [next EXCEPT ![walk] = next[elt]] /\ pc' = "free"
    BY <1>6 DEF unlink
  <2>2. next[elt] \in live \cup {NULL}
    BY <1>1, <1>3 DEF IsList, Keeps
  <2>3. \A d \in live : next'[d] = IF d = walk THEN next[elt] ELSE next[d]
    BY <1>3, <2>1 DEF ListTypes
  <2>4. Linked' = live \ {elt}
    BY <1>2, <2>1 DEF Linked
  <2>5. IsList(next', head', Linked')
    BY <1>1, <1>2, <1>3, <1>6, <2>3, <2>4, InnerRemoved
  <2>6. ListTypes'
    BY <1>2, <1>3, <2>1, <2>2 DEF ListTypes
  <2>7. Deleting'
    BY <1>1, <1>2, <2>1, <2>3 DEF ListInv, Deleting
  <2>8. SweptSoFar'
    <3>1. ASSUME sweep # "none", NEW c \in live \ {elt}
          PROVE  \/ Leads(next', live \ {elt}, tmp, c)
                 \/ sweep = "idle" /\ ~CLIENT_IS_FLAGS_FREE(flags[c])
      <4>1. Leads(next, live, tmp, c) \/ (sweep = "idle" /\ ~CLIENT_IS_FLAGS_FREE(flags[c]))
        BY <1>1, <3>1 DEF ListInv, SweptSoFar, Met
      <4>2. tmp # elt
        BY <1>1
      <4> QED
        BY <1>1, <1>6, <2>2, <2>3, <4>1, <4>2, LeadsPast
    <3> QED
      BY <1>2, <2>1, <2>4, <3>1 DEF SweptSoFar, Met
  <2> QED
    BY <1>1, <2>1, <2>5, <2>6, <2>7, <2>8
    DEF ListInv, AtLoop, Appending, Unlinking, Sweeping
<1> QED
  BY <1>5, <1>6

LEMMA FreeKeeps ==
  ASSUME ListInv, free_client
  PROVE  ListInv'
<1>1. /\ pc = "free" /\ elt \in live /\ elt \in Clients /\ Linked = live \ {elt}
      /\ tmp \in (live \ {elt}) \cup {NULL}
      /\ live' = live \ {elt} /\ head' = head
  BY DEF free_client, ListInv, ListTypes, Deleting, Linked
<1>2. /\ next' = [next EXCEPT ![elt] = JUNK]
      /\ flags' = [flags EXCEPT ![elt] = {}]
  BY DEF free_client
<1>3. \A c \in Linked : next'[c] = next[c] /\ flags'[c] = flags[c]
  BY <1>1, <1>2 DEF ListInv, ListTypes
<1>4. CASE sweep = "none"
  <2>1. pc' = "loop" /\ sweep' = "none" /\ tmp' = NULL
    BY <1>4 DEF free_client, return
  <2>2. ListTypes' /\ Linked' = Linked
    BY <1>1, <1>2, <2>1 DEF ListInv, ListTypes, Linked
  <2>3. IsList(next', head', Linked')
    BY <1>1, <1>3, <2>2, SameLinks DEF ListInv
  <2> QED
    BY <2>1, <2>2, <2>3
    DEF ListInv, AtLoop, Appending, Deleting, Unlinking, Sweeping, SweptSoFar
<1>5. CASE sweep # "none"
  <2>1. pc' = "each" /\ elt' = tmp /\ sweep' = sweep /\ tmp' = tmp
    BY <1>5 DEF free_client, following
  <2>2. ListTypes' /\ Linked' = Linked
    BY <1>1, <1>2, <2>1 DEF ListInv, ListTypes, Linked
  <2>3. IsList(next', head', Linked')
    BY <1>1, <1>3, <2>2, SameLinks DEF ListInv
  <2>4. Met(tmp)
    BY <1>1, <1>5 DEF ListInv, SweptSoFar
  <2>5. ASSUME NEW c \in Linked
        PROVE  \/ Leads(next', Linked, tmp, c)
               \/ sweep = "idle" /\ ~CLIENT_IS_FLAGS_FREE(flags'[c])
    BY <1>1, <1>3, <2>4, <2>5, SameLinks DEF Met
  <2>6. SweptSoFar'
    BY <2>1, <2>2, <2>5 DEF SweptSoFar, Met
  <2> QED
    BY <1>1, <1>5, <2>1, <2>2, <2>3, <2>6
    DEF ListInv, AtLoop, Appending, Deleting, Unlinking, Sweeping
<1> QED
  BY <1>4, <1>5

LEMMA StartKeeps ==
  ASSUME ListInv, NEW who \in {"idle", "all"}, start(who)
  PROVE  ListInv'
<1>1. /\ pc = "loop" /\ tmp = NULL /\ Linked = live
      /\ UNCHANGED <<head, next, live, flags, tmp>>
      /\ sweep' = who /\ pc' = "each" /\ elt' = head
  BY DEF start, first, list, ListInv, AtLoop, Linked
<1>2. ListTypes' /\ Linked' = live
  BY <1>1 DEF ListInv, ListTypes, Linked
<1>3. IsList(next', head', Linked') /\ elt' \in live \cup {NULL}
  BY <1>1, <1>2 DEF ListInv, IsList, Keeps
<1>4. Met(elt)'
  BY <1>1, <1>2 DEF ListInv, IsList, Met
<1> QED
  BY <1>1, <1>2, <1>3, <1>4
  DEF ListInv, AtLoop, Appending, Deleting, Unlinking, Sweeping, SweptSoFar

LEMMA EachKeeps ==
  ASSUME ListInv, LL_FOREACH_SAFE
  PROVE  ListInv'
<1>1. /\ pc = "each" /\ Linked = live /\ NULL \notin live /\ sweep # "none"
      /\ elt \in live /\ tmp' = next[elt]
      /\ UNCHANGED <<next, live, flags, sweep>>
  BY NoNullClient DEF LL_FOREACH_SAFE, ListInv, Sweeping, Linked
<1>2. ListTypes /\ IsList(next, head, live)
  BY <1>1 DEF ListInv
<1>3. next[elt] \in (live \ {elt}) \cup {NULL}
  BY <1>1, <1>2, NoSelfLink DEF IsList, Keeps
<1>4. ASSUME NEW c \in live \ {elt}
      PROVE  \/ Leads(next, live, next[elt], c)
             \/ sweep = "idle" /\ ~CLIENT_IS_FLAGS_FREE(flags[c])
  <2>1. Leads(next, live, elt, c) \/ (sweep = "idle" /\ ~CLIENT_IS_FLAGS_FREE(flags[c]))
    BY <1>1 DEF ListInv, SweptSoFar, Met
  <2> QED
    BY <1>1, <1>3, <2>1, LeadsOn
<1>5. CASE sweep = "all" \/ CLIENT_IS_FLAGS_FREE(flags[elt])
  <2>1. elt' = elt /\ LL_DELETE(elt)
    BY <1>5 DEF LL_FOREACH_SAFE
  <2>2. sweep = "all" \/ flags[elt] = {}
    BY <1>1, <1>2, <1>5 DEF CLIENT_IS_FLAGS_FREE, ListTypes
  <2>3. \/ pc' = "free" /\ IsList(next, head', live \ {elt})
        \/ /\ pc' = "unlink" /\ head' = head
           /\ walk' \in live /\ walk' # elt /\ Leads(next, live, walk', elt)
    BY <1>1, <1>2, <2>1, DeleteBegins
  <2>4. ListTypes'
    BY <1>1, <1>2, <2>3 DEF ListTypes
  <2>5. IsList(next', head', Linked')
    BY <1>1, <1>2, <2>1, <2>3 DEF Linked
  <2>6. Deleting'
    BY <1>1, <1>3, <2>1, <2>2 DEF Deleting
  <2>7. Met(tmp)'
    <3>1. \A c : Leads(next, live, next[elt], c) => Leads(next, live \ {elt}, next[elt], c)
      BY DEF Leads
    <3> QED
      BY <1>1, <1>4, <2>1, <2>3, <3>1 DEF Met, Linked
  <2> QED
    BY <1>1, <2>1, <2>3, <2>4, <2>5, <2>6, <2>7
    DEF ListInv, AtLoop, Appending, Unlinking, Sweeping, SweptSoFar
<1>6. CASE ~(sweep = "all" \/ CLIENT_IS_FLAGS_FREE(flags[elt]))
  <2>1. elt' = next[elt] /\ UNCHANGED <<head, pc, walk>>
    BY <1>1, <1>6 DEF LL_FOREACH_SAFE
  <2>2. ListTypes' /\ Linked' = live
    BY <1>1, <1>2, <2>1 DEF ListTypes, Linked
  <2>3. sweep = "idle"
    BY <1>1, <1>2, <1>6 DEF ListTypes
  <2>4. Met(elt)'
    BY <1>1, <1>4, <1>6, <2>1, <2>2, <2>3 DEF Met
  <2> QED
    BY <1>1, <1>2, <1>3, <2>1, <2>2, <2>4
    DEF ListInv, AtLoop, Appending, Deleting, Unlinking, Sweeping, SweptSoFar
<1> QED
  BY <1>5, <1>6

LEMMA SweptKeeps ==
  ASSUME ListInv, swept
  PROVE  ListInv'
<1>1. /\ pc = "each" /\ Linked = live /\ UNCHANGED <<head, next, live, flags>>
  BY DEF swept, list, Linked
<1>2. (pc' = "loop" /\ sweep' = "none" /\ tmp' = NULL) \/ (pc' = "exited" /\ sweep' = sweep)
  BY DEF swept, return
<1>3. ListTypes' /\ Linked' = live
  BY <1>1, <1>2 DEF ListInv, ListTypes, Linked
<1> QED
  BY <1>1, <1>2, <1>3
  DEF ListInv, AtLoop, Appending, Deleting, Unlinking, Sweeping, SweptSoFar

LEMMA FlagsKeep ==
  ASSUME ListInv, NEW c \in Clients, CLIENT_SET_IN_REF(c) \/ CLIENT_CLEAR_IN_REF(c)
  PROVE  ListInv'
<1>1. pc = "loop" /\ UNCHANGED <<head, next, live, at>>
  BY DEF CLIENT_SET_IN_REF, CLIENT_CLEAR_IN_REF
<1>2. flags' \in [Clients \cup {JUNK} -> SUBSET Flags]
  BY DEF CLIENT_SET_IN_REF, CLIENT_CLEAR_IN_REF, ListInv, ListTypes, Flags
<1> QED
  BY <1>1, <1>2
  DEF ListInv, ListTypes, AtLoop, Appending, Deleting, Unlinking, Sweeping, SweptSoFar,
      Linked, at

\* ListInv holds in every state of every list, however many clients there are.
LEMMA ListInvHolds == Spec => []ListInv
<1>1. ListInv /\ [Next]_vars => ListInv'
  <2> SUFFICES ASSUME ListInv, [Next]_vars PROVE ListInv'
    OBVIOUS
  <2>1. CASE UNCHANGED vars
    BY <2>1 DEF vars, list, at, ListInv, ListTypes, AtLoop, Appending, Deleting, Unlinking,
                Sweeping, SweptSoFar, Linked, Met
  <2>2. CASE Turn
    BY <2>2, AppendKeeps, UnlinkKeeps, FreeKeeps, EachKeeps, SweptKeeps DEF Turn
  <2>3. CASE cleanup_freeList \/ cleanup_resources
    BY <2>3, StartKeeps DEF cleanup_freeList, cleanup_resources
  <2>4. ASSUME NEW c \in Clients,
               \/ createClient(c) \/ on_close(c)
               \/ CLIENT_SET_IN_REF(c) \/ CLIENT_CLEAR_IN_REF(c)
        PROVE  ListInv'
    BY <2>4, CreateKeeps, CloseKeeps, FlagsKeep
  <2> QED
    BY <2>1, <2>2, <2>3, <2>4 DEF Next
<1> QED
  BY <1>1, StartsListed, PTL DEF Spec

-----------------------------------------------------------------------------
(* What follows.                                                           *)

\* Whatever connections come and go and whoever sweeps, each pointer the macros of
\* utlist.h are about to follow is NULL or leads to an allocated client.
THEOREM PointersAreLive == Spec => []PointersLive
<1>1. ListInv => PointersLive
  <2> SUFFICES ASSUME ListInv PROVE PointersLive
    OBVIOUS
  <2>1. head \in Linked \cup {NULL} /\ \A c \in Linked : next[c] \in Linked \cup {NULL}
    BY DEF ListInv, IsList, Keeps
  <2>2. Linked \subseteq live
    BY DEF Linked
  <2>3. head \in live \cup {NULL}
    BY <2>1, <2>2
  <2>4. \A c \in live : next[c] \in live \cup {NULL}
    <3>1. ASSUME NEW c \in live, c \notin Linked
          PROVE  next[c] \in live \cup {NULL}
      <4>1. c = elt /\ pc \in {"append", "free"}
        BY <3>1 DEF Linked
      <4>2. CASE pc = "append"
        BY <4>1, <4>2 DEF ListInv, Appending
      <4>3. CASE pc = "free"
        BY <4>1, <4>3 DEF ListInv, Deleting
      <4> QED
        BY <4>1, <4>2, <4>3
    <3> QED
      BY <2>1, <2>2, <3>1
  <2>5. pc \in {"append", "unlink"} => walk \in live
    BY <2>2 DEF ListInv, Appending, Unlinking
  <2>6. pc \in {"append", "unlink", "free"} => elt \in live
    BY DEF ListInv, Appending, Deleting
  <2>7. pc \in {"each", "unlink", "free"} => {elt, tmp} \subseteq live \cup {NULL}
    BY DEF ListInv, Deleting, Sweeping
  <2> QED
    BY <2>3, <2>4, <2>5, <2>6, <2>7 DEF PointersLive
<1> QED
  BY <1>1, ListInvHolds, PTL

\* What is found from head is the list.
LEMMA ReachableIsLinked == ASSUME ListInv PROVE Reachable = Linked
<1>1. /\ Linked \subseteq Clients /\ NULL \notin Linked /\ NULL \notin Clients \cup {JUNK}
      /\ IsList(next, head, Linked)
  BY NoNullClient, ActiveListAssumption DEF ListInv, ListTypes, Linked
<1>2. Closed(head, Linked) /\ Linked \in SUBSET (Clients \cup {JUNK})
  BY <1>1 DEF Closed, IsList, Keeps
<1>3. ASSUME NEW S \in SUBSET (Clients \cup {JUNK}), Closed(head, S)
      PROVE  Linked \subseteq S
  <2>1. Keeps(next, head, S \cap Linked)
    BY <1>1, <1>3 DEF Closed, IsList, Keeps
  <2> QED
    BY <1>1, <2>1 DEF IsList, Leads
<1> QED
  BY <1>1, <1>2, <1>3 DEF Reachable

\* A client that has joined stays linked from head until it is deleted.
THEOREM NoClientIsLost == Spec => []NoneLost
<1>1. ListInv => NoneLost
  BY ReachableIsLinked DEF NoneLost, Linked
<1> QED
  BY <1>1, ListInvHolds, PTL

\* The timer's sweep frees every client whose flags are clear, although it deletes
\* clients while it iterates, and cleanup_resources frees them all.
THEOREM SweepsAreComplete == Spec => SweepComplete
<1>1. ListInv /\ [Next]_vars
        => [swept => \A c \in live : sweep = "idle" /\ ~CLIENT_IS_FLAGS_FREE(flags[c])]_vars
  <2> SUFFICES ASSUME ListInv, swept, NEW c \in live
               PROVE  sweep = "idle" /\ ~CLIENT_IS_FLAGS_FREE(flags[c])
    OBVIOUS
  <2>1. pc = "each" /\ elt = NULL /\ Linked = live /\ NULL \notin live
    BY NoNullClient DEF swept, ListInv, Linked
  <2>2. Met(elt)
    BY <2>1 DEF ListInv, SweptSoFar
  <2> QED
    BY <2>1, <2>2, NullLeadsNowhere DEF Met
<1> QED
  BY <1>1, ListInvHolds, PTL DEF Spec, SweepComplete

-----------------------------------------------------------------------------
(* The list implements the pool.                                           *)

Linkage == ListInv /\ Reachable = Linked

\* What ClientPool sees of the list changes only with its members, with their flags
\* and with the start of cleanup_resources.
LEMMA OutsideList ==
  ASSUME Linkage, Linkage', Linked' = Linked, \A c \in Linked : flags'[c] = flags[c],
         sweep' = "all" <=> sweep = "all"
  PROVE  UNCHANGED Pool!poolVars
<1>1. Reachable' = Reachable
  BY DEF Linkage
<1>2. \A c \in Reachable : flags'[c] = flags[c]
  BY DEF Linkage
<1>3. (sweep = "all")' = (sweep = "all")
  OBVIOUS
<1>4. {c \in Reachable : "IN_USE" \in flags[c]}' = {c \in Reachable : "IN_USE" \in flags[c]}
  BY <1>1, <1>2
<1>5. {c \in Reachable : "IN_REF" \in flags[c]}' = {c \in Reachable : "IN_REF" \in flags[c]}
  BY <1>1, <1>2
<1> QED
  BY <1>1, <1>3, <1>4, <1>5 DEF Pool!poolVars

\* A client joins in use and without a reference.
LEMMA JoinsList ==
  ASSUME Linkage, Linkage', NEW c \in Clients, c \notin Linked, Linked' = Linked \cup {c},
         \A d \in Linked : flags'[d] = flags[d], flags'[c] = {"IN_USE"},
         sweep = "none", sweep' = "none"
  PROVE  Pool!Next
<1>1. Reachable' = Reachable \cup {c} /\ c \notin Reachable
  BY DEF Linkage
<1>2. \A d \in Reachable : flags'[d] = flags[d]
  BY DEF Linkage
<1>3. {d \in Reachable : "IN_USE" \in flags[d]}'
        = {d \in Reachable : "IN_USE" \in flags[d]} \cup {c}
  BY <1>1, <1>2
<1>4. {d \in Reachable : "IN_REF" \in flags[d]}' = {d \in Reachable : "IN_REF" \in flags[d]}
  BY <1>1, <1>2
<1>5. Pool!Connect(c)
  BY <1>1, <1>3, <1>4 DEF Pool!Connect
<1> QED
  BY <1>5 DEF Pool!Next

\* A client leaves with clear flags, or when the loop is over.
LEMMA LeavesList ==
  ASSUME Linkage, Linkage', NEW c \in Clients, c \in Linked, Linked' = Linked \ {c},
         flags' = flags, sweep' = sweep, sweep = "all" \/ flags[c] = {}
  PROVE  Pool!Next
<1>1. Reachable' = Reachable \ {c} /\ c \in Reachable
  BY DEF Linkage
<1>2. {d \in Reachable : "IN_USE" \in flags[d]}'
        = {d \in Reachable : "IN_USE" \in flags[d]} \ {c}
  BY <1>1
<1>3. {d \in Reachable : "IN_REF" \in flags[d]}'
        = {d \in Reachable : "IN_REF" \in flags[d]} \ {c}
  BY <1>1
<1>4. (sweep = "all")' = (sweep = "all")
  OBVIOUS
<1>5. Pool!Free({c})
  BY <1>1, <1>2, <1>3, <1>4 DEF Pool!Free
<1> QED
  BY <1>5 DEF Pool!Next

LEMMA AppendJoins ==
  ASSUME Linkage, Linkage', LL_APPEND
  PROVE  Pool!Next \/ UNCHANGED Pool!poolVars
<1>1. /\ pc = "append" /\ elt \in live /\ elt \in Clients /\ flags[elt] = {"IN_USE"}
      /\ Linked = live \ {elt} /\ sweep = "none" /\ live' = live /\ flags' = flags
  BY DEF LL_APPEND, list, Linkage, ListInv, ListTypes, Appending, Linked
<1>2. CASE next[walk] # NULL
  <2>1. pc' = pc /\ elt' = elt /\ sweep' = sweep
    BY <1>2 DEF LL_APPEND
  <2> QED
    BY <1>1, <2>1, OutsideList DEF Linked
<1>3. CASE next[walk] = NULL
  <2>1. pc' = "loop" /\ sweep' = "none"
    BY <1>3 DEF LL_APPEND, return
  <2>2. Linked' = Linked \cup {elt} /\ elt \notin Linked
    BY <1>1, <2>1 DEF Linked
  <2> QED
    BY <1>1, <2>1, <2>2, JoinsList
<1> QED
  BY <1>2, <1>3

LEMMA CreateJoins ==
  ASSUME Linkage, Linkage', NEW c \in Clients, createClient(c)
  PROVE  Pool!Next \/ UNCHANGED Pool!poolVars
<1>1. /\ pc = "loop" /\ sweep = "none" /\ Linked = live /\ c \notin live
      /\ live' = live \cup {c} /\ sweep' = sweep
  BY DEF createClient, Linkage, ListInv, AtLoop, Linked, at
<1>2. flags'[c] = {"IN_USE"} /\ \A d \in live : flags'[d] = flags[d]
  BY <1>1 DEF createClient, Linkage, ListInv, ListTypes
<1>3. CASE head = NULL
  <2>1. Linked' = Linked \cup {c}
    BY <1>1, <1>3 DEF createClient, at, Linked
  <2> QED
    BY <1>1, <1>2, <2>1, JoinsList
<1>4. CASE head # NULL
  <2>1. Linked' = Linked
    BY <1>1, <1>4 DEF createClient, Linked
  <2> QED
    BY <1>1, <1>2, <2>1, OutsideList
<1> QED
  BY <1>3, <1>4

LEMMA UnlinkLeaves ==
  ASSUME Linkage, Linkage', unlink
  PROVE  Pool!Next \/ UNCHANGED Pool!poolVars
<1>1. /\ pc = "unlink" /\ elt \in live /\ elt \in Clients /\ Linked = live
      /\ sweep = "all" \/ flags[elt] = {}
      /\ live' = live /\ flags' = flags /\ sweep' = sweep /\ elt' = elt
  BY DEF unlink, Linkage, ListInv, ListTypes, Deleting, Linked
<1>2. CASE pc' = pc
  BY <1>1, <1>2, OutsideList DEF Linked
<1>3. CASE pc' = "free"
  <2>1. Linked' = Linked \ {elt}
    BY <1>1, <1>3 DEF Linked
  <2> QED
    BY <1>1, <2>1, LeavesList
<1> QED
  BY <1>2, <1>3 DEF unlink

LEMMA EachLeaves ==
  ASSUME Linkage, Linkage', LL_FOREACH_SAFE
  PROVE  Pool!Next \/ UNCHANGED Pool!poolVars
<1>1. /\ pc = "each" /\ elt \in live /\ elt \in Clients /\ Linked = live
      /\ live' = live /\ flags' = flags /\ sweep' = sweep
  BY DEF LL_FOREACH_SAFE, Linkage, ListInv, ListTypes, Sweeping, Linked
<1>2. CASE pc' = "free"
  <2>1. elt' = elt /\ (sweep = "all" \/ CLIENT_IS_FLAGS_FREE(flags[elt]))
    BY <1>1, <1>2 DEF LL_FOREACH_SAFE
  <2>2. sweep = "all" \/ flags[elt] = {}
    BY <1>1, <2>1 DEF CLIENT_IS_FLAGS_FREE, Linkage, ListInv, ListTypes
  <2>3. Linked' = Linked \ {elt}
    BY <1>1, <1>2, <2>1 DEF Linked
  <2> QED
    BY <1>1, <2>2, <2>3, LeavesList
<1>3. CASE pc' \in {"each", "unlink"}
  <2>1. Linked' = Linked
    BY <1>1, <1>3 DEF Linked
  <2> QED
    BY <1>1, <2>1, OutsideList
<1> QED
  BY <1>1, <1>2, <1>3 DEF LL_FOREACH_SAFE, LL_DELETE

LEMMA FreedBefore ==
  ASSUME Linkage, Linkage', free_client \/ swept \/ start("idle")
  PROVE  UNCHANGED Pool!poolVars
<1>1. CASE free_client
  <2>1. /\ Linked = live \ {elt} /\ live' = live \ {elt} /\ pc' \in {"loop", "each"}
        /\ sweep' = sweep
    BY <1>1 DEF free_client, return, Linked
  <2>2. Linked' = Linked
    BY <2>1 DEF Linked
  <2>3. \A c \in Linked : flags'[c] = flags[c]
    BY <1>1, <2>1 DEF free_client, Linkage, ListInv, ListTypes
  <2> QED
    BY <2>1, <2>2, <2>3, OutsideList
<1>2. CASE swept
  <2>1. Linked' = Linked /\ flags' = flags /\ (sweep' = "all" <=> sweep = "all")
    BY <1>2 DEF swept, return, list, Linked
  <2> QED
    BY <2>1, OutsideList
<1>3. CASE start("idle")
  <2>1. Linked' = Linked /\ flags' = flags /\ sweep = "none" /\ sweep' = "idle"
    BY <1>3 DEF start, list, Linked, Linkage, ListInv, AtLoop
  <2> QED
    BY <2>1, OutsideList
<1> QED
  BY <1>1, <1>2, <1>3

LEMMA AllStops ==
  ASSUME Linkage, Linkage', start("all")
  PROVE  Pool!Next
<1>1. /\ Linked' = Linked /\ flags' = flags /\ sweep' = "all"
  BY DEF start, list, Linked
<1>2. Reachable' = Reachable
  BY <1>1 DEF Linkage
<1> QED
  BY <1>1, <1>2 DEF Pool!Next, Pool!Stop

\* The last callback of a connection: IN_USE is cleared, and with it the client is
\* gone at once, if it is the first one, or after LL_DELETE's loop.
LEMMA CloseInPool ==
  ASSUME Linkage, Linkage', NEW c \in Clients, on_close(c)
  PROVE  Pool!Next
<1>1. /\ pc = "loop" /\ Linked = live /\ c \in live /\ "IN_USE" \in flags[c]
      /\ live' = live /\ sweep' = sweep /\ Reachable = live
  BY DEF on_close, Linkage, Linked
<1>2. /\ flags'[c] = flags[c] \ {"IN_USE"} /\ flags'[c] \subseteq Flags
      /\ \A d \in live \ {c} : flags'[d] = flags[d]
  BY <1>1 DEF on_close, Linkage, ListInv, ListTypes
<1>3. (sweep = "all")' = (sweep = "all")
  BY <1>1
<1>4. CASE pc' = "free"
  <2>1. elt' = c /\ CLIENT_IS_FLAGS_FREE(flags'[c])
    BY <1>1, <1>4 DEF on_close
  <2>2. flags'[c] = {} /\ Reachable' = live \ {c}
    BY <1>1, <1>2, <1>4, <2>1 DEF CLIENT_IS_FLAGS_FREE, Linkage, Linked
  <2>3. {d \in Reachable : "IN_USE" \in flags[d]}'
          = {d \in Reachable : "IN_USE" \in flags[d]} \ {c}
    BY <1>1, <1>2, <2>2
  <2>4. /\ {d \in Reachable : "IN_REF" \in flags[d]}' = {d \in Reachable : "IN_REF" \in flags[d]}
        /\ "IN_REF" \notin flags[c]
    BY <1>1, <1>2, <2>2
  <2>5. Pool!Close(c)
    BY <1>1, <1>3, <2>2, <2>3, <2>4 DEF Pool!Close
  <2> QED
    BY <2>5 DEF Pool!Next
<1>5. CASE pc' \in {"loop", "unlink"}
  <2>1. Reachable' = live
    BY <1>1, <1>5 DEF Linkage, Linked
  <2>2. {d \in Reachable : "IN_USE" \in flags[d]}'
          = {d \in Reachable : "IN_USE" \in flags[d]} \ {c}
    BY <1>1, <1>2, <2>1
  <2>3. {d \in Reachable : "IN_REF" \in flags[d]}' = {d \in Reachable : "IN_REF" \in flags[d]}
    BY <1>1, <1>2, <2>1
  <2>4. Pool!Close(c)
    BY <1>1, <1>3, <2>1, <2>2, <2>3 DEF Pool!Close
  <2> QED
    BY <2>4 DEF Pool!Next
<1> QED
  BY <1>1, <1>4, <1>5 DEF on_close, LL_DELETE

\* send_file_context and final_sendfile.
LEMMA ReferenceInPool ==
  ASSUME Linkage, Linkage', NEW c \in Clients, CLIENT_SET_IN_REF(c) \/ CLIENT_CLEAR_IN_REF(c)
  PROVE  Pool!Next
<1>1. /\ pc = "loop" /\ c \in live /\ Reachable = live /\ Reachable' = live
      /\ UNCHANGED <<pc, live, sweep>>
  BY DEF CLIENT_SET_IN_REF, CLIENT_CLEAR_IN_REF, at, Linkage, Linked
<1>2. \A d \in live \ {c} : flags'[d] = flags[d]
  BY <1>1 DEF CLIENT_SET_IN_REF, CLIENT_CLEAR_IN_REF, Linkage, ListInv, ListTypes
<1>3. (sweep = "all")' = (sweep = "all")
  BY <1>1
<1>4. CASE CLIENT_SET_IN_REF(c)
  <2>1. flags'[c] = flags[c] \cup {"IN_REF"}
    BY <1>1, <1>4 DEF CLIENT_SET_IN_REF, Linkage, ListInv, ListTypes
  <2>2. {d \in Reachable : "IN_USE" \in flags[d]}' = {d \in Reachable : "IN_USE" \in flags[d]}
    BY <1>1, <1>2, <2>1
  <2>3. {d \in Reachable : "IN_REF" \in flags[d]}'
          = {d \in Reachable : "IN_REF" \in flags[d]} \cup {c}
    BY <1>1, <1>2, <2>1
  <2>4. Pool!Reference(c)
    BY <1>1, <1>3, <2>2, <2>3 DEF Pool!Reference
  <2> QED
    BY <2>4 DEF Pool!Next
<1>5. CASE CLIENT_CLEAR_IN_REF(c)
  <2>1. flags'[c] = flags[c] \ {"IN_REF"}
    BY <1>1, <1>5 DEF CLIENT_CLEAR_IN_REF, Linkage, ListInv, ListTypes
  <2>2. {d \in Reachable : "IN_USE" \in flags[d]}' = {d \in Reachable : "IN_USE" \in flags[d]}
    BY <1>1, <1>2, <2>1
  <2>3. {d \in Reachable : "IN_REF" \in flags[d]}'
          = {d \in Reachable : "IN_REF" \in flags[d]} \ {c}
    BY <1>1, <1>2, <2>1
  <2>4. Pool!Unreference(c)
    BY <1>1, <1>3, <2>2, <2>3 DEF Pool!Unreference
  <2> QED
    BY <2>4 DEF Pool!Next
<1> QED
  BY <1>4, <1>5

\* Followed pointer by pointer, the list is the set that the server's life of a
\* client is about: each step of a macro adds one client in use, takes out one that
\* may go, or changes nothing that can be seen from head.
THEOREM ListImplementsPool == Spec => ImplementsPool
<1>1. Init => Pool!Init
  <2> SUFFICES ASSUME Init PROVE Pool!Init
    OBVIOUS
  <2>1. Reachable = {}
    BY StartsListed, ReachableIsLinked DEF Init, Linked
  <2> QED
    BY <2>1 DEF Init, Pool!Init
<1>2. ListInv => Linkage
  BY ReachableIsLinked DEF Linkage
<1>3. Linkage /\ Linkage' /\ [Next]_vars => [Pool!Next]_Pool!poolVars
  <2> SUFFICES ASSUME Linkage, Linkage', [Next]_vars
               PROVE  Pool!Next \/ UNCHANGED Pool!poolVars
    OBVIOUS
  <2>1. CASE UNCHANGED vars
    BY <2>1, OutsideList DEF vars, list, at, Linked
  <2>2. CASE Turn
    BY <2>2, AppendJoins, UnlinkLeaves, EachLeaves, FreedBefore DEF Turn
  <2>3. CASE cleanup_freeList \/ cleanup_resources
    BY <2>3, FreedBefore, AllStops DEF cleanup_freeList, cleanup_resources
  <2>4. ASSUME NEW c \in Clients,
               \/ createClient(c) \/ on_close(c)
               \/ CLIENT_SET_IN_REF(c) \/ CLIENT_CLEAR_IN_REF(c)
        PROVE  Pool!Next \/ UNCHANGED Pool!poolVars
    BY <2>4, CreateJoins, CloseInPool, ReferenceInPool
  <2> QED
    BY <2>1, <2>2, <2>3, <2>4 DEF Next
<1> QED
  BY <1>1, <1>2, <1>3, ListInvHolds, PTL DEF Spec, ImplementsPool, Pool!Spec
=============================================================================
