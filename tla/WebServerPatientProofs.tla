------------------------ MODULE WebServerPatientProofs ------------------------
(***************************************************************************)
(* What peers get that also wait for their last answer before they go      *)
(* away, for every number of peers, requests and default files: serial and *)
(* lockstep ones an exchange of messages and answers as HttpExchange       *)
(* describes it, serial ones a server, too, that runs into no undefined    *)
(* behaviour and forgets nothing.                                          *)
(***************************************************************************)
EXTENDS WebServerWaitingProofs

\* No connection breaks before its requests are answered.
PatientPeers == WaitingPeers /\ ~EarlyClose

\* The stages in which a callback still has to use the client_t, or the worker its
\* socket, before the answer is out.
Ongoing == {"stat", "default", "header", "open", "sendfile"}

-----------------------------------------------------------------------------
(* The answers on the wire and the chains that write them.                 *)

LastOn(c) == wire[c][Len(wire[c])]

Last(c, kind, r) == wire[c] # <<>> /\ LastOn(c) = [kind |-> kind, req |-> r]

\* What a peer is sent answers its own requests.
WireOwn == \A c \in Clients : \A i \in DOMAIN wire[c] : conn[wire[c][i].req] = c

\* An answer that is under way on the wire is not complete.
Settled ==
  \A c \in Clients : ~Exchange!Over(c) => ~OnWire(c, LastOn(c).req, {"page", "body"})

Opening(r) == IF stage[r] = "fixed" THEN "page" ELSE "head"

Answering(r) ==
  LET c == conn[r]
  IN  /\ stage[r] \in {"stat", "default"} => ~Exchange!Seen(r) /\ Exchange!Over(c)
      /\ stage[r] \in {"fixed", "header"} =>
           (~Exchange!Seen(r) /\ Exchange!Over(c)) \/ Last(c, Opening(r), r)
      /\ stage[r] \in {"open", "sendfile"} => Last(c, "head", r)

WireInv == WireOwn /\ Settled /\ \A r \in Requests : Answering(r)

LEMMA WireInit == Init => WireInv
BY DEF Init, WireInv, WireOwn, Settled, Answering, Exchange!Over

\* What Append does to what a connection's peer has been sent.
LEMMA Appended ==
  ASSUME NEW S, NEW s \in Seq(S), NEW e \in S
  PROVE  /\ Append(s, e) # <<>> /\ Append(s, e)[Len(Append(s, e))] = e
         /\ \A i \in DOMAIN s : i \in DOMAIN Append(s, e) /\ Append(s, e)[i] = s[i]
         /\ \A i \in DOMAIN Append(s, e) : i \in DOMAIN s \/ Append(s, e)[i] = e
OBVIOUS

LEMMA LastIn ==
  ASSUME TypeOK, NEW c \in Clients, wire[c] # <<>>
  PROVE  Len(wire[c]) \in DOMAIN wire[c] /\ LastOn(c) \in Event
BY DEF TypeOK, LastOn

\* Whose answer is not over has not been answered.
LEMMA NotAnswered ==
  ASSUME Pool, ReadOnce, WireInv, NEW r \in Requests, stage[r] \in Ongoing
  PROVE  conn[r] \in Clients /\ ~OnWire(conn[r], r, {"page", "body"})
<1>1. conn[r] \in Clients
  BY DEF Ongoing, ReadOnce, Pool, TypeOK
<1>2. CASE ~Exchange!Seen(r)
  BY <1>1, <1>2 DEF Exchange!Seen, OnWire
<1>3. CASE Last(conn[r], "head", r)
  <2>1. ~Exchange!Over(conn[r])
    BY <1>3 DEF Last, LastOn, Exchange!Over
  <2> QED
    BY <1>1, <1>3, <2>1 DEF WireInv, Settled, Last
<1>4. stage[r] # "fixed"
  BY DEF Ongoing
<1>5. \/ ~Exchange!Seen(r)
      \/ Last(conn[r], "head", r)
  BY <1>4 DEF WireInv, Answering, Ongoing, Opening
<1> QED
  BY <1>1, <1>2, <1>3, <1>5

\* A page or a header that is on the wire is the last thing there until its own
\* callback has run.
LEMMA WrittenLast ==
  ASSUME Pool, ReadOnce, WireInv, NEW r \in Requests, stage[r] \in {"fixed", "header"},
         \E kinds : OnWire(conn[r], r, kinds)
  PROVE  Last(conn[r], Opening(r), r)
<1>1. conn[r] \in Clients
  BY DEF ReadOnce, Pool, TypeOK
<1>2. Exchange!Seen(r)
  BY <1>1 DEF OnWire, Exchange!Seen
<1> QED
  BY <1>2 DEF WireInv, Answering

Advances(r) ==
  \/ stage'[r] = stage[r]
  \/ stage'[r] \in {"sent", "close", "done"}
  \/ stage[r] \in {"stat", "default"} /\ stage'[r] \in {"default", "fixed", "header"}
  \/ stage[r] = "header" /\ stage'[r] = "open" /\ Written(conn[r], r)
  \/ stage[r] = "open" /\ stage'[r] = "sendfile"

\* A step that sends nothing.
LEMMA WireKept ==
  ASSUME Pool, ReadOnce, WireInv, UNCHANGED <<wire, conn>>,
         \A r \in Requests : Advances(r)
  PROVE  WireInv'
<1>1. WireOwn' /\ Settled'
  BY DEF WireInv, WireOwn, Settled, LastOn, OnWire, Exchange!Over
<1>2. ASSUME NEW r \in Requests
      PROVE  Answering(r)'
  <2>1. Answering(r) /\ Advances(r)
    BY DEF WireInv
  <2>2. CASE stage'[r] = stage[r]
    BY <2>1, <2>2 DEF Answering, Last, LastOn, Opening, Exchange!Over, Exchange!Seen
  <2>3. CASE stage'[r] \in {"sent", "close", "done"}
    BY <2>3 DEF Answering
  <2>4. CASE stage[r] \in {"stat", "default"} /\ stage'[r] \in {"default", "fixed", "header"}
    BY <2>1, <2>4 DEF Answering, Exchange!Over, Exchange!Seen
  <2>5. CASE stage[r] = "header" /\ stage'[r] = "open" /\ Written(conn[r], r)
    <3>1. Last(conn[r], "head", r)
      BY <2>5, WrittenLast DEF Written, Opening
    <3> QED
      BY <2>5, <3>1 DEF Answering, Last, LastOn
  <2>6. CASE stage[r] = "open" /\ stage'[r] = "sendfile"
    BY <2>1, <2>6 DEF Answering, Last, LastOn
  <2> QED
    BY <2>1, <2>2, <2>3, <2>4, <2>5, <2>6 DEF Advances
<1> QED
  BY <1>1, <1>2 DEF WireInv

\* An event for r on its own connection, where no other answer is under way.
LEMMA WireAppended ==
  ASSUME Pool, ReadOnce, WireInv, NEW r \in Requests, NEW kind \in {"page", "head", "body", "part"},
         conn[r] \in Clients, conn' = conn,
         wire' = [wire EXCEPT ![conn[r]] = Append(wire[conn[r]], [kind |-> kind, req |-> r])],
         kind \in {"head", "part"} => ~OnWire(conn[r], r, {"page", "body"}),
         \A q \in Requests \ {r} : conn[q] = conn[r] =>
           stage[q] \notin {"stat", "default", "fixed", "header", "open", "sendfile"},
         \A q \in Requests \ {r} : stage'[q] = stage[q],
         Last(conn[r], kind, r)' => Answering(r)'
  PROVE  WireInv'
<1> DEFINE c == conn[r]
           e == [kind |-> kind, req |-> r]
<1>1. wire[c] \in Seq(Event) /\ e \in Event /\ wire \in [Clients -> Seq(Event)]
  BY DEF Pool, TypeOK, Event
<1>2. wire'[c] = Append(wire[c], e) /\ \A d \in Clients \ {c} : wire'[d] = wire[d]
  BY <1>1
<1>3. /\ wire'[c] # <<>> /\ LastOn(c)' = e
      /\ \A i \in DOMAIN wire[c] : i \in DOMAIN wire'[c] /\ wire'[c][i] = wire[c][i]
      /\ \A i \in DOMAIN wire'[c] : (i \in DOMAIN wire[c] /\ wire'[c][i] = wire[c][i])
                                     \/ wire'[c][i] = e
  BY <1>1, <1>2, Appended DEF LastOn
<1>4. e.kind = kind /\ e.req = r
  OBVIOUS
<1> HIDE DEF e
<1>5. \A q \in Requests \ {r} : Exchange!Seen(q)' => Exchange!Seen(q)
  BY <1>2, <1>3, <1>4 DEF Exchange!Seen
<1>6. WireOwn'
  BY <1>2, <1>3, <1>4 DEF WireInv, WireOwn
<1>7. Settled'
  <2> SUFFICES ASSUME NEW d \in Clients, ~Exchange!Over(d)'
               PROVE  ~OnWire(d, LastOn(d).req, {"page", "body"})'
    BY DEF Settled
  <2>1. CASE d = c
    <3>1. kind \notin {"page", "body"}
      BY <1>3, <1>4, <2>1 DEF Exchange!Over, LastOn
    <3> QED
      BY <1>3, <1>4, <2>1, <3>1 DEF OnWire
  <2>2. CASE d # c
    BY <1>2, <2>2 DEF WireInv, Settled, Exchange!Over, LastOn, OnWire
  <2> QED
    BY <2>1, <2>2
<1>8. ASSUME NEW q \in Requests
      PROVE  Answering(q)'
  <2>1. CASE q = r
    BY <1>3, <2>1 DEF Last, e
  <2>2. CASE q # r /\ conn[q] = c
    BY <2>2 DEF Answering
  <2>3. CASE q # r /\ conn[q] # c
    <3>1. Answering(q) /\ stage'[q] = stage[q]
      BY <2>3 DEF WireInv
    <3>2. CASE stage[q] = "none"
      BY <3>1, <3>2 DEF Answering
    <3>3. CASE stage[q] # "none"
      <4>1. conn[q] \in Clients \ {c}
        BY <2>3, <3>3 DEF ReadOnce, Pool, TypeOK
      <4>2. wire'[conn[q]] = wire[conn[q]]
        BY <1>2, <4>1
      <4> QED
        BY <1>5, <2>3, <3>1, <4>2 DEF Answering, Last, LastOn, Opening, Exchange!Over
    <3> QED
      BY <3>2, <3>3
  <2> QED
    BY <2>1, <2>2, <2>3
<1> QED
  BY <1>6, <1>7, <1>8 DEF WireInv

\* No other chain of the connection is under way.
LEMMA OthersRest ==
  ASSUME WaitingPeers, Pool, ReadOnce, WaitInv, NEW r \in Requests, Unfinished(r),
         NEW q \in Requests \ {r}, conn[q] = conn[r]
  PROVE  stage[q] \notin {"stat", "default", "fixed", "header", "open", "sendfile"}
BY Trailing DEF WaitInv, OneAtATime, Unfinished

\* flush sends the page or the header of the one chain that has a write queued.
LEMMA FlushSends ==
  ASSUME WaitingPeers, Pool, ReadOnce, WaitInv, WireInv, NEW c \in Clients, flush(c)
  PROVE  \E r \in Requests :
           /\ conn[r] = c /\ stage[r] \in {"fixed", "header"}
           /\ ~Exchange!Seen(r) /\ Exchange!Over(c)
           /\ wire' = [wire EXCEPT ![c] = Append(wire[c], [kind |-> Opening(r), req |-> r])]
           /\ UNCHANGED <<conn, stage>>
<1>1. PICK i \in DOMAIN writeq[c] :
        /\ ~Written(c, writeq[c][i])
        /\ wire' = [wire EXCEPT ![c] = Append(wire[c],
                      [kind |-> Opening(writeq[c][i]), req |-> writeq[c][i]])]
  BY DEF flush, Opening
<1>2. writeq[c] # <<>>
  BY <1>1 DEF Pool, TypeOK
<1>3. PICK r \in Requests : /\ conn[r] = c /\ stage[r] \in {"fixed", "header"}
                            /\ writeq[c] = <<r>>
  BY <1>2 DEF WaitInv, QueueOwn, Own
<1>4. writeq[c][i] = r
  BY <1>1, <1>3
<1>5. ~Exchange!Seen(r) /\ Exchange!Over(c)
  <2>1. \/ ~Exchange!Seen(r) /\ Exchange!Over(c)
        \/ Last(c, Opening(r), r)
    BY <1>3 DEF WireInv, Answering
  <2>2. ASSUME Last(c, Opening(r), r)
        PROVE  FALSE
    <3>1. Opening(r) \in {"page", "head"} /\ LastOn(c).kind = Opening(r) /\ LastOn(c).req = r
      BY <2>2 DEF Last, Opening
    <3>2. Written(c, r)
      BY <2>2, <3>1, LastIn DEF Pool, Last, LastOn, Written, OnWire
    <3> QED
      BY <1>1, <1>4, <3>2
  <2> QED
    BY <2>1, <2>2
<1> QED
  BY <1>1, <1>3, <1>4, <1>5 DEF flush, chain

LEMMA WireFlush ==
  ASSUME WaitingPeers, Pool, ReadOnce, WaitInv, WireInv, NEW c \in Clients, flush(c)
  PROVE  WireInv'
<1>1. PICK r \in Requests :
           /\ conn[r] = c /\ stage[r] \in {"fixed", "header"}
           /\ ~Exchange!Seen(r) /\ Exchange!Over(c)
           /\ wire' = [wire EXCEPT ![c] = Append(wire[c], [kind |-> Opening(r), req |-> r])]
           /\ UNCHANGED <<conn, stage>>
  BY FlushSends
<1>2. Opening(r) \in {"page", "head"} /\ Opening(r)' = Opening(r)
  BY <1>1 DEF Opening
<1>3. Unfinished(r)
  BY <1>1, Trailing DEF Unfinished
<1>4. ~OnWire(conn[r], r, {"page", "body"})
  BY <1>1 DEF OnWire, Exchange!Seen
<1>5. Last(conn[r], Opening(r), r)' => Answering(r)'
  BY <1>1 DEF Answering
<1>6. \A q \in Requests \ {r} : conn[q] = conn[r] =>
        stage[q] \notin {"stat", "default", "fixed", "header", "open", "sendfile"}
  BY <1>3, OthersRest
<1>7. CASE stage[r] = "fixed"
  <2>1. Opening(r) = "page" /\ Opening(r)' = "page"
    BY <1>1, <1>7 DEF Opening
  <2> QED
    BY <1>1, <1>4, <1>5, <1>6, <2>1, WireAppended
<1>8. CASE stage[r] = "header"
  <2>1. Opening(r) = "head" /\ Opening(r)' = "head"
    BY <1>1, <1>8 DEF Opening
  <2> QED
    BY <1>1, <1>4, <1>5, <1>6, <2>1, WireAppended
<1> QED
  BY <1>1, <1>7, <1>8

-----------------------------------------------------------------------------
(* The connections stay open for the chains that need them.                *)

Sockets ==
  /\ \A c \in Clients : handle[c] # "open" => sock[c] = NULL
  /\ \A c, d \in Clients : sock[c] = sock[d] /\ sock[c] # NULL => c = d
  /\ phase \notin Serving => \A c \in Clients : handle[c] # "open"

Connected(r) ==
  LET c == conn[r]
  IN  /\ stage[r] \in Ongoing =>
           /\ handle[c] # "closing" /\ mem[c] = "live"
           /\ phase \in Serving => handle[c] = "open"
      /\ stage[r] = "fixed" /\ phase \in Serving /\ handle[c] # "open" => Written(c, r)
      /\ stage[r] = "sendfile" /\ phase \in Serving => io[r].fd = sock[c]

ConnInv == Sockets /\ \A r \in Requests : Connected(r)

LEMMA ConnInit == Init => ConnInv
BY DEF Init, ConnInv, Sockets, Connected, Ongoing, Serving

\* A write that is queued keeps its client.
LEMMA QueuedLive ==
  ASSUME Pool, ReadOnce, WaitInv, NEW r \in Requests, stage[r] \in {"fixed", "header"}
  PROVE  /\ conn[r] \in Clients /\ writeq[conn[r]] = <<r>>
         /\ handle[conn[r]] \in {"open", "closing", "closing_null"} /\ mem[conn[r]] = "live"
<1>1. conn[r] \in Clients
  BY DEF ReadOnce, Pool, TypeOK
<1>2. writeq[conn[r]] = <<r>>
  BY DEF WaitInv, InHand
<1> QED
  BY <1>1, <1>2 DEF Pool, HandleOutlived

\* A chain that goes on, and whatever is sent.
LEMMA ConnChain ==
  ASSUME ConnInv, UNCHANGED <<phase, handle, sock>>,
         \A c \in Clients, r \in Requests : Written(c, r) => Written(c, r)',
         \A r \in Requests :
           \/ /\ stage'[r] = stage[r] /\ io'[r] = io[r] /\ conn'[r] = conn[r]
              /\ stage[r] # "none" => conn[r] \in Clients
              /\ stage[r] # "none" => mem'[conn[r]] = mem[conn[r]]
           \/ stage'[r] \notin Ongoing \cup {"fixed"}
           \/ /\ stage[r] \in {"stat", "default", "header", "open"}
              /\ stage'[r] \in {"default", "header", "open", "fixed", "sendfile"}
              /\ conn'[r] = conn[r] /\ mem'[conn[r]] = mem[conn[r]]
              /\ stage'[r] = "sendfile" /\ phase \in Serving => io'[r].fd = sock[conn[r]]
           \/ /\ stage'[r] \in {"stat", "fixed"}
              /\ handle[conn'[r]] = "open" /\ mem'[conn'[r]] = "live"
  PROVE  ConnInv'
<1>1. Sockets'
  BY DEF ConnInv, Sockets
<1>2. ASSUME NEW r \in Requests
      PROVE  Connected(r)'
  <2>1. Connected(r)
    BY DEF ConnInv
  <2>2. CASE /\ stage'[r] = stage[r] /\ io'[r] = io[r] /\ conn'[r] = conn[r]
             /\ stage[r] # "none" => conn[r] \in Clients
             /\ stage[r] # "none" => mem'[conn[r]] = mem[conn[r]]
    BY <2>1, <2>2 DEF Connected, Ongoing
  <2>3. CASE stage'[r] \notin Ongoing \cup {"fixed"}
    BY <2>3 DEF Connected, Ongoing
  <2>4. CASE /\ stage[r] \in {"stat", "default", "header", "open"}
             /\ stage'[r] \in {"default", "header", "open", "fixed", "sendfile"}
             /\ conn'[r] = conn[r] /\ mem'[conn[r]] = mem[conn[r]]
             /\ stage'[r] = "sendfile" /\ phase \in Serving => io'[r].fd = sock[conn[r]]
    BY <2>1, <2>4 DEF Connected, Ongoing
  <2>5. CASE /\ stage'[r] \in {"stat", "fixed"}
             /\ handle[conn'[r]] = "open" /\ mem'[conn'[r]] = "live"
    BY <2>1, <2>5 DEF Connected, Ongoing
  <2> QED
    BY <2>2, <2>3, <2>4, <2>5
<1> QED
  BY <1>1, <1>2 DEF ConnInv

LEMMA ConnRead ==
  ASSUME WaitingPeers, Pool, ReadOnce, WaitInv, ConnInv,
         NEW c \in Clients, NEW r \in Requests, NEW k \in Chunks, on_read(c, r, k)
  PROVE  ConnInv'
<1>1. /\ stage[r] = "none" /\ handle[c] = "open" /\ conn' = [conn EXCEPT ![r] = c]
      /\ \E s \in {"stat", "fixed", "done"} : stage' = [stage EXCEPT ![r] = s]
      /\ \A q \in Requests \ {r} : io'[q] = io[q]
      /\ UNCHANGED <<mem, wire>>
  BY ReadEffect DEF Pool
<1>2. UNCHANGED <<phase, handle, sock>>
  BY DEF on_read
<1>3. mem[c] = "live"
  BY <1>1 DEF Pool, HandleOutlived
<1>4. /\ conn'[r] = c /\ stage'[r] \in {"stat", "fixed", "done"}
      /\ \A q \in Requests \ {r} : /\ conn'[q] = conn[q] /\ stage'[q] = stage[q]
                                   /\ stage[q] # "none" => conn[q] \in Clients
  BY <1>1 DEF Pool, TypeOK, ReadOnce
<1>5. \A d \in Clients, q \in Requests : Written(d, q) => Written(d, q)'
  BY <1>1 DEF Written, OnWire
<1>6. stage'[r] = "done" => stage'[r] \notin Ongoing \cup {"fixed"}
  BY DEF Ongoing
<1> QED
  BY <1>1, <1>2, <1>3, <1>4, <1>5, <1>6, ConnChain

\* Nobody closes a connection whose request is not answered.
LEMMA ConnClose ==
  ASSUME PatientPeers, Pool, ReadOnce, WireInv, ConnInv, NEW c \in Clients, on_read_close(c)
  PROVE  ConnInv'
<1>1. /\ AllAnswered(c) /\ handle[c] = "open" /\ phase \in Serving
      /\ handle' = [handle EXCEPT ![c] = "closing"]
      /\ sock' = [sock EXCEPT ![c] = NULL]
      /\ UNCHANGED <<phase, mem, conn, stage, io, wire>>
  BY DEF on_read_close, uv_close, MayClose, PatientPeers, pool, chain
<1>2. /\ handle'[c] = "closing" /\ \A d \in Clients \ {c} : handle'[d] = handle[d]
      /\ sock'[c] = NULL /\ \A d \in Clients \ {c} : sock'[d] = sock[d]
  BY <1>1 DEF Pool, TypeOK
<1>3. Sockets'
  BY <1>1, <1>2 DEF ConnInv, Sockets
<1>4. ASSUME NEW r \in Requests
      PROVE  Connected(r)'
  <2>1. Connected(r)
    BY DEF ConnInv
  <2>2. CASE conn[r] = c
    <3>1. OnWire(c, r, {"page", "body"})
      BY <1>1, <2>2 DEF AllAnswered, Own
    <3>2. stage[r] \notin Ongoing
      BY <2>2, <3>1, NotAnswered
    <3>3. stage[r] = "fixed" => Written(c, r)'
      <4> SUFFICES ASSUME stage[r] = "fixed"
                   PROVE  Written(c, r)'
        OBVIOUS
      <4>1. Last(c, "page", r)
        BY <2>2, <3>1, WrittenLast DEF Opening
      <4>2. wire[c] # <<>> /\ LastOn(c).kind = "page" /\ LastOn(c).req = r
        BY <4>1 DEF Last
      <4> QED
        BY <1>1, <4>2, LastIn DEF Pool, LastOn, Written, OnWire
    <3> QED
      BY <1>1, <2>2, <3>2, <3>3 DEF Connected, Ongoing
  <2>3. CASE conn[r] # c
    <3>1. stage[r] \in Ongoing \cup {"fixed"} => conn[r] \in Clients \ {c}
      BY <2>3 DEF ReadOnce, Pool, TypeOK, Ongoing
    <3> QED
      BY <1>1, <1>2, <2>1, <3>1 DEF Connected, Written, OnWire, Ongoing
  <2> QED
    BY <2>2, <2>3
<1> QED
  BY <1>3, <1>4 DEF ConnInv

LEMMA ConnConnection ==
  ASSUME WaitingPeers, Pool, ReadOnce, WaitInv, ConnInv, NEW c \in Clients, on_connection(c)
  PROVE  ConnInv'
<1>1. /\ phase \in Serving /\ mem[c] = "absent" /\ mem' = [mem EXCEPT ![c] = "live"]
      /\ UNCHANGED <<phase, conn, stage, io, wire>>
      /\ \/ \E n \in Fds : /\ \A d \in Clients : sock[d] # n
                           /\ handle' = [handle EXCEPT ![c] = "open"]
                           /\ sock' = [sock EXCEPT ![c] = n]
         \/ /\ handle' = [handle EXCEPT ![c] = "closing"]
            /\ sock' = [sock EXCEPT ![c] = NULL]
  BY DEF on_connection, uv_close, chain
<1>2. Sockets'
  <2>1. handle \in [Clients -> Handles] /\ sock \in [Clients -> Fds \cup {NULL}]
    BY DEF Pool, TypeOK
  <2>2. ASSUME NEW n \in Fds, \A d \in Clients : sock[d] # n,
               handle' = [handle EXCEPT ![c] = "open"], sock' = [sock EXCEPT ![c] = n]
        PROVE  Sockets'
    BY <1>1, <2>1, <2>2 DEF ConnInv, Sockets
  <2>3. CASE handle' = [handle EXCEPT ![c] = "closing"] /\ sock' = [sock EXCEPT ![c] = NULL]
    BY <1>1, <2>1, <2>3 DEF ConnInv, Sockets
  <2> QED
    BY <1>1, <2>2, <2>3
<1>3. ASSUME NEW r \in Requests
      PROVE  Connected(r)'
  <2>1. Connected(r)
    BY DEF ConnInv
  <2>2. CASE stage[r] \in Ongoing \cup {"fixed"}
    <3>1. mem[conn[r]] = "live" /\ conn[r] \in Clients
      BY <2>1, <2>2, QueuedLive DEF Connected, ReadOnce, Pool, TypeOK, Ongoing
    <3>2. conn[r] # c
      BY <1>1, <3>1
    <3>3. /\ handle'[conn[r]] = handle[conn[r]] /\ sock'[conn[r]] = sock[conn[r]]
          /\ mem'[conn[r]] = "live"
      BY <1>1, <3>1, <3>2 DEF Pool, TypeOK
    <3> QED
      BY <1>1, <2>1, <3>1, <3>3 DEF Connected, Written, OnWire
  <2>3. CASE stage[r] \notin Ongoing \cup {"fixed"}
    BY <1>1, <2>3 DEF Connected, Ongoing
  <2> QED
    BY <2>2, <2>3
<1> QED
  BY <1>2, <1>3 DEF ConnInv

\* A handle leaves its closing state: nobody needed it any more.
LEMMA ConnClosed ==
  ASSUME WaitingPeers, Pool, ReadOnce, WaitInv, ConnInv, NEW c \in Clients,
         on_close(c) \/ closed_silently(c)
  PROVE  ConnInv'
<1>1. /\ handle[c] \in {"closing", "closing_null"} /\ writeq[c] = <<>>
      /\ handle' = [handle EXCEPT ![c] = "closed"]
      /\ UNCHANGED <<phase, sock, conn, stage, io, wire>>
      /\ \A d \in Clients \ {c} : mem'[d] = mem[d]
      /\ handle[c] # "closing" => mem' = mem
  BY DEF on_close, closed_silently, release, chain, pool, Pool, TypeOK
<1>2. Sockets'
  BY <1>1 DEF ConnInv, Sockets, Pool, TypeOK
<1>3. ASSUME NEW r \in Requests
      PROVE  Connected(r)'
  <2>1. Connected(r)
    BY DEF ConnInv
  <2>2. CASE stage[r] \in Ongoing \cup {"fixed"}
    <3>1. conn[r] \in Clients
      BY <2>2 DEF ReadOnce, Pool, TypeOK, Ongoing
    <3>2. CASE conn[r] # c
      <4>1. handle'[conn[r]] = handle[conn[r]] /\ mem'[conn[r]] = mem[conn[r]]
        BY <1>1, <3>1, <3>2 DEF Pool, TypeOK
      <4> QED
        BY <1>1, <2>1, <3>1, <4>1 DEF Connected, Written, OnWire
    <3>3. CASE conn[r] = c
      <4>1. stage[r] # "fixed"
        BY <1>1, <3>3, QueuedLive
      <4>2. handle[c] = "closing_null" /\ phase \notin Serving
        BY <1>1, <2>1, <2>2, <3>3, <4>1 DEF Connected
      <4>3. handle'[c] = "closed" /\ mem' = mem
        BY <1>1, <4>2 DEF Pool, TypeOK
      <4> QED
        BY <1>1, <2>1, <3>3, <4>1, <4>2, <4>3 DEF Connected
    <3> QED
      BY <3>2, <3>3
  <2>3. CASE stage[r] \notin Ongoing \cup {"fixed"}
    BY <1>1, <2>3 DEF Connected, Ongoing
  <2> QED
    BY <2>2, <2>3
<1> QED
  BY <1>2, <1>3 DEF ConnInv

\* The timer frees no client that is in use.
LEMMA ConnTimer ==
  ASSUME WaitingPeers, Pool, ReadOnce, WaitInv, ConnInv, cleanup_freeList
  PROVE  ConnInv'
<1>1. /\ phase \in Serving
      /\ UNCHANGED <<phase, handle, sock, conn, stage, io, wire>>
      /\ \A c \in Clients : mem'[c] = mem[c] \/ CLIENT_IS_FLAGS_FREE(flags[c])
  BY DEF cleanup_freeList, release, chain, net
<1>2. Sockets'
  BY <1>1 DEF ConnInv, Sockets
<1>3. ASSUME NEW r \in Requests
      PROVE  Connected(r)'
  <2>1. Connected(r)
    BY DEF ConnInv
  <2>2. CASE stage[r] \in Ongoing
    <3>1. handle[conn[r]] = "open" /\ conn[r] \in Clients
      BY <1>1, <2>1, <2>2 DEF Connected, ReadOnce, Pool, TypeOK, Ongoing
    <3>2. ~CLIENT_IS_FLAGS_FREE(flags[conn[r]])
      BY <3>1 DEF Pool, HandleOutlived, CLIENT_IS_FLAGS_FREE, Flags
    <3>3. mem'[conn[r]] = mem[conn[r]]
      BY <1>1, <3>1, <3>2
    <3> QED
      BY <1>1, <2>1, <3>3 DEF Connected, Written, OnWire
  <2>3. CASE stage[r] \notin Ongoing
    BY <1>1, <2>1, <2>3 DEF Connected, Ongoing, Written, OnWire
  <2> QED
    BY <2>2, <2>3
<1> QED
  BY <1>2, <1>3 DEF ConnInv

LEMMA ConnStop ==
  ASSUME Pool, ReadOnce, ConnInv, signal_handler \/ uv_walk \/ cleanup_resources
  PROVE  ConnInv'
<1>1. CASE signal_handler
  BY <1>1
  DEF signal_handler, ConnInv, Sockets, Connected, Written, OnWire, pool, net, chain, Serving
<1>2. CASE uv_walk
  <2>1. /\ phase' \notin Serving
        /\ handle' = [c \in Clients |-> walk_cb(handle[c])]
        /\ sock' = [c \in Clients |-> NULL]
        /\ UNCHANGED <<mem, conn, stage, io, wire>>
    BY <1>2 DEF uv_walk, Serving, pool, chain
  <2>2. Sockets'
    BY <2>1 DEF Sockets, walk_cb
  <2>3. ASSUME NEW r \in Requests
        PROVE  Connected(r)'
    <3>1. Connected(r)
      BY DEF ConnInv
    <3>2. stage[r] \in Ongoing => conn[r] \in Clients
      BY DEF ReadOnce, Pool, TypeOK, Ongoing
    <3> QED
      BY <2>1, <3>1, <3>2 DEF Connected, walk_cb
  <2> QED
    BY <2>2, <2>3 DEF ConnInv
<1>3. CASE cleanup_resources
  <2>1. /\ phase' \notin Serving /\ phase \notin Serving
        /\ UNCHANGED <<handle, sock, stage>>
        /\ \A r \in Requests : stage[r] \in {"none", "done"}
    BY <1>3 DEF cleanup_resources, Quiet, Serving, net, chain
  <2> QED
    BY <2>1 DEF ConnInv, Sockets, Connected, Ongoing
<1> QED
  BY <1>1, <1>2, <1>3

\* The worker writes to the socket of its own connection, or to none.
LEMMA SendsOwn ==
  ASSUME Pool, ReadOnce, ConnInv, NEW r \in Requests, NEW sent, uv_fs_sendfile(r, sent)
  PROVE  \/ UNCHANGED wire
         \/ /\ conn[r] \in Clients
            /\ \E kind \in {"body", "part"} :
                 wire' = [wire EXCEPT ![conn[r]] = Append(wire[conn[r]], [kind |-> kind, req |-> r])]
<1> DEFINE e == [kind |-> IF sent = "full" THEN "body" ELSE "part", req |-> r]
<1>1. /\ stage[r] = "sendfile"
      /\ wire' = [c \in Clients |-> IF sock[c] = io[r].fd /\ io[r].fd # NULL
                                    THEN Append(wire[c], e) ELSE wire[c]]
  BY DEF uv_fs_sendfile
<1>2. conn[r] \in Clients /\ wire \in [Clients -> Seq(Event)]
  BY <1>1 DEF ReadOnce, Pool, TypeOK
<1>3. \E kind \in {"body", "part"} : e = [kind |-> kind, req |-> r]
  OBVIOUS
<1> HIDE DEF e
<1>4. CASE phase \notin Serving \/ io[r].fd = NULL
  <2>1. \A c \in Clients : ~(sock[c] = io[r].fd /\ io[r].fd # NULL)
    BY <1>4 DEF ConnInv, Sockets
  <2>2. wire' = [c \in Clients |-> wire[c]]
    BY <1>1, <2>1
  <2> QED
    BY <1>2, <2>2
<1>5. CASE phase \in Serving /\ io[r].fd # NULL
  <2>1. io[r].fd = sock[conn[r]]
    BY <1>1, <1>5 DEF ConnInv, Connected
  <2>2. \A c \in Clients : sock[c] = io[r].fd /\ io[r].fd # NULL <=> c = conn[r]
    BY <1>2, <1>5, <2>1 DEF ConnInv, Sockets
  <2>3. wire' = [c \in Clients |-> IF c = conn[r] THEN Append(wire[c], e) ELSE wire[c]]
    BY <1>1, <2>2
  <2>4. wire' = [wire EXCEPT ![conn[r]] = Append(wire[conn[r]], e)]
    BY <1>2, <2>3
  <2> QED
    BY <1>2, <1>3, <2>4
<1> QED
  BY <1>4, <1>5

-----------------------------------------------------------------------------
(* The steps.                                                              *)

\* A peer that waits finds every answer over when its next request is read.
LEMMA AskedInTurn ==
  ASSUME WaitingPeers, Pool, ReadOnce, WaitInv, WireInv,
         NEW c \in Clients, NEW r \in Requests, NEW k \in Chunks, on_read(c, r, k)
  PROVE  /\ conn[r] = NULL /\ ~Exchange!Seen(r) /\ Exchange!Over(c)
         /\ \A q \in Requests : conn[q] = c => Exchange!Seen(q)
<1>1. conn[r] = NULL /\ AllAnswered(c)
  BY WholeRead
<1>2. ~Exchange!Seen(r)
  <2>1. \A d \in Clients : \A i \in DOMAIN wire[d] : wire[d][i].req # r
    BY <1>1, WebServerAssumption DEF WireInv, WireOwn
  <2> QED
    BY <2>1 DEF Exchange!Seen
<1>3. Exchange!Over(c)
  <2> SUFFICES ASSUME ~Exchange!Over(c)
               PROVE  FALSE
    OBVIOUS
  <2>1. Len(wire[c]) \in DOMAIN wire[c] /\ LastOn(c) \in Event
    BY LastIn DEF Pool, Exchange!Over
  <2>2. conn[LastOn(c).req] = c /\ LastOn(c).req \in Requests
    BY <2>1 DEF WireInv, WireOwn, LastOn, Event
  <2>3. OnWire(c, LastOn(c).req, {"page", "body"})
    BY <1>1, <2>2 DEF AllAnswered, Own
  <2> QED
    BY <2>3 DEF WireInv, Settled
<1>4. \A q \in Requests : conn[q] = c => Exchange!Seen(q)
  BY <1>1 DEF AllAnswered, Own, OnWire, Exchange!Seen
<1> QED
  BY <1>1, <1>2, <1>3, <1>4

LEMMA WireRead ==
  ASSUME WaitingPeers, Pool, ReadOnce, WaitInv, WireInv,
         NEW c \in Clients, NEW r \in Requests, NEW k \in Chunks, on_read(c, r, k)
  PROVE  WireInv'
<1>1. /\ conn[r] = NULL /\ ~Exchange!Seen(r) /\ Exchange!Over(c)
  BY AskedInTurn
<1>2. /\ conn' = [conn EXCEPT ![r] = c] /\ wire' = wire /\ stage[r] = "none"
      /\ \E s \in {"stat", "fixed", "done"} : stage' = [stage EXCEPT ![r] = s]
  BY ReadEffect DEF Pool
<1>3. /\ conn'[r] = c /\ stage'[r] \in {"stat", "fixed", "done"}
      /\ \A q \in Requests \ {r} : conn'[q] = conn[q] /\ stage'[q] = stage[q]
  BY <1>2 DEF Pool, TypeOK
<1>4. \A d \in Clients : \A i \in DOMAIN wire[d] : wire[d][i].req # r /\ wire[d][i].req \in Requests
  <2>1. \A d \in Clients : \A i \in DOMAIN wire[d] : wire[d][i] \in Event
    BY DEF Pool, TypeOK
  <2> QED
    BY <1>1, <2>1 DEF Exchange!Seen, Event
<1>5. WireOwn'
  BY <1>2, <1>3, <1>4 DEF WireInv, WireOwn
<1>6. Settled'
  BY <1>2 DEF WireInv, Settled, LastOn, OnWire, Exchange!Over
<1>7. ASSUME NEW q \in Requests
      PROVE  Answering(q)'
  <2>1. Answering(q)
    BY DEF WireInv
  <2>2. CASE q = r
    BY <1>1, <1>2, <1>3, <2>2 DEF Answering, Exchange!Seen, Exchange!Over
  <2>3. CASE q # r
    BY <1>2, <1>3, <2>1, <2>3 DEF Answering, Last, LastOn, Opening, Exchange!Seen, Exchange!Over
  <2> QED
    BY <2>2, <2>3
<1> QED
  BY <1>5, <1>6, <1>7 DEF WireInv

\* What uv_fs_sendfile sends follows its own header directly.
LEMMA WireSend ==
  ASSUME WaitingPeers, Pool, ReadOnce, WaitInv, WireInv, ConnInv,
         NEW r \in Requests, NEW sent, uv_fs_sendfile(r, sent)
  PROVE  WireInv'
<1>1. stage[r] = "sendfile" /\ stage' = [stage EXCEPT ![r] = "sent"] /\ conn' = conn
  BY DEF uv_fs_sendfile
<1>2. stage'[r] = "sent" /\ \A q \in Requests \ {r} : stage'[q] = stage[q]
  BY <1>1 DEF Pool, TypeOK
<1>3. CASE UNCHANGED wire
  BY <1>1, <1>2, <1>3, WireKept DEF Advances
<1>4. ASSUME conn[r] \in Clients, NEW kind \in {"body", "part"},
             wire' = [wire EXCEPT ![conn[r]] = Append(wire[conn[r]], [kind |-> kind, req |-> r])]
      PROVE  WireInv'
  <2>1. Unfinished(r)
    BY <1>1, Trailing DEF Unfinished
  <2>2. ~OnWire(conn[r], r, {"page", "body"})
    BY <1>1, NotAnswered DEF Ongoing
  <2>3. Answering(r)'
    BY <1>2 DEF Answering
  <2>4. \A q \in Requests \ {r} : conn[q] = conn[r] =>
          stage[q] \notin {"stat", "default", "fixed", "header", "open", "sendfile"}
    BY <2>1, OthersRest
  <2> QED
    BY <1>1, <1>2, <1>4, <2>2, <2>3, <2>4, WireAppended
<1> QED
  BY <1>3, <1>4, SendsOwn

\* All other steps send nothing, and the chains advance.
LEMMA OthersSendNothing ==
  ASSUME WaitingPeers, Pool, ReadOnce, WaitInv, Next
  PROVE  \/ \E c \in Clients, r \in Requests, k \in Chunks : on_read(c, r, k)
         \/ \E c \in Clients : flush(c)
         \/ \E r \in Requests, sent \in SendResults : uv_fs_sendfile(r, sent)
         \/ UNCHANGED <<wire, conn, parser>> /\ \A r \in Requests : Advances(r)
<1> DEFINE Silent == UNCHANGED <<wire, conn, parser>> /\ \A r \in Requests : Advances(r)
<1>1. stage \in [Requests -> Stages]
  BY DEF Pool, TypeOK
<1>2. ASSUME UNCHANGED <<wire, conn, parser>>, NEW r \in Requests, NEW s,
             stage' = [stage EXCEPT ![r] = s], Advances(r)
      PROVE  Silent
  BY <1>1, <1>2 DEF Advances
<1>3. ASSUME NEW c \in Clients,
             on_connection(c) \/ on_read_close(c) \/ on_close(c) \/ closed_silently(c)
      PROVE  Silent
  BY <1>3 DEF on_connection, on_read_close, on_close, closed_silently, net, chain, Advances
<1>4. ASSUME NEW c \in Clients, NEW r \in Requests, NEW ok \in BOOLEAN,
             on_final_fix_response(c, r, ok) \/ open_send_file(c, r, ok)
      PROVE  Silent
  <2>1. conn[r] = c
    BY <1>4, WriterOwn DEF WriteCallback
  <2>2. /\ UNCHANGED <<wire, conn, parser>>
        /\ \/ stage' = [stage EXCEPT ![r] = "done"]
           \/ /\ stage' = [stage EXCEPT ![r] = "open"] /\ stage[r] = "header"
              /\ Written(conn[r], r)
    BY <1>4, <2>1 DEF on_final_fix_response, open_send_file, WriteDone, net
  <2>3. Advances(r)
    BY <1>1, <2>2 DEF Advances
  <2> QED
    BY <1>2, <2>2, <2>3
<1>5. ASSUME NEW c \in Clients, NEW r \in Requests, NEW found,
             \/ check_path_async(c, r, found) /\ found \in {"missing", "dir", "file"}
             \/ check_default_files_async(c, r, found)
      PROVE  Silent
  <2>1. /\ stage[r] \in {"stat", "default"}
        /\ \E s \in {"default", "fixed", "header", "done"} : stage' = [stage EXCEPT ![r] = s]
        /\ UNCHANGED <<wire, conn, parser>>
    BY <1>5, LookupEffect DEF Pool
  <2>2. Advances(r)
    BY <1>1, <2>1 DEF Advances
  <2> QED
    BY <1>2, <2>1, <2>2
<1>6. ASSUME NEW c \in Clients, NEW r \in Requests, NEW opened,
             send_file_context(c, r, opened) \/ final_sendfile(c, r)
      PROVE  Silent
  <2>1. /\ UNCHANGED <<wire, conn, parser>>
        /\ \/ stage[r] = "open" /\ stage' = [stage EXCEPT ![r] = "sendfile"]
           \/ \E s \in {"close", "done"} : stage' = [stage EXCEPT ![r] = s]
    BY <1>6 DEF send_file_context, final_sendfile, Callback, net
  <2>2. Advances(r)
    BY <1>1, <2>1 DEF Advances
  <2> QED
    BY <1>2, <2>1, <2>2
<1>7. ASSUME NEW r \in Requests, on_close_sendfile(r) \/ undefined_behaviour(r)
      PROVE  Silent
  <2>1. /\ UNCHANGED <<wire, conn, parser>>
        /\ UNCHANGED stage \/ stage' = [stage EXCEPT ![r] = "done"]
    BY <1>7 DEF on_close_sendfile, undefined_behaviour, net, chain
  <2> QED
    BY <1>1, <2>1 DEF Advances
<1>8. ASSUME cleanup_freeList \/ signal_handler \/ uv_walk \/ cleanup_resources
      PROVE  Silent
  BY <1>8 DEF cleanup_freeList, signal_handler, uv_walk, cleanup_resources, net, chain, Advances
<1> HIDE DEF Silent
<1>9. ASSUME NEW c \in Clients, NEW r \in Requests, WriteCallback(c, r) \/ FsCallback(c, r)
      PROVE  Silent
  BY <1>4, <1>5, <1>6, <1>9, WebServerAssumption DEF WriteCallback, FsCallback
<1>10. ASSUME NEW c \in Clients, Peer(c)
       PROVE  Silent \/ \E r \in Requests, k \in Chunks : on_read(c, r, k)
  BY <1>3, <1>10, NoParseError DEF Peer, WaitingPeers
<1>11. \/ \E c \in Clients, r \in Requests, k \in Chunks : on_read(c, r, k)
       \/ \E c \in Clients : flush(c)
       \/ \E r \in Requests, sent \in SendResults : uv_fs_sendfile(r, sent)
       \/ Silent
  <2>1. \/ \E c \in Clients : \/ Peer(c) \/ flush(c) \/ on_close(c) \/ closed_silently(c)
                            \/ \E r \in Requests : WriteCallback(c, r) \/ FsCallback(c, r)
        \/ \E r \in Requests : Worker(r) \/ undefined_behaviour(r)
        \/ cleanup_freeList \/ signal_handler \/ uv_walk \/ cleanup_resources
    BY DEF Next
  <2>2. ASSUME NEW r \in Requests, Worker(r) \/ undefined_behaviour(r)
        PROVE  Silent \/ \E sent \in SendResults : uv_fs_sendfile(r, sent)
    BY <1>7, <2>2 DEF Worker
  <2> QED
    BY <1>3, <1>8, <1>9, <1>10, <2>1, <2>2
<1> QED
  BY <1>11 DEF Silent

\* One chain moves and the others do not.
LEMMA ConnOne ==
  ASSUME Pool, ReadOnce, ConnInv, NEW r \in Requests, NEW s,
         stage' = [stage EXCEPT ![r] = s], UNCHANGED <<phase, mem, handle, sock, conn>>,
         \A q \in Requests \ {r} : io'[q] = io[q],
         \A c \in Clients, q \in Requests : Written(c, q) => Written(c, q)',
         \/ s \in {"sent", "close", "done"}
         \/ /\ stage[r] \in {"stat", "default", "header", "open"}
            /\ s \in {"default", "header", "open", "fixed", "sendfile"}
            /\ s = "sendfile" /\ phase \in Serving => io'[r].fd = sock[conn[r]]
  PROVE  ConnInv'
<1>1. stage'[r] = s /\ \A q \in Requests \ {r} : stage'[q] = stage[q]
  BY DEF Pool, TypeOK
<1>2. \A q \in Requests : stage[q] # "none" => conn[q] \in Clients
  BY DEF ReadOnce, Pool, TypeOK
<1>3. s \in {"sent", "close", "done"} => s \notin Ongoing \cup {"fixed"}
  BY DEF Ongoing
<1> QED
  BY <1>1, <1>2, <1>3, ConnChain

LEMMA ConnCallback ==
  ASSUME WaitingPeers, Pool, ReadOnce, WaitInv, ConnInv,
         NEW c \in Clients, NEW r \in Requests, WriteCallback(c, r) \/ FsCallback(c, r)
  PROVE  ConnInv'
<1>1. wire' = wire => \A d \in Clients, q \in Requests : Written(d, q) => Written(d, q)'
  BY DEF Written, OnWire
<1>2. ASSUME NEW ok \in BOOLEAN,
             on_final_fix_response(c, r, ok) \/ open_send_file(c, r, ok)
      PROVE  ConnInv'
  <2>1. /\ UNCHANGED <<phase, mem, handle, sock, conn, wire>>
        /\ \A q \in Requests \ {r} : io'[q] = io[q]
        /\ \/ stage' = [stage EXCEPT ![r] = "done"]
           \/ stage' = [stage EXCEPT ![r] = "open"] /\ stage[r] = "header"
    BY <1>2 DEF on_final_fix_response, open_send_file, pool, net, Pool, TypeOK
  <2> QED
    BY <1>1, <2>1, ConnOne
<1>3. ASSUME NEW found,
             \/ check_path_async(c, r, found) /\ found \in {"missing", "dir", "file"}
             \/ check_default_files_async(c, r, found)
      PROVE  ConnInv'
  <2>1. /\ stage[r] \in {"stat", "default"}
        /\ \E s \in {"default", "fixed", "header", "done"} : stage' = [stage EXCEPT ![r] = s]
        /\ UNCHANGED <<phase, mem, handle, sock, conn, wire>>
        /\ \A q \in Requests \ {r} : io'[q] = io[q]
    BY <1>3, LookupEffect DEF Pool
  <2> QED
    BY <1>1, <2>1, ConnOne
<1>4. ASSUME NEW opened, send_file_context(c, r, opened)
      PROVE  ConnInv'
  <2>1. /\ stage[r] = "open" /\ conn[r] = c
        /\ UNCHANGED <<phase, mem, handle, sock, conn, wire>>
    BY <1>4 DEF send_file_context, Callback, net
  <2>2. CASE opened
    <3>1. PICK fd \in sendfd(c) :
            io' = [io EXCEPT ![r].fd = fd, ![r].len = response[c].size]
      BY <1>4, <2>2 DEF send_file_context
    <3>2. io'[r].fd = fd /\ \A q \in Requests \ {r} : io'[q] = io[q]
      BY <3>1 DEF Pool, TypeOK, IoType
    <3>3. phase \in Serving => fd = sock[c]
      BY <2>1, <3>1 DEF ConnInv, Connected, Ongoing, sendfd
    <3>4. stage' = [stage EXCEPT ![r] = "sendfile"]
      BY <1>4, <2>2 DEF send_file_context
    <3> QED
      BY <1>1, <2>1, <3>2, <3>3, <3>4, ConnOne
  <2>3. CASE ~opened
    <3>1. stage' = [stage EXCEPT ![r] = "done"] /\ io' = io
      BY <1>4, <2>3 DEF send_file_context
    <3> QED
      BY <1>1, <2>1, <3>1, ConnOne
  <2> QED
    BY <2>2, <2>3
<1>5. ASSUME final_sendfile(c, r)
      PROVE  ConnInv'
  <2>1. /\ stage' = [stage EXCEPT ![r] = "close"]
        /\ UNCHANGED <<phase, mem, handle, sock, conn, wire, io>>
    BY <1>5 DEF final_sendfile, net
  <2> QED
    BY <1>1, <2>1, ConnOne
<1> QED
  BY <1>2, <1>3, <1>4, <1>5, WebServerAssumption DEF WriteCallback, FsCallback

LEMMA ConnSend ==
  ASSUME WaitingPeers, Pool, ReadOnce, WaitInv, WireInv, ConnInv
  PROVE  /\ \A c \in Clients : flush(c) => ConnInv'
         /\ \A r \in Requests : Worker(r) => ConnInv'
         /\ \A r \in Requests : undefined_behaviour(r) => ConnInv'
<1>1. ASSUME NEW r \in Requests, NEW kind, conn[r] \in Clients,
             wire' = [wire EXCEPT ![conn[r]] = Append(wire[conn[r]], [kind |-> kind, req |-> r])]
      PROVE  \A c \in Clients, q \in Requests : Written(c, q) => Written(c, q)'
  <2> DEFINE e == [kind |-> kind, req |-> r]
  <2>1. /\ wire'[conn[r]] = Append(wire[conn[r]], e) /\ wire[conn[r]] \in Seq(Event)
        /\ \A c \in Clients \ {conn[r]} : wire'[c] = wire[c]
    BY <1>1 DEF Pool, TypeOK
  <2> HIDE DEF e
  <2>2. \A i \in DOMAIN wire[conn[r]] :
          i \in DOMAIN wire'[conn[r]] /\ wire'[conn[r]][i] = wire[conn[r]][i]
    BY <2>1
  <2>3. \A c \in Clients : \A i \in DOMAIN wire[c] : i \in DOMAIN wire'[c] /\ wire'[c][i] = wire[c][i]
    BY <2>1, <2>2
  <2> QED
    BY <2>3 DEF Written, OnWire
<1>2. wire' = wire => \A c \in Clients, q \in Requests : Written(c, q) => Written(c, q)'
  BY DEF Written, OnWire
<1>3. \A q \in Requests : stage[q] # "none" => conn[q] \in Clients
  BY DEF ReadOnce, Pool, TypeOK
<1>4. ASSUME UNCHANGED <<phase, mem, handle, sock, conn, stage, io>>,
             \A c \in Clients, q \in Requests : Written(c, q) => Written(c, q)'
      PROVE  ConnInv'
  BY <1>3, <1>4, ConnChain
<1>5. ASSUME NEW c \in Clients, flush(c)
      PROVE  ConnInv'
  <2>1. PICK r \in Requests :
           /\ conn[r] = c
           /\ wire' = [wire EXCEPT ![c] = Append(wire[c], [kind |-> Opening(r), req |-> r])]
    BY <1>5, FlushSends
  <2>2. UNCHANGED <<phase, mem, handle, sock, conn, stage, io>>
    BY <1>5 DEF flush, pool, net, chain
  <2> QED
    BY <1>1, <1>4, <2>1, <2>2
<1>6. ASSUME NEW r \in Requests, NEW sent, uv_fs_sendfile(r, sent)
      PROVE  ConnInv'
  <2>1. /\ stage' = [stage EXCEPT ![r] = "sent"]
        /\ UNCHANGED <<phase, mem, handle, sock, conn, io>>
    BY <1>6 DEF uv_fs_sendfile, pool, net
  <2>2. \A c \in Clients, q \in Requests : Written(c, q) => Written(c, q)'
    BY <1>1, <1>2, <1>6, SendsOwn
  <2> QED
    BY <2>1, <2>2, ConnOne
<1>7. ASSUME NEW r \in Requests, on_close_sendfile(r)
      PROVE  ConnInv'
  <2>1. /\ stage' = [stage EXCEPT ![r] = "done"]
        /\ UNCHANGED <<phase, mem, handle, sock, conn, io, wire>>
    BY <1>7 DEF on_close_sendfile, pool, net
  <2> QED
    BY <1>2, <2>1, ConnOne
<1>8. ASSUME NEW r \in Requests, undefined_behaviour(r)
      PROVE  ConnInv'
  BY <1>2, <1>4, <1>8 DEF undefined_behaviour, pool, net, chain
<1> QED
  BY <1>5, <1>6, <1>7, <1>8 DEF Worker

PatientInv == WireInv /\ ConnInv

LEMMA PatientStep ==
  ASSUME PatientPeers, Pool, ReadOnce, WaitInv, PatientInv, Next
  PROVE  PatientInv'
<1>0. WaitingPeers /\ WireInv /\ ConnInv
  BY DEF PatientPeers, PatientInv
<1>1. WireInv'
  BY <1>0, OthersSendNothing, WireRead, WireFlush, WireSend, WireKept
<1>2. ASSUME NEW c \in Clients, Peer(c) \/ flush(c) \/ on_close(c) \/ closed_silently(c)
      PROVE  ConnInv'
  BY <1>0, <1>2, ConnConnection, ConnRead, ConnClose, ConnClosed, ConnSend, NoParseError
  DEF Peer, WaitingPeers
<1>3. ASSUME NEW c \in Clients, NEW r \in Requests, WriteCallback(c, r) \/ FsCallback(c, r)
      PROVE  ConnInv'
  BY <1>0, <1>3, ConnCallback
<1>4. ASSUME NEW r \in Requests, Worker(r) \/ undefined_behaviour(r)
      PROVE  ConnInv'
  BY <1>0, <1>4, ConnSend
<1>5. CASE cleanup_freeList \/ signal_handler \/ uv_walk \/ cleanup_resources
  BY <1>0, <1>1, <1>5, ConnTimer, ConnStop DEF PatientInv
<1> QED
  BY <1>1, <1>2, <1>3, <1>4, <1>5 DEF Next, PatientInv

LEMMA PatientInvariant ==
  ASSUME PatientPeers
  PROVE  Spec => []PatientInv
<1>1. WaitingPeers
  BY DEF PatientPeers
<1>2. Init => PatientInv
  BY WireInit, ConnInit DEF PatientInv
<1>3. TypeOK /\ (ActiveExact /\ HandleOutlived) /\ UrlInv /\ WaitInv /\ PatientInv /\ [Next]_vars
        => PatientInv'
  <2> SUFFICES ASSUME Pool, ReadOnce, WaitInv, PatientInv, [Next]_vars
               PROVE  PatientInv'
    BY DEF Pool, UrlInv
  <2>1. CASE UNCHANGED vars
    <3>1. UNCHANGED <<phase, mem, handle, sock, conn, stage, io, wire>>
      BY <2>1 DEF vars, pool, net, chain
    <3>2. WireInv'
      BY <3>1, WireKept DEF PatientInv, Advances
    <3>3. /\ \A q \in Requests : stage[q] # "none" => conn[q] \in Clients
          /\ \A c \in Clients, q \in Requests : Written(c, q) => Written(c, q)'
      BY <3>1 DEF ReadOnce, Pool, TypeOK, Written, OnWire
    <3>4. ConnInv'
      BY <3>1, <3>3, ConnChain DEF PatientInv
    <3> QED
      BY <3>2, <3>4 DEF PatientInv
  <2> QED
    BY <2>1, PatientStep
<1> QED
  BY <1>1, <1>2, <1>3, WaitInvariant, UrlInvariant, TypeCorrect, PoolSafe, PTL DEF Spec

-----------------------------------------------------------------------------
(* The server implements HttpExchange: on_read asks, flush opens an answer *)
(* and uv_fs_sendfile fills it; every other step stutters.                 *)

ended == [c \in Clients |-> parser[c].ended]

LEMMA ExchangeStarts == Init => Exchange!Init
BY DEF Init, Exchange!Init

LEMMA ReadAsks ==
  ASSUME PatientPeers, Pool, ReadOnce, WaitInv, PatientInv,
         NEW c \in Clients, NEW r \in Requests, NEW k \in Chunks, on_read(c, r, k)
  PROVE  Exchange!Ask(c, r)
<1>1. /\ conn[r] = NULL /\ Exchange!Over(c)
      /\ \A q \in Requests : conn[q] = c => Exchange!Seen(q)
  BY AskedInTurn DEF PatientPeers, PatientInv
<1>2. /\ conn' = [conn EXCEPT ![r] = c]
      /\ parser' = [parser EXCEPT ![c] = [at |-> "idle", ended |-> parser[c].ended + 1]]
  BY WholeRead DEF PatientPeers
<1>3. wire' = wire
  BY DEF on_read
<1>4. ended' = [ended EXCEPT ![c] = ended[c] + 1]
  BY <1>2 DEF ended, Pool, TypeOK
<1> QED
  BY <1>1, <1>2, <1>3, <1>4 DEF Exchange!Ask, ended

LEMMA FlushOpens ==
  ASSUME PatientPeers, Pool, ReadOnce, WaitInv, PatientInv, NEW c \in Clients, flush(c)
  PROVE  \E r \in Requests : Exchange!Open(c, r)
<1>1. PICK r \in Requests :
           /\ conn[r] = c /\ stage[r] \in {"fixed", "header"}
           /\ ~Exchange!Seen(r) /\ Exchange!Over(c)
           /\ wire' = [wire EXCEPT ![c] = Append(wire[c], [kind |-> Opening(r), req |-> r])]
           /\ UNCHANGED <<conn, stage>>
  BY FlushSends DEF PatientPeers, PatientInv
<1>2. ended' = ended
  BY DEF flush, net, ended
<1>3. Opening(r) \in {"page", "head"}
  BY DEF Opening
<1> QED
  BY <1>1, <1>2, <1>3 DEF Exchange!Open, Exchange!Send, ended

LEMMA SendfileFills ==
  ASSUME PatientPeers, Pool, ReadOnce, WaitInv, PatientInv,
         NEW r \in Requests, NEW sent, uv_fs_sendfile(r, sent)
  PROVE  (\E c \in Clients : Exchange!Fill(c, r)) \/ UNCHANGED <<conn, ended, wire>>
<1>1. UNCHANGED <<conn, ended>> /\ stage[r] = "sendfile"
  BY DEF uv_fs_sendfile, net, ended
<1>2. CASE UNCHANGED wire
  BY <1>1, <1>2
<1>3. CASE /\ conn[r] \in Clients
           /\ \E kind \in {"body", "part"} :
                wire' = [wire EXCEPT ![conn[r]] = Append(wire[conn[r]], [kind |-> kind, req |-> r])]
  <2>1. wire[conn[r]] # <<>> /\ wire[conn[r]][Len(wire[conn[r]])] = [kind |-> "head", req |-> r]
    BY <1>1 DEF PatientInv, WireInv, Answering, Last, LastOn
  <2>2. Exchange!Fill(conn[r], r)
    BY <1>1, <1>3, <2>1 DEF Exchange!Fill, Exchange!Send, ended
  <2> QED
    BY <1>3, <2>2
<1> QED
  BY <1>2, <1>3, SendsOwn DEF PatientInv

LEMMA ExchangeStep ==
  ASSUME PatientPeers, Pool, ReadOnce, WaitInv, PatientInv, [Next]_vars
  PROVE  [Exchange!Next]_<<conn, ended, wire>>
<1>0. WaitingPeers
  BY DEF PatientPeers
<1>1. CASE UNCHANGED vars
  BY <1>1 DEF vars, net, chain, ended
<1>2. ASSUME NEW c \in Clients, NEW r \in Requests, NEW k \in Chunks, on_read(c, r, k)
      PROVE  Exchange!Next
  BY <1>2, ReadAsks DEF Exchange!Next
<1>3. ASSUME NEW c \in Clients, flush(c)
      PROVE  Exchange!Next
  BY <1>3, FlushOpens DEF Exchange!Next
<1>4. ASSUME NEW r \in Requests, NEW sent, uv_fs_sendfile(r, sent)
      PROVE  Exchange!Next \/ UNCHANGED <<conn, ended, wire>>
  BY <1>4, SendfileFills DEF Exchange!Next
<1>5. UNCHANGED <<conn, parser, wire>> => UNCHANGED <<conn, ended, wire>>
  BY DEF ended
<1> QED
  BY <1>0, <1>1, <1>2, <1>3, <1>4, <1>5, OthersSendNothing

\* Step by step, what goes out on the connections of such peers is an
\* exchange: each message is answered on its own connection, by one page or by a
\* header that its own body follows directly.
THEOREM ExchangeImplemented ==
  ASSUME PatientPeers
  PROVE  Spec => ImplementsExchange
<1>1. WaitingPeers
  BY DEF PatientPeers
<1>2. TypeOK /\ (ActiveExact /\ HandleOutlived) /\ UrlInv /\ WaitInv /\ PatientInv /\ [Next]_vars
        => [Exchange!Next]_<<conn, ended, wire>>
  BY ExchangeStep DEF Pool, UrlInv
<1>3. ImplementsExchange <=> Exchange!Init /\ [][Exchange!Next]_<<conn, ended, wire>>
  BY DEF ImplementsExchange, Exchange!Spec, Exchange!exchangeVars, ended
<1> QED
  BY <1>1, <1>2, <1>3, ExchangeStarts, PatientInvariant, WaitInvariant, UrlInvariant, TypeCorrect,
     PoolSafe, PTL DEF Spec

-----------------------------------------------------------------------------
(* No undefined behaviour.                                                 *)

\* Patient peers whose next request comes when the server is done with its client.
PatientSerialPeers == PatientPeers /\ Sending = "serial"

\* A broken connection is the only way to a freed client: here each callback finds
\* its client, res->buf, res->path and res->file as its own chain left them.
THEOREM NoFaults ==
  ASSUME PatientSerialPeers
  PROVE  Spec => []NoFault
<1>1. PatientPeers /\ WaitingPeers /\ SerialPeers
  BY DEF PatientSerialPeers, PatientPeers, SerialPeers, WaitingPeers
<1>2. TypeOK /\ (ActiveExact /\ HandleOutlived) /\ UrlInv /\ WaitInv /\ RefInv /\ PatientInv
        /\ NoFault /\ [Next]_vars => NoFault'
  <2> SUFFICES ASSUME Pool, ReadOnce, WaitInv, RefInv, PatientInv, NoFault, [Next]_vars,
                      fault' # fault
               PROVE  FALSE
    BY DEF Pool, UrlInv, NoFault
  <2>1. PICK r \in Requests : undefined_behaviour(r)
    <3>1. ASSUME NEW c \in Clients,
                 \/ Peer(c) \/ flush(c) \/ on_close(c) \/ closed_silently(c)
                 \/ \E q \in Requests : WriteCallback(c, q) \/ FsCallback(c, q)
          PROVE  FALSE
      BY <3>1
      DEF Peer, on_connection, on_read, on_read_parse_error, on_read_close, flush, on_close,
          closed_silently, WriteCallback, on_final_fix_response, open_send_file, FsCallback,
          check_path_async, check_default_files_async, send_file_context, final_sendfile
    <3>2. \A q \in Requests : ~Worker(q)
      BY DEF Worker, uv_fs_sendfile, on_close_sendfile
    <3>3. ~(cleanup_freeList \/ signal_handler \/ uv_walk \/ cleanup_resources)
      BY DEF cleanup_freeList, signal_handler, uv_walk, cleanup_resources
    <3> QED
      BY <3>1, <3>2, <3>3 DEF Next, vars
  <2>2. UsesFreedClient(r)
    BY <1>1, <2>1, OnlyFreedClients DEF undefined_behaviour
  <2>3. stage[r] \in Ongoing \cup {"sent"} /\ mem[conn[r]] = "freed"
    BY <2>2 DEF UsesFreedClient, Ongoing
  <2>4. stage[r] \in Ongoing => mem[conn[r]] = "live"
    BY DEF PatientInv, ConnInv, Connected
  <2>5. stage[r] = "sent" => mem[conn[r]] = "live"
    BY DEF RefInv, PinnedSendfile
  <2> QED
    BY <2>3, <2>4, <2>5
<1>3. Init => NoFault
  BY DEF Init, NoFault
<1> QED
  BY <1>1, <1>2, <1>3, RefInvariant, PatientInvariant, WaitInvariant, UrlInvariant, TypeCorrect,
     PoolSafe, PTL DEF Spec

-----------------------------------------------------------------------------
(* Nothing is left behind.                                                 *)

\* Requests without a query and a body: a client_t has one pointer for the query and
\* one for the body of all its requests, and frees only the last ones.
PlainRequests == \A k \in Chunks : ~k.query /\ ~k.body

\* What is allocated for r while the server serves, and who will release it.
Held(r) ==
  /\ <<"buf", r>> \in heap => stage[r] \in {"fixed", "header"}
  /\ <<"path", r>> \in heap => stage[r] \in {"header", "open"}
  /\ <<"file", r>> \in heap => stage[r] \in {"sendfile", "sent"}
  /\ <<"url", r>> \in heap =>
       conn[r] \in Clients /\ request[conn[r]].url = r /\ mem[conn[r]] = "live"
  /\ \A kind \in {"query", "body", "rbuf"} : <<kind, r>> \notin heap

Tidy == phase \in Serving => \A r \in Requests : Held(r)

LEMMA TidyInit == Init => Tidy
BY DEF Init, Tidy, Held

\* A step of r's chain that allocates for r only.
LEMMA TidyOne ==
  ASSUME Tidy, NEW r \in Requests, phase' \in Serving => phase \in Serving,
         \A q \in Requests \ {r} : stage'[q] = stage[q],
         \A q \in Requests : conn'[q] = conn[q],
         \A c \in Clients : request'[c].url = request[c].url /\ mem'[c] = mem[c],
         \A q \in Requests \ {r}, kind \in Kinds : <<kind, q>> \in heap' => <<kind, q>> \in heap,
         phase \in Serving => Held(r)'
  PROVE  Tidy'
<1>1. ASSUME NEW q \in Requests \ {r}, Held(q)
      PROVE  Held(q)'
  <2>1. <<"url", q>> \in heap' =>
          conn'[q] \in Clients /\ request'[conn'[q]].url = q /\ mem'[conn'[q]] = "live"
    BY <1>1 DEF Held, Kinds
  <2> QED
    BY <1>1, <2>1 DEF Held, Kinds
<1> QED
  BY <1>1 DEF Tidy

\* The blocks of C are freed with the URLs they point to.
LEMMA TidyRelease ==
  ASSUME Tidy, NEW C \in SUBSET Clients, release(C), phase' \in Serving => phase \in Serving,
         UNCHANGED <<conn, stage, request>>
  PROVE  Tidy'
<1>1. heap' \subseteq heap /\ \A c \in C : <<"url", request[c].url>> \notin heap'
  BY DEF release, free_client
<1>2. \A c \in Clients \ C : mem'[c] = mem[c]
  BY DEF release
<1>3. ASSUME NEW r \in Requests, Held(r)
      PROVE  Held(r)'
  <2>1. ASSUME <<"url", r>> \in heap'
        PROVE  conn[r] \in Clients \ C /\ request[conn[r]].url = r /\ mem[conn[r]] = "live"
    <3>1. conn[r] \in Clients /\ request[conn[r]].url = r /\ mem[conn[r]] = "live"
      BY <1>1, <1>3, <2>1 DEF Held
    <3> QED
      BY <1>1, <2>1, <3>1
  <2>2. <<"url", r>> \in heap' =>
          conn'[r] \in Clients /\ request'[conn'[r]].url = r /\ mem'[conn'[r]] = "live"
    BY <1>2, <2>1
  <2> QED
    BY <1>1, <1>3, <2>2 DEF Held
<1> QED
  BY <1>3 DEF Tidy

LEMMA TidyRead ==
  ASSUME PlainRequests, PatientPeers, Pool, ReadOnce, WaitInv, Tidy,
         NEW c \in Clients, NEW r \in Requests, NEW k \in Chunks, on_read(c, r, k)
  PROVE  Tidy'
<1> DEFINE h == (heap \ {<<"url", request[c].url>>}) \cup {<<"url", r>>}
<1>1. /\ conn[r] = NULL /\ conn' = [conn EXCEPT ![r] = c]
      /\ handle[c] = "open" /\ phase \in Serving
      /\ request'[c].url = r
      /\ \A d \in Clients \ {c} : request'[d] = request[d]
      /\ \/ stage' = [stage EXCEPT ![r] = "stat"] /\ heap' = ParsedHeap(c, r, k)
         \/ /\ stage' = [stage EXCEPT ![r] = "fixed"]
            /\ heap' = ParsedHeap(c, r, k) \cup {<<"buf", r>>}
  BY WholeRead DEF PatientPeers
<1>2. k.urls = 1 /\ ~k.query /\ ~k.body
  BY DEF PlainRequests, PatientPeers, WaitingPeers, WholeRequests
<1>3. ParsedHeap(c, r, k) = h
  BY <1>2 DEF ParsedHeap, replaced_url
<1>4. mem[c] = "live" /\ mem' = mem /\ stage[r] = "none"
  BY <1>1 DEF Pool, HandleOutlived, on_read, pool
<1>5. \A q \in Requests \ {r} : conn'[q] = conn[q] /\ stage'[q] = stage[q]
  BY <1>1 DEF Pool, TypeOK
<1>6. \A q \in Requests : Held(q)
  BY <1>1 DEF Tidy
<1>7. ASSUME NEW q \in Requests \ {r}
      PROVE  Held(q)'
  <2>1. \A kind \in Kinds : <<kind, q>> \in heap' => <<kind, q>> \in heap
    BY <1>1, <1>3
  <2>2. <<"url", q>> \in heap' => q # request[c].url
    BY <1>1, <1>3
  <2>3. <<"url", q>> \in heap' =>
          conn'[q] \in Clients /\ request'[conn'[q]].url = q /\ mem'[conn'[q]] = "live"
    <3> SUFFICES ASSUME <<"url", q>> \in heap'
                 PROVE  conn'[q] \in Clients /\ request'[conn'[q]].url = q
                        /\ mem'[conn'[q]] = "live"
      OBVIOUS
    <3>1. conn[q] \in Clients /\ request[conn[q]].url = q /\ mem[conn[q]] = "live"
      BY <1>6, <2>1 DEF Held, Kinds
    <3>2. conn[q] # c
      BY <2>2, <3>1
    <3> QED
      BY <1>1, <1>4, <1>5, <3>1, <3>2
  <2> QED
    BY <1>5, <1>6, <2>1, <2>3 DEF Held, Kinds
<1>8. Held(r)'
  <2>1. Held(r)
    BY <1>6
  <2>2. conn'[r] = c /\ stage'[r] \in {"stat", "fixed"}
        /\ (<<"buf", r>> \in heap' => <<"buf", r>> \in heap \/ stage'[r] = "fixed")
    BY <1>1, <1>3 DEF Pool, TypeOK
  <2>3. \A kind \in Kinds \ {"url", "buf"} : <<kind, r>> \in heap' => <<kind, r>> \in heap
    BY <1>1, <1>3
  <2> QED
    BY <1>1, <1>4, <2>1, <2>2, <2>3 DEF Held, Kinds
<1> QED
  BY <1>7, <1>8 DEF Tidy

\* What uv_write gets is written, so its callback frees res->buf.
LEMMA TidyCallback ==
  ASSUME PatientSerialPeers, Pool, ReadOnce, WaitInv, PatientInv, Tidy,
         NEW c \in Clients, NEW r \in Requests, WriteCallback(c, r) \/ FsCallback(c, r)
  PROVE  Tidy'
<1>0. WaitingPeers /\ ~EarlyClose /\ Sending = "serial"
  BY DEF PatientSerialPeers, PatientPeers
<1>1. stage \in [Requests -> Stages] /\ Connected(r)
  BY DEF Pool, TypeOK, PatientInv, ConnInv
<1>2. ASSUME UNCHANGED <<phase, mem, request, conn>>, NEW s,
             stage' = [stage EXCEPT ![r] = s],
             \A q \in Requests \ {r}, kind \in Kinds : <<kind, q>> \in heap' => <<kind, q>> \in heap,
             <<"url", r>> \in heap' => <<"url", r>> \in heap,
             \A kind \in {"query", "body", "rbuf"} : <<kind, r>> \in heap' => <<kind, r>> \in heap,
             phase \in Serving =>
               /\ <<"buf", r>> \in heap' => s \in {"fixed", "header"}
               /\ <<"path", r>> \in heap' => s \in {"header", "open"}
               /\ <<"file", r>> \in heap' => s \in {"sendfile", "sent"}
      PROVE  Tidy'
  <2>1. stage'[r] = s /\ \A q \in Requests \ {r} : stage'[q] = stage[q]
    BY <1>1, <1>2
  <2>2. phase \in Serving => Held(r)'
    BY <1>2, <2>1 DEF Tidy, Held
  <2> QED
    BY <1>2, <2>1, <2>2, TidyOne
<1>3. phase \in Serving => Held(r)
  BY DEF Tidy
<1>4. ASSUME NEW ok \in BOOLEAN, on_final_fix_response(c, r, ok)
      PROVE  Tidy'
  <2>1. /\ stage[r] = "fixed" /\ conn[r] = c
        /\ stage' = [stage EXCEPT ![r] = "done"]
        /\ UNCHANGED <<phase, mem, request, conn>>
        /\ WriteDone(c, r, ok)
    BY <1>4, WriterOwn DEF WriteCallback, on_final_fix_response, pool
  <2>2. response[c].buf = r
    BY <2>1 DEF WaitInv, InHand
  <2>3. phase \in Serving => ok
    BY <1>0, <1>1, <2>1 DEF WriteDone, Connected
  <2>4. /\ heap' \subseteq heap
        /\ phase \in Serving => <<"buf", r>> \notin heap'
    BY <1>4, <2>2, <2>3 DEF on_final_fix_response
  <2> QED
    BY <1>2, <1>3, <2>1, <2>4 DEF Held
<1>5. ASSUME NEW ok \in BOOLEAN, open_send_file(c, r, ok)
      PROVE  Tidy'
  <2>1. /\ stage[r] = "header" /\ conn[r] = c
        /\ UNCHANGED <<phase, mem, request, conn>>
        /\ WriteDone(c, r, ok)
        /\ heap' = heap \ {<<"buf", response[c].buf>>}
        /\ stage' = [stage EXCEPT ![r] = IF ok THEN "open" ELSE "done"]
    BY <1>5, WriterOwn DEF WriteCallback, open_send_file, pool, fields
  <2>2. response[c].buf = r
    BY <2>1 DEF WaitInv, InHand
  <2>3. phase \in Serving => ok
    BY <1>0, <1>1, <2>1 DEF WriteDone, Connected, Ongoing
  <2> QED
    BY <1>2, <1>3, <2>1, <2>2, <2>3 DEF Held
<1>6. ASSUME NEW found,
             \/ check_path_async(c, r, found) /\ found \in {"missing", "dir", "file"}
             \/ check_default_files_async(c, r, found)
      PROVE  Tidy'
  <2>1. /\ stage[r] \in {"stat", "default"} /\ conn[r] = c
        /\ UNCHANGED <<phase, mem, conn>>
        /\ \A d \in Clients : request'[d].url = request[d].url
        /\ heap' \in {heap, heap \cup {<<"buf", r>>}, heap \cup {<<"path", r>>, <<"buf", r>>}}
        /\ \E s \in {"default", "fixed", "header", "done"} : stage' = [stage EXCEPT ![r] = s]
    BY <1>6, LookupEffect DEF Pool
  <2>2. phase \in Serving => handle[c] = "open"
    BY <1>1, <2>1 DEF Connected, Ongoing
  <2>3. phase \in Serving =>
          \/ heap' = heap
          \/ heap' = heap \cup {<<"buf", r>>} /\ stage'[r] = "fixed"
          \/ heap' = heap \cup {<<"path", r>>, <<"buf", r>>} /\ stage'[r] = "header"
    <3>1. \/ \E code \in {404, 500} : make_fixed_response(c, r, code, heap)
          \/ found_and_sendfs_req(c, r)
          \/ heap' = heap
      BY <1>6 DEF check_path_async, check_default_files_async
    <3> QED
      BY <1>1, <2>2, <3>1 DEF make_fixed_response, found_and_sendfs_req, uv_write
  <2>4. \A q \in Requests \ {r} : stage'[q] = stage[q]
    BY <1>1, <2>1
  <2>5. phase \in Serving => Held(r)'
    BY <1>3, <2>1, <2>3 DEF Held
  <2>6. \A q \in Requests \ {r}, kind \in Kinds : <<kind, q>> \in heap' => <<kind, q>> \in heap
    BY <2>1
  <2> QED
    BY <2>1, <2>4, <2>5, <2>6, TidyOne
<1>7. ASSUME NEW opened, send_file_context(c, r, opened)
      PROVE  Tidy'
  <2>1. /\ stage[r] = "open" /\ conn[r] = c
        /\ UNCHANGED <<phase, mem, request, conn>>
    BY <1>7 DEF send_file_context, Callback
  <2>2. response[c].path = r
    BY <2>1 DEF WaitInv, InHand
  <2>3. \/ /\ stage' = [stage EXCEPT ![r] = "sendfile"]
           /\ heap' = (heap \ {<<"path", r>>}) \cup {<<"file", r>>}
        \/ stage' = [stage EXCEPT ![r] = "done"] /\ heap' = heap \ {<<"path", r>>}
    BY <1>7, <2>2 DEF send_file_context
  <2> QED
    BY <1>2, <1>3, <2>1, <2>3 DEF Held
<1>8. ASSUME final_sendfile(c, r)
      PROVE  Tidy'
  <2>1. /\ stage[r] = "sent" /\ conn[r] = c
        /\ UNCHANGED <<phase, mem, request, conn>>
        /\ stage' = [stage EXCEPT ![r] = "close"]
        /\ heap' = heap \ {<<"file", response[c].file>>}
    BY <1>8 DEF final_sendfile, Callback, fields
  <2>2. response[c].file = r
    BY <1>0, <2>1 DEF WaitInv, InHand
  <2> QED
    BY <1>2, <1>3, <2>1, <2>2 DEF Held
<1> QED
  BY <1>4, <1>5, <1>6, <1>7, <1>8, WebServerAssumption DEF WriteCallback, FsCallback

LEMMA TidyStep ==
  ASSUME PlainRequests, PatientSerialPeers, Pool, ReadOnce, WaitInv, PatientInv, Tidy, Next
  PROVE  Tidy'
<1>0. PatientPeers /\ WholeRequests /\ ~EarlyClose
  BY DEF PatientSerialPeers, PatientPeers, WaitingPeers
<1>1. ASSUME UNCHANGED <<stage, conn, heap, request>>, phase' \in Serving => phase \in Serving,
             \A c \in Clients : mem[c] = "live" => mem'[c] = "live"
      PROVE  Tidy'
  BY <1>1 DEF Tidy, Held
<1>2. ASSUME NEW c \in Clients,
             on_connection(c) \/ closed_silently(c) \/ flush(c) \/ on_read_close(c)
      PROVE  Tidy'
  <2>1. /\ UNCHANGED <<stage, conn, heap, request, phase>>
        /\ mem' = mem \/ mem' = [mem EXCEPT ![c] = "live"]
    BY <1>0, <1>2
    DEF on_connection, closed_silently, flush, on_read_close, fields, chain, pool
  <2> QED
    BY <1>1, <2>1 DEF Pool, TypeOK
<1>3. ASSUME NEW c \in Clients, on_close(c)
      PROVE  Tidy'
  <2>1. /\ UNCHANGED <<stage, conn, request, phase>>
        /\ release({c}) \/ UNCHANGED <<mem, heap>>
    BY <1>3 DEF on_close, chain, fields
  <2> QED
    BY <1>1, <2>1, TidyRelease
<1>4. CASE cleanup_freeList
  <2>1. UNCHANGED <<stage, conn, request, phase>> /\ \E C \in SUBSET active : release(C)
    BY <1>4 DEF cleanup_freeList, chain, fields
  <2>2. active \subseteq Clients
    BY DEF Pool, TypeOK
  <2> QED
    BY <2>1, <2>2, TidyRelease
<1>5. CASE signal_handler \/ uv_walk \/ cleanup_resources \/ \E r \in Requests : undefined_behaviour(r)
  <2>1. CASE signal_handler \/ \E r \in Requests : undefined_behaviour(r)
    <3>1. /\ UNCHANGED <<stage, conn, heap, request, mem>>
          /\ phase' \in Serving => phase \in Serving
      BY <2>1 DEF signal_handler, undefined_behaviour, chain, fields, pool, Serving
    <3> QED
      BY <1>1, <3>1
  <2>2. CASE uv_walk \/ cleanup_resources
    <3>1. phase' \notin Serving
      BY <2>2 DEF uv_walk, cleanup_resources, Serving
    <3> QED
      BY <3>1 DEF Tidy
  <2> QED
    BY <1>5, <2>1, <2>2
<1>6. ASSUME NEW c \in Clients, Peer(c)
      PROVE  Tidy'
  BY <1>0, <1>2, <1>6, TidyRead, NoParseError DEF Peer
<1>7. ASSUME NEW r \in Requests, Worker(r)
      PROVE  Tidy'
  <2>1. /\ UNCHANGED <<phase, conn, heap, request, mem>>
        /\ \/ stage[r] = "sendfile" /\ stage' = [stage EXCEPT ![r] = "sent"]
           \/ stage[r] = "close" /\ stage' = [stage EXCEPT ![r] = "done"]
    BY <1>7 DEF Worker, uv_fs_sendfile, on_close_sendfile, fields, pool
  <2>2. /\ \A q \in Requests \ {r} : stage'[q] = stage[q]
        /\ \/ stage[r] = "sendfile" /\ stage'[r] = "sent"
           \/ stage[r] = "close" /\ stage'[r] = "done"
    BY <2>1 DEF Pool, TypeOK
  <2> QED
    BY <2>1, <2>2 DEF Tidy, Held
<1>8. ASSUME NEW c \in Clients, NEW r \in Requests, WriteCallback(c, r) \/ FsCallback(c, r)
      PROVE  Tidy'
  BY <1>8, TidyCallback
<1> QED
  BY <1>2, <1>3, <1>4, <1>5, <1>6, <1>7, <1>8 DEF Next

\* A client that is freed while the server serves has no chain under way and nothing
\* allocated: each chain has released what it stored in the client_t, and free_client
\* the last URL.
THEOREM LeavesNothing ==
  ASSUME PatientSerialPeers, PlainRequests
  PROVE  Spec => []NothingLeaked
<1>1. PatientPeers /\ WaitingPeers /\ SerialPeers
  BY DEF PatientSerialPeers, PatientPeers, SerialPeers, WaitingPeers
<1>2. TypeOK /\ (ActiveExact /\ HandleOutlived) /\ UrlInv /\ WaitInv /\ PatientInv /\ Tidy
        /\ [Next]_vars => Tidy'
  <2> SUFFICES ASSUME Pool, ReadOnce, WaitInv, PatientInv, Tidy, [Next]_vars
               PROVE  Tidy'
    BY DEF Pool, UrlInv
  <2>1. CASE UNCHANGED vars
    BY <2>1 DEF vars, pool, net, fields, chain, Tidy, Held
  <2> QED
    BY <2>1, TidyStep
<1>3. TypeOK /\ (ActiveExact /\ HandleOutlived) /\ UrlInv /\ WaitInv /\ RefInv /\ PatientInv
        /\ Tidy => NothingLeaked
  <2> SUFFICES ASSUME Pool, ReadOnce, WaitInv, RefInv, PatientInv, Tidy, phase \in Serving,
                      NEW r \in Requests, conn[r] \in Clients, mem[conn[r]] = "freed",
                      NEW kind \in Kinds, <<kind, r>> \in heap
               PROVE  FALSE
    BY DEF NothingLeaked, Own, Pool, UrlInv
  <2>1. stage[r] \notin {"fixed", "header"}
    BY QueuedLive
  <2>2. stage[r] \notin Ongoing
    BY DEF PatientInv, ConnInv, Connected
  <2>3. stage[r] # "sent"
    BY DEF RefInv, PinnedSendfile
  <2> QED
    BY <2>1, <2>2, <2>3 DEF Tidy, Held, Kinds, Ongoing
<1> QED
  BY <1>1, <1>2, <1>3, TidyInit, RefInvariant, PatientInvariant, WaitInvariant, UrlInvariant,
     TypeCorrect, PoolSafe, PTL DEF Spec
=============================================================================
