------------------------ MODULE WebServerWaitingProofs ------------------------
(***************************************************************************)
(* What serial and lockstep peers get that send whole requests, for every  *)
(* number of peers, requests and default files: their own documents.  And  *)
(* what IN_REF is good for when serial peers may break off: no sendfile    *)
(* loses its client, and only a stat or an open can.                       *)
(***************************************************************************)
EXTENDS WebServerRequestProofs

\* A read carries one whole request that llhttp accepts.
WholeRequests == \A k \in Chunks : k.urls = 1 /\ k.ends = 1 /\ k.valid

\* The next request is read when the answer before is on the wire or over.
WaitingPeers == WholeRequests /\ Sending \in {"serial", "lockstep"}

\* The next request is read when everything of the answer before is over but
\* uv_fs_close.
SerialPeers == WholeRequests /\ Sending = "serial"

-----------------------------------------------------------------------------
(* The fields of a client_t belong to the one chain under way.             *)

Unfinished(r) == stage[r] \notin {"none"} \cup MayTrail[Sending]

OneAtATime ==
  \A r, q \in Requests : conn[r] = conn[q] /\ Unfinished(r) /\ Unfinished(q) => r = q

BetweenMessages == \A c \in Clients : parser[c].at = "idle"

\* Whatever the callbacks of r's chain read through the client_t is r's own.
InHand(r) ==
  LET c == conn[r]
  IN  /\ stage[r] \in {"stat", "default", "header", "open", "sendfile", "sent"} => io[r].doc = r
      /\ stage[r] \in {"stat", "default"} => request[c].url = r
      /\ stage[r] = "default" => request[c].tries = io[r].probe
      /\ stage[r] \in {"fixed", "header"} =>
           writeq[c] = <<r>> /\ response[c].buf = r /\ <<"buf", r>> \in heap
      /\ stage[r] \in {"header", "open"} =>
           response[c].path = r /\ response[c].size = r /\ <<"path", r>> \in heap
      /\ stage[r] \in {"sendfile", "sent"} => io[r].len = r
      /\ (Sending = "serial" /\ stage[r] \in {"sendfile", "sent"}) =>
           response[c].file = r /\ <<"file", r>> \in heap

QueueOwn ==
  \A c \in Clients : writeq[c] # <<>> =>
    \E r \in Own(c) : stage[r] \in {"fixed", "header"} /\ writeq[c] = <<r>>

WaitInv ==
  /\ OneAtATime
  /\ BetweenMessages
  /\ \A r \in Requests : stage[r] # "none" => InHand(r)
  /\ QueueOwn

LEMMA WaitInit == Init => WaitInv
BY DEF Init, WaitInv, OneAtATime, BetweenMessages, QueueOwn, Unfinished

LEMMA Trailing ==
  ASSUME WaitingPeers
  PROVE  /\ {"close", "done"} \subseteq MayTrail[Sending]
         /\ MayTrail[Sending] \subseteq {"sent", "close", "done"}
         /\ Sending = "serial" => "sent" \notin MayTrail[Sending]
BY DEF WaitingPeers, MayTrail

\* A step of r's chain, which touches nothing of the other chains.
LEMMA ChainStep ==
  ASSUME WaitingPeers, Pool, ReadOnce, WaitInv, NEW c \in Clients, NEW r \in Requests,
         conn[r] \in {NULL, c}, conn'[r] = c,
         \A q \in Requests \ {r} : conn'[q] = conn[q] /\ stage'[q] = stage[q] /\ io'[q] = io[q],
         \A q \in Requests \ {r} : conn[q] = c => ~Unfinished(q),
         \A d \in Clients \ {c} : /\ request'[d] = request[d] /\ response'[d] = response[d]
                                  /\ writeq'[d] = writeq[d],
         \A q \in Requests \ {r}, kind \in {"buf", "path", "file"} :
           <<kind, q>> \in heap => <<kind, q>> \in heap',
         BetweenMessages', InHand(r)',
         writeq'[c] = <<>> \/ (writeq'[c] = <<r>> /\ stage'[r] \in {"fixed", "header"})
  PROVE  WaitInv'
<1>1. OneAtATime'
  BY DEF WaitInv, OneAtATime, Unfinished
<1>2. ASSUME NEW q \in Requests \ {r}, stage[q] # "none"
      PROVE  InHand(q)'
  <2>1. InHand(q) /\ conn[q] \in Clients
    BY <1>2 DEF WaitInv, ReadOnce, Pool, TypeOK
  <2>2. CASE conn[q] # c
    BY <2>1, <2>2 DEF InHand
  <2>3. CASE conn[q] = c
    <3>1. stage[q] \in MayTrail[Sending]
      BY <1>2, <2>3 DEF Unfinished
    <3>2. stage[q] \in {"sent", "close", "done"} /\ (Sending = "serial" => stage[q] # "sent")
      BY <3>1, Trailing
    <3> QED
      BY <2>1, <3>2 DEF InHand
  <2> QED
    BY <2>2, <2>3
<1>3. QueueOwn'
  <2> SUFFICES ASSUME NEW d \in Clients, writeq'[d] # <<>>
               PROVE  \E q \in Requests : /\ conn'[q] = d /\ stage'[q] \in {"fixed", "header"}
                                          /\ writeq'[d] = <<q>>
    BY DEF QueueOwn, Own
  <2>1. CASE d = c
    BY <2>1
  <2>2. CASE d # c
    <3>1. PICK q \in Requests : /\ conn[q] = d /\ stage[q] \in {"fixed", "header"}
                                /\ writeq[d] = <<q>>
      BY <2>2 DEF WaitInv, QueueOwn, Own
    <3>2. q # r
      BY <2>2, <3>1, WebServerAssumption
    <3> QED
      BY <2>2, <3>1, <3>2
  <2> QED
    BY <2>1, <2>2
<1> QED
  BY <1>1, <1>2, <1>3 DEF WaitInv

\* The end of a sendfile, which may overlap the next chain of the connection.
LEMMA SendStep ==
  ASSUME WaitingPeers, Pool, ReadOnce, WaitInv, NEW r \in Requests, NEW s, NEW f,
         UNCHANGED <<conn, io, writeq, parser, fields>>,
         stage' = [stage EXCEPT ![r] = s],
         <<stage[r], s>> \in {<<"sendfile", "sent">>, <<"sent", "close">>, <<"close", "done">>},
         heap' = heap \/ (heap' = heap \ {<<"file", f>>} /\ s = "close"
                          /\ (Sending = "serial" => f = r))
  PROVE  WaitInv'
<1>1. \A q \in Requests \ {r} : stage'[q] = stage[q]
  BY DEF Pool, TypeOK
<1>2. stage'[r] = s
  BY DEF Pool, TypeOK
<1>3. Unfinished(r)' => Unfinished(r)
  <2>1. CASE s = "sent"
    BY <1>2, <2>1, Trailing DEF Unfinished
  <2>2. CASE s \in {"close", "done"}
    BY <1>2, <2>2, Trailing DEF Unfinished
  <2> QED
    BY <2>1, <2>2
<1>4. OneAtATime'
  BY <1>1, <1>3 DEF WaitInv, OneAtATime, Unfinished
<1>5. ASSUME NEW q \in Requests, stage'[q] # "none"
      PROVE  InHand(q)'
  <2>1. InHand(q)
    BY <1>1, <1>5 DEF WaitInv
  <2>2. CASE q = r
    BY <1>2, <2>1, <2>2 DEF InHand, fields
  <2>3. CASE q # r
    BY <1>1, <2>1, <2>3 DEF InHand, fields
  <2> QED
    BY <2>2, <2>3
<1>6. BetweenMessages'
  BY DEF WaitInv, BetweenMessages
<1>7. QueueOwn'
  <2> SUFFICES ASSUME NEW d \in Clients, writeq[d] # <<>>
               PROVE  \E q \in Requests : /\ conn[q] = d /\ stage'[q] \in {"fixed", "header"}
                                          /\ writeq[d] = <<q>>
    BY DEF QueueOwn, Own
  <2>1. PICK q \in Requests : /\ conn[q] = d /\ stage[q] \in {"fixed", "header"}
                              /\ writeq[d] = <<q>>
    BY DEF WaitInv, QueueOwn, Own
  <2> QED
    BY <1>1, <2>1
<1> QED
  BY <1>4, <1>5, <1>6, <1>7 DEF WaitInv

\* A step outside the chains.
LEMMA OtherStep ==
  ASSUME WaitInv, UNCHANGED <<conn, stage, io, writeq, parser, fields>>,
         \A q \in Requests, kind \in {"buf", "path", "file"} :
           <<kind, q>> \in heap => <<kind, q>> \in heap'
  PROVE  WaitInv'
BY DEF WaitInv, OneAtATime, Unfinished, InHand, BetweenMessages, QueueOwn, Own, fields

-----------------------------------------------------------------------------
(* The steps of a chain.                                                   *)

\* A request is read once the chains before it are over or nearly so, and its
\* lookup starts with its own URL.
LEMMA WholeRead ==
  ASSUME WaitingPeers, Pool, ReadOnce, WaitInv,
         NEW c \in Clients, NEW r \in Requests, NEW k \in Chunks, on_read(c, r, k)
  PROVE  /\ conn[r] = NULL /\ conn' = [conn EXCEPT ![r] = c]
         /\ handle[c] = "open" /\ phase \in Serving
         /\ AllAnswered(c)
         /\ \A q \in Own(c) : ~Unfinished(q)
         /\ parser' = [parser EXCEPT ![c] = [at |-> "idle", ended |-> parser[c].ended + 1]]
         /\ request'[c].url = r
         /\ \A d \in Clients \ {c} : request'[d] = request[d]
         /\ \/ /\ stage' = [stage EXCEPT ![r] = "stat"]
               /\ io' = [io EXCEPT ![r] = [io[r] EXCEPT !.doc = r]]
               /\ heap' = ParsedHeap(c, r, k)
               /\ UNCHANGED <<response, writeq>>
            \/ /\ stage' = [stage EXCEPT ![r] = "fixed"]
               /\ writeq' = [writeq EXCEPT ![c] = <<r>>]
               /\ io' = [io EXCEPT ![r] = [io[r] EXCEPT !.code = 500]]
               /\ heap' = ParsedHeap(c, r, k) \cup {<<"buf", r>>}
               /\ response' = [response EXCEPT ![c] = fixed_response(response[c], r)]
<1>1. /\ phase \in Serving /\ handle[c] = "open" /\ MaySend(c) /\ stage[r] = "none"
      /\ llhttp_execute(c, r, k)
      /\ process_request(c, r, ParsedRequest(c, r, k).url, ParsedHeap(c, r, k))
  BY DEF on_read
<1>2. k.urls = 1 /\ k.ends = 1
  BY DEF WaitingPeers, WholeRequests
<1>3. conn[r] = NULL
  BY <1>1 DEF ReadOnce
<1>4. parser[c].at = "idle"
  BY DEF WaitInv, BetweenMessages
<1>5. AllAnswered(c) /\ \A q \in Own(c) : ~Unfinished(q)
  BY <1>1, <1>4 DEF MaySend, WaitingPeers, Unfinished
<1>6. writeq[c] = <<>>
  <2>1. \A q \in Own(c) : stage[q] \notin {"fixed", "header"}
    BY <1>5, Trailing DEF Unfinished
  <2> QED
    BY <2>1 DEF WaitInv, QueueOwn
<1>7. parser' = [parser EXCEPT ![c] = [at |-> "idle", ended |-> parser[c].ended + 1]]
  BY <1>1, <1>2 DEF llhttp_execute, place_after
<1> DEFINE url == ParsedRequest(c, r, k).url
           h   == ParsedHeap(c, r, k)
<1>8. request' = [request EXCEPT ![c] = ParsedRequest(c, r, k)]
  BY <1>1 DEF llhttp_execute
<1>9. request[c] \in RequestType /\ request \in [Clients -> RequestType]
  BY DEF Pool, TypeOK
<1>10. url = r
  BY <1>2, <1>9 DEF ParsedRequest, RequestType, on_url
<1>11. request'[c].url = r /\ \A d \in Clients \ {c} : request'[d] = request[d]
  BY <1>8, <1>9, <1>10
<1>12. process_request(c, r, r, h)
  BY <1>1, <1>10
<1> HIDE DEF url, h
<1>13. \/ /\ stage' = [stage EXCEPT ![r] = "stat"]
          /\ io' = [io EXCEPT ![r] = [io[r] EXCEPT !.doc = r]]
          /\ heap' = h
          /\ UNCHANGED <<response, writeq>>
       \/ /\ stage' = [stage EXCEPT ![r] = "fixed"]
          /\ writeq' = [writeq EXCEPT ![c] = <<r>>]
          /\ io' = [io EXCEPT ![r] = [io[r] EXCEPT !.code = 500]]
          /\ heap' = h \cup {<<"buf", r>>}
          /\ response' = [response EXCEPT ![c] = fixed_response(response[c], r)]
  <2>1. CASE make_fixed_response(c, r, 500, h)
    <3>1. uv_write(c, r, "fixed")
      BY <2>1 DEF make_fixed_response
    <3>2. /\ stage' = [stage EXCEPT ![r] = "fixed"]
          /\ writeq' = [writeq EXCEPT ![c] = Append(writeq[c], r)]
      BY <1>1, <3>1 DEF uv_write
    <3>3. Append(writeq[c], r) = <<r>>
      BY <1>6
    <3> QED
      BY <2>1, <3>2, <3>3 DEF make_fixed_response
  <2>2. CASE ~make_fixed_response(c, r, 500, h)
    BY <1>12, <2>2 DEF process_request
  <2> QED
    BY <2>1, <2>2
<1>14. conn' = [conn EXCEPT ![r] = c]
  BY <1>1 DEF llhttp_execute
<1> QED
  BY <1>1, <1>3, <1>5, <1>7, <1>11, <1>13, <1>14 DEF h

LEMMA NoParseError ==
  ASSUME WholeRequests, NEW c \in Clients, NEW r \in Requests, NEW k \in Chunks
  PROVE  ~on_read_parse_error(c, r, k)
BY DEF WholeRequests, on_read_parse_error

LEMMA WaitRead ==
  ASSUME WaitingPeers, Pool, ReadOnce, WaitInv,
         NEW c \in Clients, NEW r \in Requests, NEW k \in Chunks, on_read(c, r, k)
  PROVE  WaitInv'
<1>1. /\ conn[r] = NULL /\ conn'[r] = c
      /\ \A q \in Requests \ {r} : conn'[q] = conn[q]
      /\ \A q \in Own(c) : ~Unfinished(q)
      /\ parser' = [parser EXCEPT ![c] = [at |-> "idle", ended |-> parser[c].ended + 1]]
      /\ request'[c].url = r
      /\ \A d \in Clients \ {c} : request'[d] = request[d]
  BY WholeRead DEF Pool, TypeOK
<1>2. BetweenMessages'
  BY <1>1 DEF WaitInv, BetweenMessages, Pool, TypeOK
<1>3. \A q \in Requests, kind \in {"buf", "path", "file"} :
        <<kind, q>> \in heap => <<kind, q>> \in ParsedHeap(c, r, k)
  BY DEF ParsedHeap, replaced_url
<1>4. \A q \in Requests \ {r} : conn[q] = c => ~Unfinished(q)
  BY <1>1 DEF Own
<1>5. writeq[c] = <<>>
  <2>1. \A q \in Own(c) : stage[q] \notin {"fixed", "header"}
    BY <1>1, Trailing DEF Unfinished
  <2> QED
    BY <2>1 DEF WaitInv, QueueOwn
<1>6. CASE /\ stage' = [stage EXCEPT ![r] = "stat"]
           /\ io' = [io EXCEPT ![r] = [io[r] EXCEPT !.doc = r]]
           /\ heap' = ParsedHeap(c, r, k)
           /\ UNCHANGED <<response, writeq>>
  <2>1. stage'[r] = "stat" /\ io'[r].doc = r
    BY <1>6 DEF Pool, TypeOK, IoType
  <2>2. InHand(r)'
    BY <1>1, <2>1 DEF InHand
  <2>3. \A q \in Requests \ {r} : stage'[q] = stage[q] /\ io'[q] = io[q]
    BY <1>6 DEF Pool, TypeOK
  <2> QED
    BY <1>1, <1>2, <1>3, <1>4, <1>5, <1>6, <2>2, <2>3, ChainStep
<1>7. CASE /\ stage' = [stage EXCEPT ![r] = "fixed"]
           /\ writeq' = [writeq EXCEPT ![c] = <<r>>]
           /\ io' = [io EXCEPT ![r] = [io[r] EXCEPT !.code = 500]]
           /\ heap' = ParsedHeap(c, r, k) \cup {<<"buf", r>>}
           /\ response' = [response EXCEPT ![c] = fixed_response(response[c], r)]
  <2>1. stage'[r] = "fixed" /\ writeq'[c] = <<r>>
    BY <1>7 DEF Pool, TypeOK
  <2>2. response'[c].buf = r
    BY <1>7 DEF Pool, TypeOK, ResponseType, fixed_response
  <2>3. InHand(r)'
    BY <1>1, <1>7, <2>1, <2>2 DEF InHand
  <2>4. /\ \A q \in Requests \ {r} : stage'[q] = stage[q] /\ io'[q] = io[q]
        /\ \A d \in Clients \ {c} : response'[d] = response[d] /\ writeq'[d] = writeq[d]
    BY <1>7 DEF Pool, TypeOK
  <2> QED
    BY <1>1, <1>2, <1>3, <1>4, <1>7, <2>1, <2>3, <2>4, ChainStep
<1> QED
  BY <1>6, <1>7, WholeRead

LEMMA Alone ==
  ASSUME WaitingPeers, Pool, ReadOnce, WaitInv, NEW r \in Requests,
         stage[r] \in {"stat", "default", "fixed", "header", "open", "sendfile"}
  PROVE  /\ conn[r] \in Clients
         /\ InHand(r)
         /\ \A q \in Requests \ {r} : conn[q] = conn[r] => ~Unfinished(q)
         /\ stage[r] \notin {"fixed", "header"} => writeq[conn[r]] = <<>>
         /\ stage[r] \in {"fixed", "header"} => writeq[conn[r]] = <<r>>
<1>1. conn[r] \in Clients /\ InHand(r)
  BY DEF WaitInv, ReadOnce, Pool, TypeOK
<1>2. Unfinished(r)
  BY Trailing DEF Unfinished
<1>3. \A q \in Requests \ {r} : conn[q] = conn[r] => ~Unfinished(q)
  BY <1>2 DEF WaitInv, OneAtATime
<1>4. stage[r] \notin {"fixed", "header"} => writeq[conn[r]] = <<>>
  <2> SUFFICES ASSUME stage[r] \notin {"fixed", "header"}, writeq[conn[r]] # <<>>
               PROVE  FALSE
    OBVIOUS
  <2>1. PICK q \in Requests : conn[q] = conn[r] /\ stage[q] \in {"fixed", "header"}
    BY <1>1 DEF WaitInv, QueueOwn, Own
  <2>2. Unfinished(q)
    BY <2>1, Trailing DEF Unfinished
  <2> QED
    BY <1>3, <2>1, <2>2
<1> QED
  BY <1>1, <1>3, <1>4 DEF InHand

\* A page is queued for r, or refused by a handle that is closed.
LEMMA FixedStep ==
  ASSUME WaitingPeers, Pool, ReadOnce, WaitInv, NEW c \in Clients, NEW r \in Requests, NEW code,
         stage[r] \in {"stat", "default"}, c = conn[r], UNCHANGED <<conn, parser>>,
         \A d \in Clients \ {c} : request'[d] = request[d],
         make_fixed_response(c, r, code, heap)
  PROVE  WaitInv'
<1>1. /\ uv_write(c, r, "fixed")
      /\ heap' = heap \cup {<<"buf", r>>}
      /\ io' = [io EXCEPT ![r].code = code]
      /\ response' = [response EXCEPT ![c] = fixed_response(response[c], r)]
  BY DEF make_fixed_response
<1>2. /\ \A q \in Requests \ {r} : conn[q] = c => ~Unfinished(q)
      /\ writeq[c] = <<>>
  BY Alone
<1>3. /\ \A q \in Requests \ {r} : stage'[q] = stage[q] /\ io'[q] = io[q]
      /\ \A d \in Clients \ {c} : response'[d] = response[d] /\ writeq'[d] = writeq[d]
      /\ \/ stage'[r] = "fixed" /\ writeq'[c] = Append(writeq[c], r)
         \/ stage'[r] = "done" /\ writeq'[c] = <<>>
  BY <1>1, <1>2 DEF uv_write, Pool, TypeOK
<1>4. Append(writeq[c], r) = <<r>>
  BY <1>2
<1>5. response'[c].buf = r
  BY <1>1 DEF Pool, TypeOK, ResponseType, fixed_response
<1>6. InHand(r)'
  BY <1>1, <1>3, <1>4, <1>5 DEF InHand
<1>7. BetweenMessages'
  BY DEF WaitInv, BetweenMessages
<1> QED
  BY <1>1, <1>2, <1>3, <1>4, <1>6, <1>7, ChainStep

\* The header of a file that was found is queued for r, or refused.
LEMMA FoundStep ==
  ASSUME WaitingPeers, Pool, ReadOnce, WaitInv, NEW c \in Clients, NEW r \in Requests,
         stage[r] \in {"stat", "default"}, c = conn[r], UNCHANGED <<conn, parser, request>>,
         found_and_sendfs_req(c, r)
  PROVE  WaitInv'
<1>1. /\ uv_write(c, r, "header")
      /\ heap' = heap \cup {<<"path", r>>, <<"buf", r>>}
      /\ io' = [io EXCEPT ![r] = [io[r] EXCEPT !.code = 200]]
      /\ response' = [response EXCEPT ![c] = found_response(response[c], r)]
  BY DEF found_and_sendfs_req
<1>2. /\ \A q \in Requests \ {r} : conn[q] = c => ~Unfinished(q)
      /\ writeq[c] = <<>> /\ InHand(r)
  BY Alone
<1>3. /\ \A q \in Requests \ {r} : stage'[q] = stage[q] /\ io'[q] = io[q]
      /\ \A d \in Clients \ {c} : response'[d] = response[d] /\ writeq'[d] = writeq[d]
      /\ \/ stage'[r] = "header" /\ writeq'[c] = Append(writeq[c], r)
         \/ stage'[r] = "done" /\ writeq'[c] = <<>>
  BY <1>1, <1>2 DEF uv_write, Pool, TypeOK
<1>4. Append(writeq[c], r) = <<r>>
  BY <1>2
<1>5. response'[c].buf = r /\ response'[c].path = r /\ response'[c].size = r
  BY <1>1 DEF Pool, TypeOK, ResponseType, found_response
<1>6. io'[r].doc = r
  BY <1>1, <1>2 DEF InHand, Pool, TypeOK, IoType
<1>7. InHand(r)'
  BY <1>1, <1>3, <1>4, <1>5, <1>6 DEF InHand
<1>8. BetweenMessages'
  BY DEF WaitInv, BetweenMessages
<1> QED
  BY <1>1, <1>2, <1>3, <1>4, <1>7, <1>8, ChainStep

\* The lookup goes on to a default file, built from r's own URL.
LEMMA NextDefaultStep ==
  ASSUME WaitingPeers, Pool, ReadOnce, WaitInv, NEW c \in Clients, NEW r \in Requests,
         stage[r] \in {"stat", "default"}, c = conn[r],
         UNCHANGED <<conn, parser, response, heap, writeq>>,
         stage' = [stage EXCEPT ![r] = "default"],
         \A d \in Clients \ {c} : request'[d] = request[d],
         request'[c].url = request[c].url,
         \A q \in Requests \ {r} : io'[q] = io[q],
         io'[r].doc = r, request'[c].tries = io'[r].probe
  PROVE  WaitInv'
<1>1. /\ \A q \in Requests \ {r} : conn[q] = c => ~Unfinished(q)
      /\ writeq[c] = <<>> /\ InHand(r)
  BY Alone
<1>2. stage'[r] = "default" /\ \A q \in Requests \ {r} : stage'[q] = stage[q]
  BY DEF Pool, TypeOK
<1>3. InHand(r)'
  BY <1>1, <1>2 DEF InHand
<1>4. BetweenMessages'
  BY DEF WaitInv, BetweenMessages
<1> QED
  BY <1>1, <1>2, <1>3, <1>4, ChainStep

LEMMA WaitLookup ==
  ASSUME WaitingPeers, Pool, ReadOnce, WaitInv, NEW c \in Clients, NEW r \in Requests, NEW found,
         \/ check_path_async(c, r, found) /\ found \in {"missing", "dir", "file"}
         \/ check_default_files_async(c, r, found)
  PROVE  WaitInv'
<1>1. /\ stage[r] \in {"stat", "default"} /\ c = conn[r]
      /\ UNCHANGED <<conn, parser>>
  BY DEF check_path_async, check_default_files_async, Callback, net
<1>2. /\ request \in [Clients -> RequestType] /\ io \in [Requests -> IoType]
      /\ stage \in [Requests -> Stages]
  BY DEF Pool, TypeOK
<1>3. InHand(r)
  BY <1>1, Alone
<1>4. CASE check_path_async(c, r, found) /\ found \in {"missing", "dir", "file"}
  <2>1. CASE found = "missing"
    <3>1. make_fixed_response(c, r, 404, heap) /\ UNCHANGED request
      BY <1>4, <2>1 DEF check_path_async
    <3> QED
      BY <1>1, <3>1, FixedStep
  <2>2. CASE found = "dir"
    <3>1. /\ request' = [request EXCEPT ![c] = [request[c] EXCEPT !.tries = 0]]
          /\ io' = [io EXCEPT ![r] = [io[r] EXCEPT !.probe = 0]]
          /\ stage' = [stage EXCEPT ![r] = "default"]
          /\ UNCHANGED <<response, heap, writeq>>
          /\ stage[r] = "stat"
      <4>1. /\ request' = [request EXCEPT ![c] = check_path_async_tries(request[c])]
            /\ io' = [io EXCEPT ![r].probe = 0]
            /\ stage' = [stage EXCEPT ![r] = "default"]
            /\ UNCHANGED <<response, heap, writeq>>
        BY <1>4, <2>2 DEF check_path_async
      <4>2. stage[r] = "stat"
        BY <1>4 DEF check_path_async, Callback
      <4> QED
        BY <4>1, <4>2 DEF check_path_async_tries
    <3>2. /\ request'[c].url = request[c].url /\ request'[c].tries = 0
          /\ \A d \in Clients \ {c} : request'[d] = request[d]
      BY <1>2, <3>1 DEF RequestType
    <3>3. /\ io'[r].doc = r /\ io'[r].probe = 0
          /\ \A q \in Requests \ {r} : io'[q] = io[q]
      BY <1>2, <1>3, <3>1 DEF IoType, InHand
    <3> QED
      BY <1>1, <3>1, <3>2, <3>3, NextDefaultStep
  <2>3. CASE found = "file"
    <3>1. found_and_sendfs_req(c, r) /\ UNCHANGED request
      BY <1>4, <2>3 DEF check_path_async
    <3> QED
      BY <1>1, <3>1, FoundStep
  <2> QED
    BY <1>4, <2>1, <2>2, <2>3
<1>5. CASE check_default_files_async(c, r, found)
  <2>1. stage[r] = "default"
    BY <1>5 DEF check_default_files_async, Callback
  <2>2. CASE found = "found"
    <3>1. found_and_sendfs_req(c, r) /\ UNCHANGED request
      BY <1>5, <2>2 DEF check_default_files_async
    <3> QED
      BY <1>1, <3>1, FoundStep
  <2>3. CASE found # "found"
    <3> DEFINE tries == request[c].tries + 1
    <3>1. /\ request' = [request EXCEPT ![c] = [request[c] EXCEPT !.tries = tries]]
          /\ \/ \E code \in {404, 500} : make_fixed_response(c, r, code, heap)
             \/ /\ io' = [io EXCEPT ![r].doc = request[c].url, ![r].probe = tries]
                /\ UNCHANGED <<stage, response, heap, writeq>>
                /\ ~Exhausted(tries)
      BY <1>5, <2>3 DEF check_default_files_async
    <3>2. /\ request'[c].url = request[c].url /\ request'[c].tries = tries
          /\ \A d \in Clients \ {c} : request'[d] = request[d]
      BY <1>2, <3>1 DEF RequestType
    <3>3. CASE \E code \in {404, 500} : make_fixed_response(c, r, code, heap)
      BY <1>1, <3>2, <3>3, FixedStep
    <3>4. CASE /\ io' = [io EXCEPT ![r].doc = request[c].url, ![r].probe = tries]
               /\ UNCHANGED <<stage, response, heap, writeq>>
      <4>1. /\ io'[r].doc = r /\ io'[r].probe = tries
            /\ \A q \in Requests \ {r} : io'[q] = io[q]
        BY <1>1, <1>2, <1>3, <2>1, <3>4 DEF IoType, InHand
      <4>2. stage' = [stage EXCEPT ![r] = "default"]
        BY <1>2, <2>1, <3>4
      <4> QED
        BY <1>1, <3>2, <3>4, <4>1, <4>2, NextDefaultStep
    <3> QED
      BY <3>1, <3>3, <3>4
  <2> QED
    BY <2>2, <2>3
<1> QED
  BY <1>4, <1>5

\* The callback of a write takes it off the queue and ends the use of res->buf.
LEMMA WaitWriteCallback ==
  ASSUME WaitingPeers, Pool, ReadOnce, WaitInv,
         NEW c \in Clients, NEW r \in Requests, NEW ok \in BOOLEAN,
         conn[r] = c, on_final_fix_response(c, r, ok) \/ open_send_file(c, r, ok)
  PROVE  WaitInv'
<1>1. stage[r] \in {"fixed", "header"} /\ UNCHANGED <<conn, parser, request>>
  BY DEF on_final_fix_response, open_send_file, net, fields
<1>2. /\ InHand(r)
      /\ \A q \in Requests \ {r} : conn[q] = c => ~Unfinished(q)
      /\ writeq[c] = <<r>>
  BY <1>1, Alone
<1>3. response[c].buf = r
  BY <1>1, <1>2 DEF InHand
<1>4. /\ writeq' = [writeq EXCEPT ![c] = Tail(writeq[c])]
      /\ \E s \in {"open", "done"} : stage' = [stage EXCEPT ![r] = s]
      /\ \A q \in Requests \ {r} : io'[q] = io[q]
      /\ heap' \in {heap, heap \ {<<"buf", r>>}}
      /\ \A d \in Clients \ {c} : response'[d] = response[d]
  BY <1>3 DEF on_final_fix_response, open_send_file, fields, Pool, TypeOK
<1>5. writeq'[c] = <<>> /\ \A d \in Clients \ {c} : writeq'[d] = writeq[d]
  BY <1>2, <1>4 DEF Pool, TypeOK
<1>6. stage'[r] \in {"open", "done"} /\ \A q \in Requests \ {r} : stage'[q] = stage[q]
  BY <1>4 DEF Pool, TypeOK
<1>7. stage'[r] = "open" =>
        /\ response' = response /\ io'[r].doc = r
        /\ <<"path", r>> \in heap' /\ stage[r] = "header"
  <2> SUFFICES ASSUME stage'[r] = "open"
               PROVE  /\ response' = response /\ io'[r].doc = r
                      /\ <<"path", r>> \in heap' /\ stage[r] = "header"
    OBVIOUS
  <2>1. ~on_final_fix_response(c, r, ok)
    BY DEF on_final_fix_response, Pool, TypeOK
  <2>2. /\ stage[r] = "header"
        /\ response' = response
        /\ io' = [io EXCEPT ![r] = [io[r] EXCEPT !.doc = io[response[c].path].doc]]
    BY <2>1 DEF open_send_file, fields, Pool, TypeOK
  <2>3. response[c].path = r /\ io[r].doc = r /\ <<"path", r>> \in heap
    BY <1>2, <2>2 DEF InHand
  <2>4. io'[r].doc = r
    BY <2>2, <2>3 DEF Pool, TypeOK, IoType
  <2> QED
    BY <1>4, <2>2, <2>3, <2>4
<1>8. InHand(r)'
  BY <1>1, <1>2, <1>6, <1>7 DEF InHand
<1>9. BetweenMessages'
  BY <1>1 DEF WaitInv, BetweenMessages
<1>10. \A q \in Requests \ {r}, kind \in {"buf", "path", "file"} :
         <<kind, q>> \in heap => <<kind, q>> \in heap'
  BY <1>4
<1> QED
  BY <1>1, <1>2, <1>4, <1>5, <1>6, <1>8, <1>9, <1>10, ChainStep

\* send_file_context reads the length and the path of r, and r's file is opened.
LEMMA WaitOpened ==
  ASSUME WaitingPeers, Pool, ReadOnce, WaitInv,
         NEW c \in Clients, NEW r \in Requests, NEW opened \in BOOLEAN,
         send_file_context(c, r, opened)
  PROVE  WaitInv'
<1>1. /\ stage[r] = "open" /\ conn[r] = c /\ UNCHANGED <<conn, parser, request, writeq>>
  BY DEF send_file_context, Callback, net
<1>2. /\ InHand(r)
      /\ \A q \in Requests \ {r} : conn[q] = c => ~Unfinished(q)
      /\ writeq[c] = <<>>
  BY <1>1, Alone
<1>3. response[c].size = r /\ response[c].path = r /\ io[r].doc = r
  BY <1>1, <1>2 DEF InHand
<1>4. BetweenMessages'
  BY <1>1 DEF WaitInv, BetweenMessages
<1>5. CASE opened
  <2>1. PICK fd \in sendfd(c) :
          io' = [io EXCEPT ![r].fd = fd, ![r].len = response[c].size]
    BY <1>5 DEF send_file_context
  <2>2. /\ response' = [response EXCEPT ![c] = [response[c] EXCEPT !.file = r, !.path = NULL]]
        /\ heap' = (heap \ {<<"path", r>>}) \cup {<<"file", r>>}
        /\ stage' = [stage EXCEPT ![r] = "sendfile"]
    BY <1>3, <1>5 DEF send_file_context
  <2>3. io'[r].len = r /\ io'[r].doc = r /\ \A q \in Requests \ {r} : io'[q] = io[q]
    BY <1>3, <2>1 DEF Pool, TypeOK, IoType
  <2>4. response'[c].file = r /\ \A d \in Clients \ {c} : response'[d] = response[d]
    BY <2>2 DEF Pool, TypeOK, ResponseType
  <2>5. stage'[r] = "sendfile" /\ \A q \in Requests \ {r} : stage'[q] = stage[q]
    BY <2>2 DEF Pool, TypeOK
  <2>6. InHand(r)'
    BY <1>1, <2>2, <2>3, <2>4, <2>5 DEF InHand
  <2>7. \A q \in Requests \ {r}, kind \in {"buf", "path", "file"} :
          <<kind, q>> \in heap => <<kind, q>> \in heap'
    BY <2>2
  <2> QED
    BY <1>1, <1>2, <1>4, <2>3, <2>4, <2>5, <2>6, <2>7, ChainStep
<1>6. CASE ~opened
  <2>1. /\ response' = [response EXCEPT ![c] = [response[c] EXCEPT !.path = NULL]]
        /\ heap' = heap \ {<<"path", r>>}
        /\ stage' = [stage EXCEPT ![r] = "done"]
        /\ io' = io
    BY <1>3, <1>6 DEF send_file_context
  <2>2. /\ stage'[r] = "done" /\ \A q \in Requests \ {r} : stage'[q] = stage[q]
        /\ \A d \in Clients \ {c} : response'[d] = response[d]
    BY <2>1 DEF Pool, TypeOK
  <2>3. InHand(r)'
    BY <2>2 DEF InHand
  <2>4. \A q \in Requests \ {r}, kind \in {"buf", "path", "file"} :
          <<kind, q>> \in heap => <<kind, q>> \in heap'
    BY <2>1
  <2> QED
    BY <1>1, <1>2, <1>4, <2>1, <2>2, <2>3, <2>4, ChainStep
<1> QED
  BY <1>5, <1>6

LEMMA WaitSent ==
  ASSUME WaitingPeers, Pool, ReadOnce, WaitInv, NEW r \in Requests,
         Worker(r) \/ \E c \in Clients : final_sendfile(c, r)
  PROVE  WaitInv'
<1>1. CASE Worker(r)
  <2>1. /\ UNCHANGED <<conn, io, writeq, parser, fields, heap>>
        /\ \/ stage[r] = "sendfile" /\ stage' = [stage EXCEPT ![r] = "sent"]
           \/ stage[r] = "close" /\ stage' = [stage EXCEPT ![r] = "done"]
    BY <1>1 DEF Worker, uv_fs_sendfile, on_close_sendfile, net
  <2> QED
    BY <2>1, SendStep
<1>2. ASSUME NEW c \in Clients, final_sendfile(c, r)
      PROVE  WaitInv'
  <2>1. /\ UNCHANGED <<conn, io, writeq, parser, fields>>
        /\ stage[r] = "sent" /\ stage' = [stage EXCEPT ![r] = "close"]
        /\ conn[r] = c
        /\ heap' = heap \ {<<"file", response[c].file>>}
    BY <1>2 DEF final_sendfile, Callback, net
  <2>2. Sending = "serial" => response[c].file = r
    BY <2>1 DEF WaitInv, InHand
  <2> QED
    BY <2>1, <2>2, SendStep
<1> QED
  BY <1>1, <1>2

\* A write callback runs for a write of its own connection.
LEMMA WriterOwn ==
  ASSUME Pool, WaitInv, NEW c \in Clients, NEW r \in Requests, WriteCallback(c, r)
  PROVE  conn[r] = c
<1>1. writeq[c] # <<>> /\ r = Head(writeq[c])
  BY DEF WriteCallback, on_final_fix_response, open_send_file, WriteDone
<1>2. PICK q \in Requests : conn[q] = c /\ writeq[c] = <<q>>
  BY <1>1 DEF WaitInv, QueueOwn, Own
<1> QED
  BY <1>1, <1>2

LEMMA WaitStep ==
  ASSUME WaitingPeers, Pool, ReadOnce, WaitInv, Next
  PROVE  WaitInv'
<1>1. ASSUME NEW c \in Clients,
             on_connection(c) \/ on_close(c) \/ closed_silently(c) \/ flush(c) \/ on_read_close(c)
      PROVE  WaitInv'
  <2>1. /\ UNCHANGED <<parser, fields, chain>>
        /\ \A q \in Requests, kind \in {"buf", "path", "file"} :
             <<kind, q>> \in heap => <<kind, q>> \in heap'
    BY <1>1
    DEF on_connection, on_close, closed_silently, flush, on_read_close, release, free_client, net
  <2> QED
    BY <2>1, OtherStep DEF chain
<1>2. CASE cleanup_freeList \/ cleanup_resources
  <2>1. /\ UNCHANGED <<parser, fields, chain>>
        /\ \A q \in Requests, kind \in {"buf", "path", "file"} :
             <<kind, q>> \in heap => <<kind, q>> \in heap'
    BY <1>2 DEF cleanup_freeList, cleanup_resources, release, free_client, net
  <2> QED
    BY <2>1, OtherStep DEF chain
<1>3. CASE signal_handler \/ uv_walk \/ \E r \in Requests : undefined_behaviour(r)
  <2>1. UNCHANGED <<parser, fields, chain, heap>>
    BY <1>3 DEF signal_handler, uv_walk, undefined_behaviour, net
  <2> QED
    BY <2>1, OtherStep DEF chain
<1>4. ASSUME NEW c \in Clients, Peer(c)
      PROVE  WaitInv'
  BY <1>1, <1>4, WaitRead, NoParseError DEF Peer, WaitingPeers
<1>5. ASSUME NEW c \in Clients, NEW r \in Requests, WriteCallback(c, r)
      PROVE  WaitInv'
  BY <1>5, WriterOwn, WaitWriteCallback DEF WriteCallback
<1>6. ASSUME NEW c \in Clients, NEW r \in Requests, FsCallback(c, r)
      PROVE  WaitInv'
  BY <1>6, WaitLookup, WaitOpened, WaitSent, WebServerAssumption DEF FsCallback
<1>7. ASSUME NEW r \in Requests, Worker(r)
      PROVE  WaitInv'
  BY <1>7, WaitSent
<1> QED
  BY <1>1, <1>2, <1>3, <1>4, <1>5, <1>6, <1>7 DEF Next

LEMMA WaitInvariant ==
  ASSUME WaitingPeers
  PROVE  Spec => []WaitInv
<1>1. TypeOK /\ (ActiveExact /\ HandleOutlived) /\ UrlInv /\ WaitInv /\ [Next]_vars => WaitInv'
  <2> SUFFICES ASSUME Pool, ReadOnce, WaitInv, [Next]_vars
               PROVE  WaitInv'
    BY DEF Pool, UrlInv
  <2>1. CASE UNCHANGED vars
    BY <2>1, OtherStep DEF vars, net, chain
  <2> QED
    BY <2>1, WaitStep
<1> QED
  BY <1>1, WaitInit, UrlInvariant, TypeCorrect, PoolSafe, PTL DEF Spec

\* A serial or lockstep peer gets the file its own URL names, with
\* the length of that file, although the length is read from client_t three
\* callbacks after it was stored there.
THEOREM GetsOwnDocument ==
  ASSUME WaitingPeers
  PROVE  Spec => []OwnDocument
<1>1. WaitInv => OwnDocument
  BY DEF WaitInv, InHand, OwnDocument
<1> QED
  BY <1>1, WaitInvariant, PTL

\* A 404 for a directory comes after the probe of the last default file only: the
\* counter in client_t is not advanced or reset by another request.
THEOREM TriesAllDefaults ==
  ASSUME WaitingPeers
  PROVE  Spec => AllDefaultsTried
<1> DEFINE Tried == \A r \in Requests :
                      stage[r] = "default" /\ stage'[r] = "fixed" /\ io'[r].code = 404
                        => io[r].probe = DefCnt - 1
<1>1. TypeOK /\ WaitInv /\ ReadOnce /\ [Next]_vars => [Tried]_vars
  <2> SUFFICES ASSUME TypeOK, WaitInv, ReadOnce, Next, NEW r \in Requests,
                      stage[r] = "default", stage'[r] = "fixed", io'[r].code = 404
               PROVE  io[r].probe = DefCnt - 1
    OBVIOUS
  <2>1. stage \in [Requests -> Stages]
    BY DEF TypeOK
  <2>2. ASSUME NEW q \in Requests, NEW s, stage[q] # "default" \/ s # "fixed",
               stage' = [stage EXCEPT ![q] = s]
        PROVE  FALSE
    BY <2>1, <2>2
  <2>3. ASSUME NEW c \in Clients, Peer(c) \/ flush(c) \/ on_close(c) \/ closed_silently(c)
        PROVE  FALSE
    <3>1. UNCHANGED stage \/ \E q \in Requests, k \in Chunks :
                               on_read(c, q, k) \/ on_read_parse_error(c, q, k)
      BY <2>3
      DEF Peer, on_connection, on_read_close, flush, on_close, closed_silently, chain
    <3> QED
      BY <2>2, <3>1, ReadEffect
  <2>4. ASSUME NEW c \in Clients, NEW q \in Requests, WriteCallback(c, q)
        PROVE  FALSE
    <3>1. stage[q] # "default" /\ \E s \in {"open", "done"} : stage' = [stage EXCEPT ![q] = s]
      BY <2>4 DEF WriteCallback, on_final_fix_response, open_send_file
    <3> QED
      BY <2>2, <3>1
  <2>5. ASSUME NEW q \in Requests, Worker(q) \/ undefined_behaviour(q)
        PROVE  FALSE
    <3>1. UNCHANGED stage \/ \E s \in {"sent", "done"} : stage' = [stage EXCEPT ![q] = s]
      BY <2>5 DEF Worker, uv_fs_sendfile, on_close_sendfile, undefined_behaviour, chain
    <3> QED
      BY <2>2, <3>1
  <2>6. ASSUME NEW c \in Clients, NEW q \in Requests, NEW opened,
               send_file_context(c, q, opened) \/ final_sendfile(c, q)
        PROVE  FALSE
    <3>1. \E s \in {"sendfile", "close", "done"} : stage' = [stage EXCEPT ![q] = s]
      BY <2>6 DEF send_file_context, final_sendfile
    <3> QED
      BY <2>2, <3>1
  <2>7. ASSUME NEW c \in Clients, NEW q \in Requests, NEW found \in {"missing", "dir", "file"},
               check_path_async(c, q, found)
        PROVE  FALSE
    <3>1. stage[q] = "stat"
      BY <2>7 DEF check_path_async, Callback
    <3> QED
      BY <2>2, <2>7, <3>1, LookupEffect
  <2>8. ~(cleanup_freeList \/ cleanup_resources \/ signal_handler \/ uv_walk)
    BY DEF cleanup_freeList, cleanup_resources, signal_handler, uv_walk, chain
  <2>9. PICK c \in Clients, q \in Requests, found \in ProbeResults :
          check_default_files_async(c, q, found)
    <3>1. PICK c \in Clients, q \in Requests : FsCallback(c, q)
      BY <2>3, <2>4, <2>5, <2>8 DEF Next
    <3>2. ~\E found \in StatResults \ {"long"} : check_path_async(c, q, found)
      BY <2>7, WebServerAssumption
    <3>3. ~check_path_async(c, q, "missing")
      BY <2>7
    <3> QED
      BY <2>6, <3>1, <3>2, <3>3 DEF FsCallback
  <2>10. q = r /\ conn[q] = c
    <3>1. stage[q] = "default" /\ c = conn[q]
      BY <2>9 DEF check_default_files_async, Callback
    <3>2. \E s : stage' = [stage EXCEPT ![q] = s]
      BY <2>9, LookupEffect
    <3> QED
      BY <2>1, <3>1, <3>2
  <2>11. request[c].tries = io[r].probe
    BY <2>10 DEF WaitInv, InHand
  <2>12. found # "found"
    <3>1. ~found_and_sendfs_req(c, r)
      BY <2>1 DEF found_and_sendfs_req, uv_write
    <3> QED
      BY <2>9, <2>10, <3>1 DEF check_default_files_async
  <2>13. Exhausted(request[c].tries + 1)
    <3>1. ~make_fixed_response(c, r, 500, heap)
      BY DEF make_fixed_response, TypeOK, IoType
    <3> QED
      BY <2>9, <2>10, <2>12, <3>1 DEF check_default_files_async
  <2>14. io[r].probe \in 0..(DefCnt - 1)
    BY DEF TypeOK, IoType
  <2> QED
    BY <2>11, <2>13, <2>14, WebServerAssumption DEF Exhausted
<1> QED
  BY <1>1, TypeCorrect, UrlInvariant, WaitInvariant, PTL DEF Spec, AllDefaultsTried, UrlInv

-----------------------------------------------------------------------------
(* IN_REF, one bit, is enough for one sendfile at a time.                  *)

InSendfile(r) == stage[r] \in {"sendfile", "sent"}

AbsentUnread == \A c \in Clients : mem[c] = "absent" => Own(c) = {}

RefInv == AbsentUnread /\ ReferenceExact /\ PinnedSendfile /\ FaultConfined

LEMMA RefInit == Init => RefInv
BY WebServerAssumption
DEF Init, RefInv, AbsentUnread, ReferenceExact, PinnedSendfile, FaultConfined, Own

\* A step that frees no client and starts or ends no sendfile.
LEMMA RefKept ==
  ASSUME Pool, ReadOnce, RefInv, mem' = mem, fault' = fault,
         \A c \in Clients : "IN_REF" \in flags'[c] <=> "IN_REF" \in flags[c],
         \A r \in Requests :
           /\ \/ conn'[r] = conn[r]
              \/ stage[r] = "none" /\ conn'[r] \in Clients /\ mem[conn'[r]] = "live"
           /\ InSendfile(r)' <=> InSendfile(r)
  PROVE  RefInv'
<1>1. \A r \in Requests : InSendfile(r) => conn'[r] = conn[r]
  BY DEF InSendfile
<1>2. AbsentUnread'
  BY DEF RefInv, AbsentUnread, Own
<1>3. ReferenceExact'
  BY <1>1 DEF RefInv, ReferenceExact, Own, InSendfile
<1>4. PinnedSendfile'
  BY <1>1 DEF RefInv, PinnedSendfile, InSendfile
<1>5. FaultConfined'
  BY DEF RefInv, FaultConfined
<1> QED
  BY <1>2, <1>3, <1>4, <1>5 DEF RefInv

\* Clients that have no sendfile under way are freed.
LEMMA RefRelease ==
  ASSUME Pool, ReadOnce, RefInv, NEW C \in SUBSET Clients, release(C),
         \A r \in Requests : InSendfile(r) => conn[r] \notin C,
         \A c \in Clients : "IN_REF" \in flags'[c] <=> "IN_REF" \in flags[c],
         UNCHANGED <<conn, stage, fault>>
  PROVE  RefInv'
<1>1. \A c \in Clients : mem'[c] = IF c \in C THEN "freed" ELSE mem[c]
  BY DEF release
<1>2. AbsentUnread'
  BY <1>1 DEF RefInv, AbsentUnread, Own
<1>3. ReferenceExact'
  BY <1>1 DEF RefInv, ReferenceExact, Own
<1>4. PinnedSendfile'
  <2>1. \A r \in Requests : InSendfile(r) => conn[r] \in Clients
    BY DEF ReadOnce, InSendfile, Pool, TypeOK
  <2> QED
    BY <1>1, <2>1 DEF RefInv, PinnedSendfile, InSendfile
<1> QED
  BY <1>2, <1>3, <1>4 DEF RefInv, FaultConfined

LEMMA RefRead ==
  ASSUME Pool, ReadOnce, RefInv, NEW c \in Clients, NEW r \in Requests, NEW k \in Chunks,
         on_read(c, r, k) \/ on_read_parse_error(c, r, k)
  PROVE  RefInv'
<1>1. /\ stage[r] = "none" /\ handle[c] = "open" /\ conn' = [conn EXCEPT ![r] = c]
      /\ \E s \in {"stat", "fixed", "done"} : stage' = [stage EXCEPT ![r] = s]
      /\ UNCHANGED <<mem, flags>>
  BY ReadEffect DEF Pool
<1>2. mem[c] = "live"
  BY <1>1 DEF Pool, HandleOutlived
<1>3. \A q \in Requests : \/ conn'[q] = conn[q]
                          \/ stage[q] = "none" /\ conn'[q] = c
  BY <1>1 DEF Pool, TypeOK
<1>4. \A q \in Requests : InSendfile(q)' <=> InSendfile(q)
  BY <1>1 DEF InSendfile, Pool, TypeOK
<1>5. fault' = fault
  BY DEF on_read, on_read_parse_error
<1> QED
  BY <1>1, <1>2, <1>3, <1>4, <1>5, RefKept

LEMMA RefSendfile ==
  ASSUME SerialPeers, Pool, ReadOnce, WaitInv, RefInv, NEW c \in Clients, NEW r \in Requests,
         NEW opened \in BOOLEAN, send_file_context(c, r, opened) \/ final_sendfile(c, r)
  PROVE  RefInv'
<1>1. /\ stage[r] \in {"open", "sent"} /\ conn[r] = c /\ mem[c] = "live"
      /\ UNCHANGED <<mem, conn, fault>>
  BY DEF send_file_context, final_sendfile, Callback
<1>2. AbsentUnread' /\ FaultConfined'
  BY <1>1 DEF RefInv, AbsentUnread, FaultConfined, Own
<1>3. \A q \in Requests \ {r} : conn[q] = c => ~InSendfile(q)
  <2>1. ASSUME NEW q \in Requests, InSendfile(q) \/ stage[q] = "open"
        PROVE  Unfinished(q)
    BY <2>1 DEF Unfinished, MayTrail, SerialPeers, InSendfile
  <2> QED
    BY <1>1, <2>1 DEF WaitInv, OneAtATime, InSendfile
<1>4. ASSUME NEW s, stage' = [stage EXCEPT ![r] = s],
             \A d \in Clients \ {c} : flags'[d] = flags[d],
             "IN_REF" \in flags'[c] <=> s = "sendfile", s \in {"sendfile", "close", "done"}
      PROVE  ReferenceExact' /\ PinnedSendfile'
  <2>1. \A q \in Requests : stage'[q] = IF q = r THEN s ELSE stage[q]
    BY <1>4 DEF Pool, TypeOK
  <2>2. \A d \in Clients, q \in Requests : q \in Own(d)' <=> q \in Own(d)
    BY <1>1 DEF Own
  <2>3. \A d \in Clients \ {c} : mem'[d] = "live" =>
          ("IN_REF" \in flags'[d] <=> \E q \in Own(d)' : stage'[q] \in {"sendfile", "sent"})
    BY <1>1, <1>4, <2>1 DEF RefInv, ReferenceExact, Own
  <2>4. "IN_REF" \in flags'[c] <=> \E q \in Own(c)' : stage'[q] \in {"sendfile", "sent"}
    BY <1>1, <1>3, <1>4, <2>1 DEF Own, InSendfile
  <2>5. ReferenceExact'
    BY <2>3, <2>4 DEF ReferenceExact
  <2>6. PinnedSendfile'
    BY <1>1, <2>1 DEF RefInv, PinnedSendfile
  <2> QED
    BY <2>5, <2>6
<1>5. flags \in [Clients -> SUBSET Flags]
  BY DEF Pool, TypeOK
<1>6. CASE final_sendfile(c, r)
  <2>1. /\ stage' = [stage EXCEPT ![r] = "close"]
        /\ flags' = [flags EXCEPT ![c] = flags[c] \ {"IN_REF"}]
    BY <1>6 DEF final_sendfile, CLIENT_CLEAR_IN_REF
  <2> QED
    BY <1>2, <1>4, <1>5, <2>1 DEF RefInv
<1>7. CASE send_file_context(c, r, opened) /\ opened
  <2>1. /\ stage' = [stage EXCEPT ![r] = "sendfile"]
        /\ flags' = [flags EXCEPT ![c] = flags[c] \cup {"IN_REF"}]
    BY <1>7 DEF send_file_context, CLIENT_SET_IN_REF
  <2>2. "IN_REF" \in flags'[c] /\ \A d \in Clients \ {c} : flags'[d] = flags[d]
    BY <1>5, <2>1
  <2> QED
    BY <1>2, <1>4, <2>1, <2>2 DEF RefInv
<1>8. CASE send_file_context(c, r, opened) /\ ~opened
  <2>1. /\ stage' = [stage EXCEPT ![r] = "done"] /\ flags' = flags
        /\ stage[r] = "open"
    BY <1>8 DEF send_file_context, Callback
  <2>2. "IN_REF" \notin flags[c]
    BY <1>1, <1>3, <2>1 DEF RefInv, ReferenceExact, Own, InSendfile
  <2> QED
    BY <1>2, <1>4, <2>1, <2>2 DEF RefInv
<1> QED
  BY <1>6, <1>7, <1>8

\* The buffer, the path and the file of the callback that is due are its own.
LEMMA OnlyFreedClients ==
  ASSUME SerialPeers, WaitInv, NEW r \in Requests
  PROVE  ~FreesStaleBuf(r) /\ ~OpensNullPath(r) /\ ~ClosesStaleFile(r)
<1>1. stage[r] # "none" => InHand(r)
  BY DEF WaitInv
<1>2. ~FreesStaleBuf(r)
  BY <1>1 DEF FreesStaleBuf, StaleBuf, InHand
<1>3. ~OpensNullPath(r)
  BY <1>1, WebServerAssumption DEF OpensNullPath, InHand
<1>4. ~ClosesStaleFile(r)
  BY <1>1 DEF ClosesStaleFile, StaleFile, InHand, SerialPeers
<1> QED
  BY <1>2, <1>3, <1>4

LEMMA RefFault ==
  ASSUME SerialPeers, Pool, ReadOnce, WaitInv, RefInv, NEW r \in Requests,
         undefined_behaviour(r)
  PROVE  RefInv'
<1>1. UNCHANGED <<mem, flags, conn, stage>>
  BY DEF undefined_behaviour, pool, chain
<1>2. AbsentUnread' /\ ReferenceExact' /\ PinnedSendfile'
  BY <1>1 DEF RefInv, AbsentUnread, ReferenceExact, PinnedSendfile, Own
<1>3. FaultConfined'
  BY OnlyFreedClients DEF undefined_behaviour, FaultConfined
<1> QED
  BY <1>2, <1>3 DEF RefInv

LEMMA RefStep ==
  ASSUME SerialPeers, Pool, ReadOnce, WaitInv, RefInv, Next
  PROVE  RefInv'
<1>0. flags \in [Clients -> SUBSET Flags] /\ stage \in [Requests -> Stages]
      /\ mem \in [Clients -> {"absent", "live", "freed"}]
  BY DEF Pool, TypeOK
<1>1. ASSUME NEW c \in Clients, on_connection(c)
      PROVE  RefInv'
  <2>1. /\ mem[c] = "absent" /\ mem' = [mem EXCEPT ![c] = "live"]
        /\ flags' = [flags EXCEPT ![c] = {"IN_USE"}]
        /\ UNCHANGED <<conn, stage, fault>>
    BY <1>1 DEF on_connection, chain
  <2>2. \A r \in Requests : conn[r] # c
    BY <2>1 DEF RefInv, AbsentUnread, Own
  <2>3. AbsentUnread' /\ FaultConfined'
    BY <1>0, <2>1 DEF RefInv, AbsentUnread, FaultConfined, Own
  <2>4. ReferenceExact'
    BY <1>0, <2>1, <2>2 DEF RefInv, ReferenceExact, Own
  <2>5. PinnedSendfile'
    BY <1>0, <2>1, <2>2 DEF RefInv, PinnedSendfile, ReadOnce
  <2> QED
    BY <2>3, <2>4, <2>5 DEF RefInv
<1>2. ASSUME NEW c \in Clients, on_close(c)
      PROVE  RefInv'
  <2>1. /\ handle[c] = "closing" /\ flags' = [flags EXCEPT ![c] = flags[c] \ {"IN_USE"}]
        /\ UNCHANGED <<conn, stage, fault>>
        /\ \/ CLIENT_IS_FLAGS_FREE(flags[c] \ {"IN_USE"}) /\ release({c})
           \/ mem' = mem
    BY <1>2 DEF on_close, chain
  <2>2. \A d \in Clients : "IN_REF" \in flags'[d] <=> "IN_REF" \in flags[d]
    BY <1>0, <2>1
  <2>3. CASE mem' = mem
    BY <2>1, <2>2, <2>3, RefKept DEF InSendfile
  <2>4. CASE CLIENT_IS_FLAGS_FREE(flags[c] \ {"IN_USE"}) /\ release({c})
    <3>1. "IN_REF" \notin flags[c] /\ mem[c] = "live"
      BY <2>1, <2>4 DEF CLIENT_IS_FLAGS_FREE, Flags, Pool, HandleOutlived
    <3>2. \A r \in Requests : InSendfile(r) => conn[r] \notin {c}
      BY <3>1 DEF RefInv, ReferenceExact, Own, InSendfile
    <3> QED
      BY <2>1, <2>2, <2>4, <3>2, RefRelease
  <2> QED
    BY <2>1, <2>3, <2>4
<1>3. CASE cleanup_freeList
  <2>1. PICK C \in SUBSET active : release(C) /\ \A c \in C : CLIENT_IS_FLAGS_FREE(flags[c])
    BY <1>3 DEF cleanup_freeList
  <2>2. C \in SUBSET Clients
    BY DEF Pool, TypeOK
  <2>3. \A c \in C : mem[c] = "live" /\ "IN_REF" \notin flags[c]
    BY <2>1, <2>2 DEF CLIENT_IS_FLAGS_FREE, Flags, Pool, ActiveExact
  <2>4. \A r \in Requests : InSendfile(r) => conn[r] \notin C
    BY <2>2, <2>3 DEF RefInv, ReferenceExact, Own, InSendfile
  <2> QED
    BY <1>3, <2>1, <2>2, <2>4, RefRelease DEF cleanup_freeList, chain
<1>4. CASE cleanup_resources
  <2>1. \A r \in Requests : ~InSendfile(r)
    BY <1>4 DEF cleanup_resources, Quiet, InSendfile
  <2>2. active \in SUBSET Clients
    BY DEF Pool, TypeOK
  <2> QED
    BY <1>4, <2>1, <2>2, RefRelease DEF cleanup_resources, chain
<1>5. ASSUME NEW c \in Clients, closed_silently(c) \/ flush(c) \/ on_read_close(c)
      PROVE  RefInv'
  BY <1>5, RefKept DEF closed_silently, flush, on_read_close, pool, chain, InSendfile
<1>6. CASE signal_handler \/ uv_walk
  BY <1>6, RefKept DEF signal_handler, uv_walk, pool, chain, InSendfile
<1>7. ASSUME NEW c \in Clients, NEW r \in Requests, WriteCallback(c, r)
      PROVE  RefInv'
  <2>1. /\ UNCHANGED <<mem, flags, conn, fault>>
        /\ stage[r] \in {"fixed", "header"}
        /\ \E s \in {"open", "done"} : stage' = [stage EXCEPT ![r] = s]
    BY <1>7 DEF WriteCallback, on_final_fix_response, open_send_file, pool
  <2>2. \A q \in Requests : InSendfile(q)' <=> InSendfile(q)
    BY <1>0, <2>1 DEF InSendfile
  <2> QED
    BY <2>1, <2>2, RefKept
<1>8. ASSUME NEW c \in Clients, NEW r \in Requests, NEW found,
             \/ check_path_async(c, r, found) /\ found \in {"missing", "dir", "file"}
             \/ check_default_files_async(c, r, found)
      PROVE  RefInv'
  <2>1. /\ UNCHANGED <<mem, flags, conn>>
        /\ stage[r] \in {"stat", "default"}
        /\ \E s \in {"default", "fixed", "header", "done"} : stage' = [stage EXCEPT ![r] = s]
    BY <1>8, LookupEffect DEF Pool
  <2>2. fault' = fault
    BY <1>8 DEF check_path_async, check_default_files_async
  <2>3. \A q \in Requests : InSendfile(q)' <=> InSendfile(q)
    BY <1>0, <2>1 DEF InSendfile
  <2> QED
    BY <2>1, <2>2, <2>3, RefKept
<1>9. ASSUME NEW r \in Requests, Worker(r)
      PROVE  RefInv'
  <2>1. /\ UNCHANGED <<mem, flags, conn, fault>>
        /\ \/ stage[r] = "sendfile" /\ stage' = [stage EXCEPT ![r] = "sent"]
           \/ stage[r] = "close" /\ stage' = [stage EXCEPT ![r] = "done"]
    BY <1>9 DEF Worker, uv_fs_sendfile, on_close_sendfile, pool
  <2>2. \A q \in Requests : InSendfile(q)' <=> InSendfile(q)
    BY <1>0, <2>1 DEF InSendfile
  <2> QED
    BY <2>1, <2>2, RefKept
<1>10. ASSUME NEW c \in Clients, Peer(c)
       PROVE  RefInv'
  BY <1>1, <1>5, <1>10, RefRead DEF Peer
<1>11. ASSUME NEW c \in Clients, NEW r \in Requests, FsCallback(c, r)
       PROVE  RefInv'
  BY <1>8, <1>11, RefSendfile, WebServerAssumption DEF FsCallback
<1>12. ASSUME NEW r \in Requests, undefined_behaviour(r)
       PROVE  RefInv'
  BY <1>12, RefFault
<1> QED
  BY <1>2, <1>3, <1>4, <1>5, <1>6, <1>7, <1>9, <1>10, <1>11, <1>12 DEF Next

LEMMA RefInvariant ==
  ASSUME SerialPeers
  PROVE  Spec => []RefInv
<1>1. WaitingPeers
  BY DEF SerialPeers, WaitingPeers
<1>2. TypeOK /\ (ActiveExact /\ HandleOutlived) /\ UrlInv /\ WaitInv /\ RefInv /\ [Next]_vars
        => RefInv'
  <2> SUFFICES ASSUME Pool, ReadOnce, WaitInv, RefInv, [Next]_vars
               PROVE  RefInv'
    BY DEF Pool, UrlInv
  <2>1. CASE UNCHANGED vars
    BY <2>1, RefKept DEF vars, pool, chain, InSendfile
  <2> QED
    BY <2>1, RefStep
<1> QED
  BY <1>1, <1>2, RefInit, WaitInvariant, UrlInvariant, TypeCorrect, PoolSafe, PTL DEF Spec

\* A serial peer may break off at any moment: IN_REF, a single bit, still says
\* exactly that a sendfile is under way.
THEOREM ReferenceIsExact ==
  ASSUME SerialPeers
  PROVE  Spec => []ReferenceExact
<1>1. RefInv => ReferenceExact
  BY DEF RefInv
<1> QED
  BY <1>1, RefInvariant, PTL

\* So its client is still there when final_sendfile, on the loop thread, uses it.
THEOREM SendfileIsPinned ==
  ASSUME SerialPeers
  PROVE  Spec => []PinnedSendfile
<1>1. RefInv => PinnedSendfile
  BY DEF RefInv
<1> QED
  BY <1>1, RefInvariant, PTL

\* The only undefined behaviour such a peer can cause is a callback of another file
\* operation that reads a freed client.
THEOREM FaultIsConfined ==
  ASSUME SerialPeers
  PROVE  Spec => []FaultConfined
<1>1. RefInv => FaultConfined
  BY DEF RefInv
<1> QED
  BY <1>1, RefInvariant, PTL
=============================================================================
