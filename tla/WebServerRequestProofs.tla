------------------------ MODULE WebServerRequestProofs ------------------------
(***************************************************************************)
(* What a request leaves in a client_t, for every set of clients and       *)
(* requests and whatever the peers do: request.url can be used by the      *)
(* callbacks that build paths from it, the files that were opened are      *)
(* closed when webserver() returns, a closed client has somebody who will  *)
(* free it, and only another sendfile can unpin the client of a sendfile.  *)
(***************************************************************************)
EXTENDS WebServerPoolProofs, FiniteSetTheorems

-----------------------------------------------------------------------------
(* What the steps do, in the terms of the invariants below.                *)

LEMMA WriteEffect ==
  ASSUME TypeOK, NEW c \in Clients, NEW r \in Requests, NEW next, uv_write(c, r, next)
  PROVE  \/ /\ handle[c] = "open"
            /\ stage' = [stage EXCEPT ![r] = next]
            /\ writeq' = [writeq EXCEPT ![c] = Append(writeq[c], r)]
         \/ /\ handle[c] # "open"
            /\ stage' = [stage EXCEPT ![r] = "done"]
            /\ writeq' = writeq
BY DEF uv_write

\* The bytes of one read start at most one operation, and their URL replaces the
\* one before.
LEMMA ReadEffect ==
  ASSUME TypeOK, NEW c \in Clients, NEW r \in Requests, NEW k \in Chunks,
         on_read(c, r, k) \/ on_read_parse_error(c, r, k)
  PROVE  /\ stage[r] = "none" /\ handle[c] = "open"
         /\ conn' = [conn EXCEPT ![r] = c]
         /\ request' = [request EXCEPT ![c] = ParsedRequest(c, r, k)]
         /\ \E s \in {"stat", "fixed", "done"} : stage' = [stage EXCEPT ![r] = s]
         /\ stage'[r] = "stat" => io'[r].doc = ParsedRequest(c, r, k).url
         /\ \A q \in Requests \ {r} : io'[q] = io[q]
         /\ heap' \in {ParsedHeap(c, r, k), ParsedHeap(c, r, k) \cup {<<"buf", r>>}}
         /\ UNCHANGED <<active, mem, flags, wire>>
<1>1. /\ stage[r] = "none" /\ handle[c] = "open"
      /\ conn' = [conn EXCEPT ![r] = c]
      /\ request' = [request EXCEPT ![c] = ParsedRequest(c, r, k)]
      /\ UNCHANGED <<active, mem, flags, wire>>
  BY DEF on_read, on_read_parse_error, llhttp_execute, pool
<1>2. stage \in [Requests -> Stages] /\ io \in [Requests -> IoType]
  BY DEF TypeOK
<1> DEFINE url == ParsedRequest(c, r, k).url
           h   == ParsedHeap(c, r, k)
           Goal == /\ \E s \in {"stat", "fixed", "done"} : stage' = [stage EXCEPT ![r] = s]
                   /\ stage'[r] = "stat" => io'[r].doc = url
                   /\ \A q \in Requests \ {r} : io'[q] = io[q]
                   /\ heap' \in {h, h \cup {<<"buf", r>>}}
<1>3. ASSUME on_read(c, r, k)
      PROVE  Goal
  <2>1. process_request(c, r, url, h)
    BY <1>3 DEF on_read
  <2> HIDE DEF url, h
  <2>2. CASE make_fixed_response(c, r, 500, h)
    <3>1. /\ uv_write(c, r, "fixed")
          /\ heap' = h \cup {<<"buf", r>>}
          /\ io' = [io EXCEPT ![r].code = 500]
      BY <2>2 DEF make_fixed_response
    <3> QED
      BY <1>2, <3>1 DEF uv_write
  <2>3. CASE ~make_fixed_response(c, r, 500, h)
    <3>1. /\ stage' = [stage EXCEPT ![r] = "stat"]
          /\ io' = [io EXCEPT ![r].doc = url]
          /\ heap' = h
      BY <2>1, <2>3 DEF process_request
    <3>2. io'[r].doc = url
      BY <1>2, <3>1 DEF IoType
    <3> QED
      BY <1>2, <3>1, <3>2
  <2> QED
    BY <2>2, <2>3
<1>4. ASSUME on_read_parse_error(c, r, k)
      PROVE  Goal
  <2>1. stage' = [stage EXCEPT ![r] = "done"] /\ heap' = h /\ io' = io
    BY <1>4 DEF on_read_parse_error
  <2> HIDE DEF url, h
  <2> QED
    BY <1>2, <2>1
<1>5. Goal
  BY <1>3, <1>4
<1> QED
  BY <1>1, <1>5

\* A lookup that ends answers with a page or a header, or goes on to the next
\* default file.
LEMMA LookupEffect ==
  ASSUME TypeOK, NEW c \in Clients, NEW r \in Requests, NEW found,
         \/ check_path_async(c, r, found) /\ found \in {"missing", "dir", "file"}
         \/ check_default_files_async(c, r, found)
  PROVE  /\ stage[r] \in {"stat", "default"} /\ c = conn[r] /\ mem[c] = "live"
         /\ \E s \in {"default", "fixed", "header", "done"} : stage' = [stage EXCEPT ![r] = s]
         /\ stage'[r] = "default" => stage[r] = "default" \/ io[r].doc # NULL
         /\ \A q \in Requests \ {r} : io'[q] = io[q]
         /\ \A d \in Clients \ {c} : request'[d] = request[d]
         /\ request'[c].url = request[c].url
         /\ \E p \in {response[c], fixed_response(response[c], r), found_response(response[c], r)} :
              response' = [response EXCEPT ![c] = p]
         /\ heap' \in {heap, heap \cup {<<"buf", r>>}, heap \cup {<<"path", r>>, <<"buf", r>>}}
         /\ UNCHANGED <<phase, active, mem, flags, handle, sock, parser, conn, wire>>
<1>1. /\ stage[r] \in {"stat", "default"} /\ c = conn[r] /\ mem[c] = "live"
      /\ UNCHANGED <<phase, active, mem, flags, handle, sock, parser, conn, wire>>
  BY DEF check_path_async, check_default_files_async, Callback, pool, net
<1>2. /\ stage \in [Requests -> Stages] /\ io \in [Requests -> IoType]
      /\ request \in [Clients -> RequestType] /\ response \in [Clients -> ResponseType]
  BY DEF TypeOK
<1> DEFINE Sought ==
             /\ \E s \in {"default", "fixed", "header", "done"} : stage' = [stage EXCEPT ![r] = s]
             /\ \A q \in Requests \ {r} : io'[q] = io[q]
             /\ \E p \in {response[c], fixed_response(response[c], r), found_response(response[c], r)} :
                  response' = [response EXCEPT ![c] = p]
             /\ heap' \in {heap, heap \cup {<<"buf", r>>}, heap \cup {<<"path", r>>, <<"buf", r>>}}
           Asked ==
             /\ \A d \in Clients \ {c} : request'[d] = request[d]
             /\ request'[c].url = request[c].url
<1>3. ASSUME NEW code, make_fixed_response(c, r, code, heap)
      PROVE  Sought /\ stage'[r] # "default"
  <2>1. /\ uv_write(c, r, "fixed")
        /\ heap' = heap \cup {<<"buf", r>>}
        /\ io' = [io EXCEPT ![r].code = code]
        /\ response' = [response EXCEPT ![c] = fixed_response(response[c], r)]
    BY <1>3 DEF make_fixed_response
  <2> QED
    BY <1>2, <2>1 DEF uv_write
<1>4. ASSUME found_and_sendfs_req(c, r)
      PROVE  Sought /\ stage'[r] # "default"
  <2>1. /\ uv_write(c, r, "header")
        /\ heap' = heap \cup {<<"path", r>>, <<"buf", r>>}
        /\ io' = [io EXCEPT ![r].code = 200]
        /\ response' = [response EXCEPT ![c] = found_response(response[c], r)]
    BY <1>4 DEF found_and_sendfs_req
  <2> QED
    BY <1>2, <2>1 DEF uv_write
<1>5. ASSUME NEW n, request' = [request EXCEPT ![c].tries = n]
      PROVE  Asked
  BY <1>2, <1>5 DEF RequestType
<1>6. UNCHANGED request => Asked
  OBVIOUS
<1>7. CASE check_path_async(c, r, found) /\ found \in {"missing", "dir", "file"}
  <2>1. CASE found # "dir"
    BY <1>1, <1>3, <1>4, <1>6, <1>7, <2>1 DEF check_path_async
  <2>2. CASE found = "dir"
    <3>1. /\ request' = [request EXCEPT ![c] = [request[c] EXCEPT !.tries = 0]]
          /\ io' = [io EXCEPT ![r].probe = 0]
          /\ stage' = [stage EXCEPT ![r] = "default"]
          /\ UNCHANGED <<response, heap, writeq>>
          /\ io[r].doc # NULL
      BY <1>7, <2>2 DEF check_path_async, check_path_async_tries
    <3>2. Asked
      BY <1>2, <3>1 DEF RequestType
    <3>3. Sought
      BY <1>2, <3>1
    <3> QED
      BY <1>1, <3>1, <3>2, <3>3
  <2> QED
    BY <2>1, <2>2
<1>8. CASE check_default_files_async(c, r, found)
  <2>1. stage[r] = "default"
    BY <1>8 DEF check_default_files_async, Callback
  <2>2. CASE found = "found"
    BY <1>1, <1>4, <1>6, <1>8, <2>1, <2>2 DEF check_default_files_async
  <2>3. CASE found # "found"
    <3> DEFINE tries == request[c].tries + 1
    <3>1. request' = [request EXCEPT ![c].tries = tries]
      BY <1>8, <2>3 DEF check_default_files_async
    <3>2. Asked
      BY <1>5, <3>1
    <3>3. \/ \E code \in {404, 500} : make_fixed_response(c, r, code, heap)
          \/ /\ io' = [io EXCEPT ![r].doc = request[c].url, ![r].probe = tries]
             /\ UNCHANGED <<stage, response, heap, writeq>>
      BY <1>8, <2>3 DEF check_default_files_async
    <3>4. Sought
      <4>1. ASSUME NEW code \in {404, 500}, make_fixed_response(c, r, code, heap)
            PROVE  Sought
        BY <1>3, <4>1
      <4>2. CASE io' = [io EXCEPT ![r].doc = request[c].url, ![r].probe = tries]
                 /\ UNCHANGED <<stage, response, heap, writeq>>
        <5>1. stage' = [stage EXCEPT ![r] = "default"]
          BY <1>2, <2>1, <4>2
        <5> QED
          BY <1>2, <4>2, <5>1
      <4> QED
        BY <3>3, <4>1, <4>2
    <3> QED
      BY <1>1, <2>1, <3>2, <3>4
  <2> QED
    BY <2>2, <2>3
<1> QED
  BY <1>7, <1>8

-----------------------------------------------------------------------------
(* request.url                                                             *)

\* A chain starts with the read that assigns its connection.
ReadOnce == \A r \in Requests : stage[r] = "none" <=> conn[r] = NULL

\* A client's URL came in one of its own reads, so no two clients share one, and
\* it stays once it is there: an operation that was started with a URL finds one.
UrlOwned == \A c \in Clients : request[c].url # NULL => conn[request[c].url] = c

UrlSeen ==
  \A r \in Requests :
    stage[r] = "default" \/ (stage[r] = "stat" /\ io[r].doc # NULL)
      => request[conn[r]].url # NULL

\* The URL of a block that is not freed yet is allocated.
UrlAllocated ==
  /\ \A c \in Clients : mem[c] = "absent" => request[c].url = NULL
  /\ \A c \in Clients : mem[c] = "live" /\ request[c].url # NULL
                        => <<"url", request[c].url>> \in heap

UrlInv == ReadOnce /\ UrlOwned /\ UrlSeen /\ UrlAllocated

LEMMA UrlInit == Init => UrlInv
BY DEF Init, UrlInv, ReadOnce, UrlOwned, UrlSeen, UrlAllocated, request_t, no_io

\* A step that reads no bytes keeps the URLs, if it frees none that is in use.
LEMMA UrlKept ==
  ASSUME TypeOK, UrlInv, conn' = conn,
         \A c \in Clients : request'[c].url = request[c].url,
         \A c \in Clients : /\ mem'[c] = "live" => mem[c] \in {"live", "absent"}
                            /\ mem'[c] = "absent" => mem[c] = "absent",
         \A c \in Clients : mem'[c] = "live" /\ <<"url", request[c].url>> \in heap
                              => <<"url", request[c].url>> \in heap',
         \A r \in Requests :
           \/ stage'[r] = stage[r]
           \/ /\ stage[r] # "none" /\ stage'[r] \notin {"none", "stat"}
              /\ stage'[r] = "default" => request[conn[r]].url # NULL,
         \A r \in Requests : stage[r] = "stat" /\ stage'[r] = "stat"
                              => io'[r].doc = io[r].doc
  PROVE  UrlInv'
<1>1. ReadOnce'
  BY DEF UrlInv, ReadOnce
<1>2. UrlOwned'
  BY DEF UrlInv, UrlOwned
<1>3. \A r \in Requests : stage[r] # "none" => conn[r] \in Clients
  BY DEF UrlInv, ReadOnce, TypeOK
<1>4. UrlSeen'
  BY <1>3 DEF UrlInv, UrlSeen
<1>5. UrlAllocated'
  BY DEF UrlInv, UrlAllocated
<1> QED
  BY <1>1, <1>2, <1>4, <1>5 DEF UrlInv

\* on_url frees the URL it replaces, which no other client has.
LEMMA UrlRead ==
  ASSUME Pool, UrlInv, NEW c \in Clients, NEW r \in Requests, NEW k \in Chunks,
         on_read(c, r, k) \/ on_read_parse_error(c, r, k)
  PROVE  UrlInv'
<1> DEFINE url == ParsedRequest(c, r, k).url
<1>1. /\ stage[r] = "none" /\ handle[c] = "open"
      /\ conn' = [conn EXCEPT ![r] = c]
      /\ request' = [request EXCEPT ![c] = ParsedRequest(c, r, k)]
      /\ \E s \in {"stat", "fixed", "done"} : stage' = [stage EXCEPT ![r] = s]
      /\ stage'[r] = "stat" => io'[r].doc = url
      /\ \A q \in Requests \ {r} : io'[q] = io[q]
      /\ ParsedHeap(c, r, k) \subseteq heap'
      /\ mem' = mem
  BY ReadEffect DEF Pool
<1>2. /\ conn \in [Requests -> Clients \cup {NULL}] /\ stage \in [Requests -> Stages]
      /\ request \in [Clients -> RequestType]
  BY DEF Pool, TypeOK
<1>3. url = IF k.urls > 0 THEN r ELSE request[c].url
  BY <1>2 DEF ParsedRequest, RequestType, on_url
<1>4. /\ request'[c].url = url
      /\ \A d \in Clients \ {c} : request'[d] = request[d]
  BY <1>1, <1>2
<1> HIDE DEF url
<1>5. conn[r] = NULL /\ mem[c] = "live"
  BY <1>1 DEF UrlInv, ReadOnce, Pool, HandleOutlived
<1>6. \A d \in Clients : request[d].url \in Requests \cup {NULL} /\ request[d].url # r
  BY <1>2, <1>5, WebServerAssumption DEF UrlInv, UrlOwned, RequestType, RequestP
<1>7. ReadOnce'
  BY <1>1, <1>2, WebServerAssumption DEF UrlInv, ReadOnce
<1>8. UrlOwned'
  BY <1>1, <1>2, <1>3, <1>4, <1>6 DEF UrlInv, UrlOwned
<1>9. UrlSeen'
  <2> SUFFICES ASSUME NEW q \in Requests,
                      stage'[q] = "default" \/ (stage'[q] = "stat" /\ io'[q].doc # NULL)
               PROVE  request'[conn'[q]].url # NULL
    BY DEF UrlSeen
  <2>1. CASE q = r
    BY <1>1, <1>2, <1>4, <2>1
  <2>2. CASE q # r
    <3>1. conn'[q] = conn[q] /\ request[conn[q]].url # NULL /\ conn[q] \in Clients
      BY <1>1, <1>2, <2>2 DEF UrlInv, UrlSeen, ReadOnce
    <3> QED
      BY <1>3, <1>4, <3>1, WebServerAssumption
  <2> QED
    BY <2>1, <2>2
<1>10. UrlAllocated'
  <2>1. url = r => <<"url", url>> \in ParsedHeap(c, r, k)
    BY <1>3, <1>6 DEF ParsedHeap
  <2>2. url # r => url = request[c].url /\ heap \subseteq ParsedHeap(c, r, k)
    BY <1>3 DEF ParsedHeap
  <2>3. \A d \in Clients \ {c} : request[d].url # NULL /\ <<"url", request[d].url>> \in heap
          => <<"url", request[d].url>> \in ParsedHeap(c, r, k)
    BY DEF UrlInv, UrlOwned, ParsedHeap, replaced_url
  <2> QED
    BY <1>1, <1>4, <1>5, <2>1, <2>2, <2>3 DEF UrlInv, UrlAllocated
<1> QED
  BY <1>7, <1>8, <1>9, <1>10 DEF UrlInv

\* free_client frees no URL of another client.
LEMMA UrlRelease ==
  ASSUME Pool, UrlInv, NEW C \in SUBSET Clients, release(C), UNCHANGED <<fields, chain>>
  PROVE  UrlInv'
<1>1. \A c \in Clients : mem'[c] = IF c \in C THEN "freed" ELSE mem[c]
  BY DEF release
<1>2. \A c \in Clients \ C :
        request[c].url # NULL /\ <<"url", request[c].url>> \in heap
          => <<"url", request[c].url>> \in heap'
  BY DEF release, free_client, UrlInv, UrlOwned
<1>3. ReadOnce' /\ UrlOwned' /\ UrlSeen'
  BY DEF UrlInv, ReadOnce, UrlOwned, UrlSeen, fields, chain
<1>4. UrlAllocated'
  BY <1>1, <1>2 DEF UrlInv, UrlAllocated, fields
<1> QED
  BY <1>3, <1>4 DEF UrlInv

LEMMA UrlStep ==
  ASSUME Pool, UrlInv, Next
  PROVE  UrlInv'
<1> USE DEF Pool
<1>1. ASSUME NEW c \in Clients, on_connection(c)
      PROVE  UrlInv'
  <2>1. /\ mem' = [mem EXCEPT ![c] = "live"] /\ mem[c] = "absent"
        /\ UNCHANGED <<fields, chain, heap>>
    BY <1>1 DEF on_connection
  <2>2. request[c].url = NULL
    BY <2>1 DEF UrlInv, UrlAllocated
  <2>3. ReadOnce' /\ UrlOwned' /\ UrlSeen'
    BY <2>1 DEF UrlInv, ReadOnce, UrlOwned, UrlSeen, fields, chain
  <2>4. UrlAllocated'
    BY <2>1, <2>2 DEF UrlInv, UrlAllocated, fields, TypeOK
  <2> QED
    BY <2>3, <2>4 DEF UrlInv
<1>2. ASSUME NEW c \in Clients, on_close(c)
      PROVE  UrlInv'
  <2>1. release({c}) \/ UNCHANGED <<active, mem, heap>>
    BY <1>2 DEF on_close
  <2>2. UNCHANGED <<fields, chain>>
    BY <1>2 DEF on_close
  <2> QED
    BY <2>1, <2>2, UrlRelease, UrlKept DEF fields, chain
<1>3. ASSUME NEW c \in Clients, closed_silently(c) \/ flush(c) \/ on_read_close(c)
      PROVE  UrlInv'
  <2>1. UNCHANGED <<mem, fields, chain>> /\ heap \subseteq heap'
    BY <1>3 DEF closed_silently, flush, on_read_close, pool
  <2> QED
    BY <2>1, UrlKept DEF fields, chain
<1>4. CASE cleanup_freeList
  <2>1. \E C \in SUBSET Clients : release(C)
    BY <1>4 DEF cleanup_freeList, TypeOK
  <2> QED
    BY <1>4, <2>1, UrlRelease DEF cleanup_freeList
<1>5. CASE cleanup_resources
  BY <1>5, UrlRelease DEF cleanup_resources, TypeOK
<1>6. ASSUME NEW c \in Clients, NEW r \in Requests, NEW k \in Chunks,
             on_read(c, r, k) \/ on_read_parse_error(c, r, k)
      PROVE  UrlInv'
  BY <1>6, UrlRead
<1>7. ASSUME NEW c \in Clients, NEW r \in Requests, NEW ok \in BOOLEAN,
             on_final_fix_response(c, r, ok) \/ open_send_file(c, r, ok)
      PROVE  UrlInv'
  <2>1. /\ UNCHANGED <<conn, request, mem>>
        /\ heap \ heap' \subseteq {<<"buf", response[c].buf>>}
        /\ stage[r] \in {"fixed", "header"}
        /\ \E s \in {"open", "done"} : stage' = [stage EXCEPT ![r] = s]
        /\ \A q \in Requests \ {r} : io'[q] = io[q]
    BY <1>7 DEF on_final_fix_response, open_send_file, pool, fields, TypeOK
  <2> QED
    BY <2>1, UrlKept DEF TypeOK
<1>8. ASSUME NEW c \in Clients, NEW r \in Requests, NEW found,
             \/ check_path_async(c, r, found) /\ found \in {"missing", "dir", "file"}
             \/ check_default_files_async(c, r, found)
      PROVE  UrlInv'
  <2>1. /\ UNCHANGED <<conn, mem>>
        /\ \A d \in Clients : request'[d].url = request[d].url
        /\ heap \subseteq heap'
        /\ stage[r] \in {"stat", "default"}
        /\ \E s \in {"default", "fixed", "header", "done"} : stage' = [stage EXCEPT ![r] = s]
        /\ stage'[r] = "default" => stage[r] = "default" \/ io[r].doc # NULL
        /\ \A q \in Requests \ {r} : io'[q] = io[q]
    BY <1>8, LookupEffect
  <2>2. stage'[r] = "default" => request[conn[r]].url # NULL
    BY <2>1 DEF UrlInv, UrlSeen
  <2> QED
    BY <2>1, <2>2, UrlKept DEF TypeOK
<1>9. ASSUME NEW c \in Clients, NEW r \in Requests, NEW opened \in BOOLEAN,
             send_file_context(c, r, opened)
      PROVE  UrlInv'
  <2>1. /\ UNCHANGED <<conn, request, mem>>
        /\ heap \ heap' \subseteq {<<"path", response[c].path>>}
        /\ stage[r] = "open"
        /\ \E s \in {"sendfile", "done"} : stage' = [stage EXCEPT ![r] = s]
        /\ \A q \in Requests \ {r} : io'[q] = io[q]
    BY <1>9 DEF send_file_context, Callback, TypeOK
  <2> QED
    BY <2>1, UrlKept DEF TypeOK
<1>10. ASSUME NEW c \in Clients, NEW r \in Requests, final_sendfile(c, r)
       PROVE  UrlInv'
  <2>1. /\ UNCHANGED <<fields, conn, io, mem>>
        /\ heap \ heap' \subseteq {<<"file", response[c].file>>}
        /\ stage[r] = "sent" /\ stage' = [stage EXCEPT ![r] = "close"]
    BY <1>10 DEF final_sendfile, Callback
  <2> QED
    BY <2>1, UrlKept DEF fields, TypeOK
<1>11. ASSUME NEW r \in Requests, Worker(r)
       PROVE  UrlInv'
  <2>1. /\ UNCHANGED <<fields, conn, io, mem, heap>>
        /\ stage[r] \in {"sendfile", "close"}
        /\ \E s \in {"sent", "done"} : stage' = [stage EXCEPT ![r] = s]
    BY <1>11 DEF Worker, uv_fs_sendfile, on_close_sendfile, pool
  <2> QED
    BY <2>1, UrlKept DEF fields, TypeOK
<1>12. CASE signal_handler \/ uv_walk \/ \E r \in Requests : undefined_behaviour(r)
  <2>1. UNCHANGED <<mem, fields, chain, heap>>
    BY <1>12 DEF signal_handler, uv_walk, undefined_behaviour, pool
  <2> QED
    BY <2>1, UrlKept DEF fields, chain
<1>13. ASSUME NEW c \in Clients, Peer(c)
       PROVE  UrlInv'
  BY <1>1, <1>3, <1>6, <1>13 DEF Peer
<1>14. ASSUME NEW c \in Clients, NEW r \in Requests, WriteCallback(c, r) \/ FsCallback(c, r)
       PROVE  UrlInv'
  BY <1>7, <1>8, <1>9, <1>10, <1>14, WebServerAssumption DEF WriteCallback, FsCallback
<1> QED
  BY <1>2, <1>3, <1>4, <1>5, <1>11, <1>12, <1>13, <1>14 DEF Next

LEMMA UrlInvariant == Spec => []UrlInv
<1>1. TypeOK /\ (ActiveExact /\ HandleOutlived) /\ UrlInv /\ [Next]_vars => UrlInv'
  <2> SUFFICES ASSUME Pool, UrlInv, [Next]_vars
               PROVE  UrlInv'
    BY DEF Pool
  <2>1. CASE UNCHANGED vars
    BY <2>1 DEF vars, pool, fields, chain, UrlInv, ReadOnce, UrlOwned, UrlSeen, UrlAllocated
  <2> QED
    BY <2>1, UrlStep
<1> QED
  BY <1>1, UrlInit, TypeCorrect, PoolSafe, PTL DEF Spec

\* Whatever order URLs, parts of URLs and callbacks come in, the URL of a live client
\* is NULL or allocated, and check_default_files_async finds it not NULL.
THEOREM UrlIsUsable == Spec => []UrlUsable
<1>1. TypeOK /\ UrlInv => UrlUsable
  BY DEF TypeOK, UrlInv, UrlSeen, UrlAllocated, UrlUsable, Own
<1> QED
  BY <1>1, UrlInvariant, TypeCorrect, PTL

-----------------------------------------------------------------------------
(* Open files.  Two answers of a client may send their files at the same   *)
(* time, and response.file is one pointer: final_sendfile may close the    *)
(* file of the other.  What never goes wrong is the count.                 *)

FilesOf(c)    == {r \in Own(c) : <<"file", r>> \in heap}
SendfilesOf(c) == {r \in Own(c) : stage[r] \in {"sendfile", "sent"}}

FileOwned == \A c \in Clients : response[c].file # NULL => conn[response[c].file] = c

FileOpened ==
  /\ <<"file", NULL>> \notin heap
  /\ \A r \in Requests :
       <<"file", r>> \in heap => stage[r] \in {"sendfile", "sent", "close", "done"}

\* A client has no more open files than sendfiles under way.
FilesCounted ==
  \A c \in Clients :
    /\ IsFiniteSet(FilesOf(c)) /\ IsFiniteSet(SendfilesOf(c))
    /\ Cardinality(FilesOf(c)) <= Cardinality(SendfilesOf(c))

FileInv == ReadOnce /\ FileOwned /\ FileOpened /\ FilesCounted

LEMMA FileInit == Init => FileInv
<1>1. Init => \A c \in Clients : FilesOf(c) = {} /\ SendfilesOf(c) = {}
  BY DEF Init, FilesOf, SendfilesOf, Own
<1>2. Init => ReadOnce /\ FileOwned /\ FileOpened
  BY DEF Init, ReadOnce, FileOwned, FileOpened, response_t
<1> QED
  BY <1>1, <1>2, FS_EmptySet DEF FileInv, FilesCounted

\* A step that opens and closes no file and starts or ends no sendfile.
LEMMA FilesKept ==
  ASSUME TypeOK, FileInv, ReadOnce',
         \A r \in Requests : conn'[r] = conn[r]
            \/ (conn[r] = NULL /\ stage'[r] \notin {"sendfile", "sent"}),
         \A c \in Clients : response'[c].file = response[c].file,
         \A r \in RequestP : <<"file", r>> \in heap' <=> <<"file", r>> \in heap,
         \A r \in Requests :
           /\ stage[r] \in {"sendfile", "sent"} <=> stage'[r] \in {"sendfile", "sent"}
           /\ stage[r] \in {"close", "done"} => stage'[r] \in {"close", "done"}
  PROVE  FileInv'
<1>1. \A r \in Requests : conn[r] = NULL =>
        <<"file", r>> \notin heap /\ stage[r] \notin {"sendfile", "sent"}
  BY DEF FileInv, FileOpened, ReadOnce
<1>2. \A c \in Clients : FilesOf(c)' = FilesOf(c)
  BY <1>1, WebServerAssumption DEF FilesOf, Own, RequestP
<1>3. \A c \in Clients : SendfilesOf(c)' = SendfilesOf(c)
  BY <1>1, WebServerAssumption DEF SendfilesOf, Own
<1>4. FilesCounted'
  BY <1>2, <1>3 DEF FileInv, FilesCounted
<1>5. \A c \in Clients : response[c].file # NULL => conn[response[c].file] = c /\ response[c].file \in Requests
  BY DEF FileInv, FileOwned, TypeOK, ResponseType, RequestP
<1>6. FileOwned'
  BY <1>5, WebServerAssumption DEF FileOwned
<1>7. FileOpened'
  BY DEF FileInv, FileOpened, RequestP
<1> QED
  BY <1>4, <1>6, <1>7 DEF FileInv

LEMMA FileField ==
  ASSUME NEW p \in ResponseType, NEW r
  PROVE  /\ fixed_response(p, r).file = p.file
         /\ found_response(p, r).file = p.file
         /\ [p EXCEPT !.buf = NULL].file = p.file
         /\ [p EXCEPT !.path = NULL].file = p.file
BY DEF fixed_response, found_response, ResponseType

LEMMA FileStep ==
  ASSUME Pool, FileInv, ReadOnce', Next
  PROVE  FileInv'
<1> USE DEF Pool
<1>1. ASSUME NEW c \in Clients,
             on_connection(c) \/ on_close(c) \/ closed_silently(c) \/ flush(c) \/ on_read_close(c)
      PROVE  FileInv'
  <2>1. /\ UNCHANGED <<fields, chain>>
        /\ \A r \in RequestP : <<"file", r>> \in heap' <=> <<"file", r>> \in heap
    BY <1>1
    DEF on_connection, on_close, closed_silently, flush, on_read_close, release, free_client
  <2> QED
    BY <2>1, FilesKept DEF fields, chain
<1>2. CASE cleanup_freeList \/ cleanup_resources
  <2>1. /\ UNCHANGED <<fields, chain>>
        /\ \A r \in RequestP : <<"file", r>> \in heap' <=> <<"file", r>> \in heap
    BY <1>2 DEF cleanup_freeList, cleanup_resources, release, free_client
  <2> QED
    BY <2>1, FilesKept DEF fields, chain
<1>3. CASE signal_handler \/ uv_walk \/ \E r \in Requests : undefined_behaviour(r)
  <2>1. UNCHANGED <<fields, chain, heap>>
    BY <1>3 DEF signal_handler, uv_walk, undefined_behaviour
  <2> QED
    BY <2>1, FilesKept DEF fields, chain
<1>4. ASSUME NEW c \in Clients, NEW r \in Requests, NEW k \in Chunks,
             on_read(c, r, k) \/ on_read_parse_error(c, r, k)
      PROVE  FileInv'
  <2>1. /\ stage[r] = "none" /\ conn' = [conn EXCEPT ![r] = c]
        /\ \E s \in {"stat", "fixed", "done"} : stage' = [stage EXCEPT ![r] = s]
        /\ heap' \in {ParsedHeap(c, r, k), ParsedHeap(c, r, k) \cup {<<"buf", r>>}}
    BY <1>4, ReadEffect
  <2>2. \A d \in Clients : response'[d].file = response[d].file
    <3>1. response' = response
          \/ response' = [response EXCEPT ![c] = fixed_response(response[c], r)]
      <4>1. CASE on_read(c, r, k)
        BY <4>1 DEF on_read, process_request, make_fixed_response
      <4>2. CASE on_read_parse_error(c, r, k)
        BY <4>2 DEF on_read_parse_error
      <4> QED
        BY <1>4, <4>1, <4>2
    <3>2. fixed_response(response[c], r).file = response[c].file
      BY FileField DEF TypeOK
    <3> QED
      BY <3>1, <3>2 DEF TypeOK
  <2>3. \A q \in RequestP : <<"file", q>> \in heap' <=> <<"file", q>> \in heap
    BY <2>1 DEF ParsedHeap, replaced_url
  <2>4. conn[r] = NULL
    BY <2>1 DEF FileInv, ReadOnce
  <2>5. \A q \in Requests : conn'[q] = conn[q] \/ (conn[q] = NULL /\ q = r)
    BY <2>1, <2>4 DEF TypeOK
  <2>6. \A q \in Requests \ {r} : stage'[q] = stage[q]
    BY <2>1 DEF TypeOK
  <2>7. stage'[r] \in {"stat", "fixed", "done"}
    BY <2>1 DEF TypeOK
  <2> QED
    BY <2>1, <2>2, <2>3, <2>5, <2>6, <2>7, FilesKept
<1>5. ASSUME NEW c \in Clients, NEW r \in Requests, NEW ok \in BOOLEAN,
             on_final_fix_response(c, r, ok) \/ open_send_file(c, r, ok)
      PROVE  FileInv'
  <2>1. /\ conn' = conn
        /\ \A q \in RequestP : <<"file", q>> \in heap' <=> <<"file", q>> \in heap
        /\ stage[r] \in {"fixed", "header"}
        /\ \E s \in {"open", "done"} : stage' = [stage EXCEPT ![r] = s]
    BY <1>5 DEF on_final_fix_response, open_send_file
  <2>2. \A d \in Clients : response'[d].file = response[d].file
    <3>1. response' = response
          \/ response' = [response EXCEPT ![c] = [response[c] EXCEPT !.buf = NULL]]
      <4>1. CASE on_final_fix_response(c, r, ok)
        BY <4>1 DEF on_final_fix_response
      <4>2. CASE open_send_file(c, r, ok)
        BY <4>2 DEF open_send_file, fields
      <4> QED
        BY <1>5, <4>1, <4>2
    <3>2. [response[c] EXCEPT !.buf = NULL].file = response[c].file
      BY FileField DEF TypeOK
    <3> QED
      BY <3>1, <3>2 DEF TypeOK
  <2> QED
    BY <2>1, <2>2, FilesKept DEF TypeOK
<1>6. ASSUME NEW c \in Clients, NEW r \in Requests, NEW found,
             \/ check_path_async(c, r, found) /\ found \in {"missing", "dir", "file"}
             \/ check_default_files_async(c, r, found)
      PROVE  FileInv'
  <2>1. /\ stage[r] \in {"stat", "default"} /\ conn' = conn
        /\ \E s \in {"default", "fixed", "header", "done"} : stage' = [stage EXCEPT ![r] = s]
        /\ \E p \in {response[c], fixed_response(response[c], r), found_response(response[c], r)} :
             response' = [response EXCEPT ![c] = p]
        /\ heap' \in {heap, heap \cup {<<"buf", r>>}, heap \cup {<<"path", r>>, <<"buf", r>>}}
    BY <1>6, LookupEffect
  <2>2. \A d \in Clients : response'[d].file = response[d].file
    BY <2>1, FileField DEF TypeOK
  <2>3. \A q \in RequestP : <<"file", q>> \in heap' <=> <<"file", q>> \in heap
    BY <2>1
  <2> QED
    BY <2>1, <2>2, <2>3, FilesKept DEF TypeOK
<1>7. ASSUME NEW r \in Requests, Worker(r)
      PROVE  FileInv'
  <2>1. /\ UNCHANGED <<fields, conn, heap>>
        /\ \/ stage[r] = "sendfile" /\ stage' = [stage EXCEPT ![r] = "sent"]
           \/ stage[r] = "close" /\ stage' = [stage EXCEPT ![r] = "done"]
    BY <1>7 DEF Worker, uv_fs_sendfile, on_close_sendfile
  <2> QED
    BY <2>1, FilesKept DEF fields, TypeOK
<1>8. ASSUME NEW c \in Clients, NEW r \in Requests, NEW opened \in BOOLEAN,
             send_file_context(c, r, opened)
      PROVE  FileInv'
  <2>1. stage[r] = "open" /\ conn[r] = c /\ conn' = conn
    BY <1>8 DEF send_file_context, Callback
  <2>2. CASE ~opened
    <3>1. /\ stage' = [stage EXCEPT ![r] = "done"]
          /\ response' = [response EXCEPT ![c] = [response[c] EXCEPT !.path = NULL]]
          /\ heap' = heap \ {<<"path", response[c].path>>}
      BY <1>8, <2>2 DEF send_file_context
    <3>2. \A d \in Clients : response'[d].file = response[d].file
      BY <3>1 DEF TypeOK, ResponseType
    <3>3. \A q \in RequestP : <<"file", q>> \in heap' <=> <<"file", q>> \in heap
      BY <3>1
    <3> QED
      BY <2>1, <3>1, <3>2, <3>3, FilesKept DEF TypeOK
  <2>3. CASE opened
    <3>1. /\ stage' = [stage EXCEPT ![r] = "sendfile"]
          /\ response' = [response EXCEPT ![c] = [response[c] EXCEPT !.file = r, !.path = NULL]]
          /\ heap' = (heap \ {<<"path", response[c].path>>}) \cup {<<"file", r>>}
      BY <1>8, <2>3 DEF send_file_context
    <3>2. response'[c].file = r /\ \A d \in Clients \ {c} : response'[d] = response[d]
      BY <3>1 DEF TypeOK, ResponseType
    <3>3. \A q \in RequestP : <<"file", q>> \in heap' <=> <<"file", q>> \in heap \/ q = r
      BY <3>1
    <3>4. stage'[r] = "sendfile" /\ \A q \in Requests \ {r} : stage'[q] = stage[q]
      BY <3>1 DEF TypeOK
    <3>5. <<"file", r>> \notin heap
      BY <2>1 DEF FileInv, FileOpened
    <3>6. /\ FilesOf(c)' = FilesOf(c) \cup {r} /\ r \notin FilesOf(c)
          /\ SendfilesOf(c)' = SendfilesOf(c) \cup {r} /\ r \notin SendfilesOf(c)
      BY <2>1, <3>3, <3>4, <3>5 DEF FilesOf, SendfilesOf, Own, RequestP
    <3>7. \A d \in Clients \ {c} : FilesOf(d)' = FilesOf(d) /\ SendfilesOf(d)' = SendfilesOf(d)
      BY <2>1, <3>3, <3>4 DEF FilesOf, SendfilesOf, Own, RequestP
    <3>8. FilesCounted'
      <4>1. IsFiniteSet(FilesOf(c)) /\ IsFiniteSet(SendfilesOf(c))
            /\ Cardinality(FilesOf(c)) <= Cardinality(SendfilesOf(c))
        BY DEF FileInv, FilesCounted
      <4>2. /\ Cardinality(FilesOf(c)) \in Nat /\ Cardinality(SendfilesOf(c)) \in Nat
            /\ IsFiniteSet(FilesOf(c)') /\ IsFiniteSet(SendfilesOf(c)')
            /\ Cardinality(FilesOf(c)') = Cardinality(FilesOf(c)) + 1
            /\ Cardinality(SendfilesOf(c)') = Cardinality(SendfilesOf(c)) + 1
        <5>1. ASSUME NEW S, NEW T, T = S \cup {r}, r \notin S, IsFiniteSet(S)
              PROVE  /\ Cardinality(S) \in Nat /\ IsFiniteSet(T)
                     /\ Cardinality(T) = Cardinality(S) + 1
          BY <5>1, FS_AddElement, FS_CardinalityType
        <5> QED
          BY <3>6, <4>1, <5>1
      <4> QED
        BY <3>7, <4>1, <4>2 DEF FileInv, FilesCounted
    <3>9. FileOwned' /\ FileOpened'
      BY <2>1, <3>2, <3>3, <3>4, WebServerAssumption DEF FileInv, FileOwned, FileOpened, RequestP
    <3> QED
      BY <3>8, <3>9 DEF FileInv
  <2> QED
    BY <2>2, <2>3
<1>9. ASSUME NEW c \in Clients, NEW r \in Requests, final_sendfile(c, r)
      PROVE  FileInv'
  <2> DEFINE f == response[c].file
  <2>1. /\ stage[r] = "sent" /\ conn[r] = c
        /\ UNCHANGED <<response, conn>>
        /\ <<"file", f>> \in heap
        /\ heap' = heap \ {<<"file", f>>}
        /\ stage' = [stage EXCEPT ![r] = "close"]
    BY <1>9 DEF final_sendfile, Callback, StaleFile, fields
  <2>2. f \in FilesOf(c)
    BY <2>1 DEF FileInv, FileOwned, FileOpened, FilesOf, Own, TypeOK, ResponseType, RequestP
  <2>3. r \in SendfilesOf(c)
    BY <2>1 DEF SendfilesOf, Own
  <2> HIDE DEF f
  <2>4. stage'[r] = "close" /\ \A q \in Requests \ {r} : stage'[q] = stage[q]
    BY <2>1 DEF TypeOK
  <2>5. FilesOf(c)' = FilesOf(c) \ {f} /\ SendfilesOf(c)' = SendfilesOf(c) \ {r}
    BY <2>1, <2>4 DEF FilesOf, SendfilesOf, Own
  <2>6. \A d \in Clients \ {c} : FilesOf(d)' = FilesOf(d) /\ SendfilesOf(d)' = SendfilesOf(d)
    BY <2>1, <2>2, <2>4 DEF FilesOf, SendfilesOf, Own
  <2>7. FilesCounted'
    <3>1. IsFiniteSet(FilesOf(c)) /\ IsFiniteSet(SendfilesOf(c))
          /\ Cardinality(FilesOf(c)) <= Cardinality(SendfilesOf(c))
      BY DEF FileInv, FilesCounted
    <3>2. ASSUME NEW S, NEW T, NEW x, T = S \ {x}, x \in S, IsFiniteSet(S)
          PROVE  /\ Cardinality(S) \in Nat /\ IsFiniteSet(T)
                 /\ Cardinality(T) = Cardinality(S) - 1
      BY <3>2, FS_RemoveElement, FS_CardinalityType
    <3>3. /\ Cardinality(FilesOf(c)) \in Nat /\ Cardinality(SendfilesOf(c)) \in Nat
          /\ IsFiniteSet(FilesOf(c)') /\ IsFiniteSet(SendfilesOf(c)')
          /\ Cardinality(FilesOf(c)') = Cardinality(FilesOf(c)) - 1
          /\ Cardinality(SendfilesOf(c)') = Cardinality(SendfilesOf(c)) - 1
      BY <2>2, <2>3, <2>5, <3>1, <3>2
    <3> QED
      BY <2>6, <3>1, <3>3 DEF FileInv, FilesCounted
  <2>8. FileOwned' /\ FileOpened'
    BY <2>1, <2>4 DEF FileInv, FileOwned, FileOpened
  <2> QED
    BY <2>7, <2>8 DEF FileInv
<1>10. ASSUME NEW c \in Clients, Peer(c)
       PROVE  FileInv'
  BY <1>1, <1>4, <1>10 DEF Peer
<1>11. ASSUME NEW c \in Clients, NEW r \in Requests, WriteCallback(c, r) \/ FsCallback(c, r)
       PROVE  FileInv'
  BY <1>5, <1>6, <1>8, <1>9, <1>11, WebServerAssumption DEF WriteCallback, FsCallback
<1> QED
  BY <1>1, <1>2, <1>3, <1>7, <1>10, <1>11 DEF Next

\* The second uv_run returns when no chain waits for anything, and nothing starts
\* afterwards.
AtRest == phase = "exited" => \A r \in Requests : stage[r] \in {"none", "done"}

LEMMA AtRestInvariant == Spec => []AtRest
<1>1. TypeOK /\ UrlInv /\ AtRest /\ [Next]_vars => AtRest'
  <2> SUFFICES ASSUME TypeOK, UrlInv, AtRest, Next, phase' = "exited"
               PROVE  \A r \in Requests : stage'[r] \in {"none", "done"}
    BY DEF AtRest, vars, chain
  <2>1. CASE cleanup_resources
    BY <2>1 DEF cleanup_resources, Quiet, chain
  <2>2. CASE phase = "exited"
    <3>1. \A q \in Requests : stage[q] \in {"none", "done"}
      BY <2>2 DEF AtRest
    <3>2. ASSUME NEW c \in Clients,
                 \/ Peer(c) \/ flush(c) \/ on_close(c) \/ closed_silently(c)
                 \/ \E q \in Requests : WriteCallback(c, q) \/ FsCallback(c, q)
          PROVE  stage' = stage
      <4>1. ASSUME NEW q \in Requests
            PROVE  ~WriteCallback(c, q) /\ ~FsCallback(c, q)
        BY <3>1
        DEF WriteCallback, on_final_fix_response, open_send_file, FsCallback, Callback,
            check_path_async, check_default_files_async, send_file_context, final_sendfile
      <4>2. ~Peer(c)
        BY <2>2
        DEF Peer, on_connection, on_read, on_read_parse_error, on_read_close, Serving
      <4> QED
        BY <3>2, <4>1, <4>2 DEF flush, on_close, closed_silently, chain
    <3>3. ASSUME NEW q \in Requests, Worker(q) \/ undefined_behaviour(q)
          PROVE  stage' = stage
      BY <3>1, <3>3 DEF Worker, uv_fs_sendfile, on_close_sendfile, undefined_behaviour, chain
    <3> QED
      BY <2>2, <3>1, <3>2, <3>3
      DEF Next, cleanup_freeList, signal_handler, uv_walk, cleanup_resources, chain
  <2>3. CASE phase # "exited" /\ ~cleanup_resources
    <3>1. ASSUME NEW c \in Clients,
                 \/ Peer(c) \/ flush(c) \/ on_close(c) \/ closed_silently(c)
                 \/ \E q \in Requests : WriteCallback(c, q) \/ FsCallback(c, q)
          PROVE  phase' = phase
      BY <3>1
      DEF Peer, on_connection, on_read, on_read_parse_error, on_read_close, flush, on_close,
          closed_silently, WriteCallback, on_final_fix_response, open_send_file, FsCallback,
          check_path_async, check_default_files_async, send_file_context, final_sendfile
    <3>2. ASSUME NEW q \in Requests, Worker(q) \/ undefined_behaviour(q)
          PROVE  phase' = phase
      BY <3>2 DEF Worker, uv_fs_sendfile, on_close_sendfile, undefined_behaviour
    <3> QED
      BY <2>3, <3>1, <3>2 DEF Next, cleanup_freeList, signal_handler, uv_walk
  <2> QED
    BY <2>1, <2>2, <2>3
<1>2. Init => AtRest
  BY DEF Init, AtRest
<1> QED
  BY <1>1, <1>2, UrlInvariant, TypeCorrect, PTL DEF Spec

\* final_sendfile closes one file for each sendfile that ends, if not its own then
\* another one of its client, or the behaviour ends in a fault: when webserver()
\* returns no file is left open.
THEOREM FilesAreClosedAtExit == Spec => []FilesClosedAtExit
<1>1. TypeOK /\ (ActiveExact /\ HandleOutlived) /\ UrlInv' /\ FileInv /\ [Next]_vars => FileInv'
  <2> SUFFICES ASSUME Pool, UrlInv', FileInv, [Next]_vars
               PROVE  FileInv'
    BY DEF Pool
  <2>1. ReadOnce'
    BY DEF UrlInv
  <2>2. CASE UNCHANGED vars
    BY <2>1, <2>2, FilesKept DEF Pool, vars, fields, chain
  <2> QED
    BY <2>1, <2>2, FileStep
<1>2. TypeOK /\ FileInv /\ AtRest => FilesClosedAtExit
  <2> SUFFICES ASSUME TypeOK, FileInv, AtRest, phase = "exited",
                      NEW r \in Requests, <<"file", r>> \in heap
               PROVE  FALSE
    BY DEF FilesClosedAtExit
  <2>1. stage[r] = "done" /\ conn[r] \in Clients
    BY DEF AtRest, FileInv, FileOpened, ReadOnce, TypeOK
  <2>2. r \in FilesOf(conn[r])
    BY <2>1 DEF FilesOf, Own
  <2>3. SendfilesOf(conn[r]) = {}
    BY DEF AtRest, SendfilesOf, Own
  <2>4. Cardinality(FilesOf(conn[r])) = 0 /\ IsFiniteSet(FilesOf(conn[r]))
    <3>1. /\ IsFiniteSet(FilesOf(conn[r]))
          /\ Cardinality(FilesOf(conn[r])) <= Cardinality(SendfilesOf(conn[r]))
      BY <2>1 DEF FileInv, FilesCounted
    <3>2. Cardinality(SendfilesOf(conn[r])) = 0
      BY <2>3, FS_EmptySet
    <3>3. Cardinality(FilesOf(conn[r])) \in Nat
      BY <3>1, FS_CardinalityType
    <3> QED
      BY <3>1, <3>2, <3>3
  <2>5. FilesOf(conn[r]) = {}
    BY <2>4, FS_EmptySet, ZenonT(30)
  <2> QED
    BY <2>2, <2>5
<1> QED
  BY <1>1, <1>2, FileInit, UrlInvariant, AtRestInvariant, TypeCorrect, PoolSafe, PTL DEF Spec

-----------------------------------------------------------------------------
(* Who frees a closed client.                                              *)

\* IN_REF never outlives the sendfiles of its client.
RefHeld == \A c \in Clients : mem[c] = "live" /\ "IN_REF" \in flags[c] => SendfilesOf(c) # {}

\* While the server serves, only on_close ends a close, and it clears IN_USE.
ClosedUnused ==
  \A c \in Clients :
    /\ handle[c] = "closing_null" => phase \notin Serving
    /\ handle[c] = "closed" /\ mem[c] = "live" /\ phase \in Serving => "IN_USE" \notin flags[c]

ClaimInv == ReadOnce /\ RefHeld /\ ClosedUnused

\* A step that changes no flags, admits nobody and finishes no close.
LEMMA ClaimKept ==
  ASSUME TypeOK, ClaimInv, ReadOnce', flags' = flags,
         \A c \in Clients : mem'[c] = "live" => mem[c] = "live",
         \A c \in Clients : handle'[c] \in {handle[c], "open", "closing"},
         phase' \in Serving => phase \in Serving,
         \A r \in Requests : stage[r] \in {"sendfile", "sent"} =>
           stage'[r] \in {"sendfile", "sent"} /\ conn'[r] = conn[r]
  PROVE  ClaimInv'
<1>1. \A c \in Clients : SendfilesOf(c) # {} => SendfilesOf(c)' # {}
  BY DEF SendfilesOf, Own
<1>2. RefHeld'
  BY <1>1 DEF ClaimInv, RefHeld
<1>3. ClosedUnused'
  BY DEF ClaimInv, ClosedUnused
<1> QED
  BY <1>2, <1>3 DEF ClaimInv

LEMMA ClaimStep ==
  ASSUME TypeOK, ClaimInv, ReadOnce', Next
  PROVE  ClaimInv'
<1>1. ASSUME NEW c \in Clients, on_connection(c)
      PROVE  ClaimInv'
  <2>1. /\ mem' = [mem EXCEPT ![c] = "live"]
        /\ flags' = [flags EXCEPT ![c] = {"IN_USE"}]
        /\ UNCHANGED <<phase, conn, stage>>
    BY <1>1 DEF on_connection, chain
  <2>2. PICK h \in {"open", "closing"} : handle' = [handle EXCEPT ![c] = h]
    BY <1>1 DEF on_connection, uv_close
  <2>3. RefHeld'
    BY <2>1 DEF ClaimInv, RefHeld, SendfilesOf, Own, TypeOK
  <2>4. ClosedUnused'
    BY <2>1, <2>2 DEF ClaimInv, ClosedUnused, TypeOK
  <2> QED
    BY <2>3, <2>4 DEF ClaimInv
<1>2. ASSUME NEW c \in Clients, on_close(c) \/ closed_silently(c)
      PROVE  ClaimInv'
  <2>1. /\ handle' = [handle EXCEPT ![c] = "closed"]
        /\ UNCHANGED <<phase, conn, stage>>
    BY <1>2 DEF on_close, closed_silently, chain
  <2>2. \/ flags' = [flags EXCEPT ![c] = flags[c] \ {"IN_USE"}]
        \/ handle[c] = "closing_null" /\ flags' = flags
    BY <1>2 DEF on_close, closed_silently, pool
  <2>3. \A d \in Clients : mem'[d] = "live" => mem[d] = "live"
    BY <1>2 DEF on_close, closed_silently, release, pool
  <2>4. \A d \in Clients : flags'[d] \subseteq flags[d]
    BY <2>2 DEF TypeOK
  <2>5. RefHeld'
    BY <2>1, <2>3, <2>4 DEF ClaimInv, RefHeld, SendfilesOf, Own
  <2>6. handle[c] = "closing_null" => phase \notin Serving
    BY DEF ClaimInv, ClosedUnused
  <2>7. phase \in Serving => "IN_USE" \notin flags'[c]
    BY <2>2, <2>6 DEF TypeOK
  <2>8. ClosedUnused'
    BY <2>1, <2>3, <2>4, <2>7 DEF ClaimInv, ClosedUnused, TypeOK
  <2> QED
    BY <2>5, <2>8 DEF ClaimInv
<1>3. CASE cleanup_freeList \/ cleanup_resources
  <2>1. /\ UNCHANGED <<flags, handle, conn, stage>>
        /\ phase' = phase \/ phase' = "exited"
    BY <1>3 DEF cleanup_freeList, cleanup_resources, net, chain
  <2>2. \A d \in Clients : mem'[d] = "live" => mem[d] = "live"
    BY <1>3 DEF cleanup_freeList, cleanup_resources, release
  <2> QED
    BY <2>1, <2>2, ClaimKept DEF Serving
<1>4. CASE signal_handler \/ \E r \in Requests : undefined_behaviour(r)
  <2>1. UNCHANGED <<mem, flags, handle, conn, stage>> /\ (phase' = phase \/ phase = "running")
    BY <1>4 DEF signal_handler, undefined_behaviour, pool, net, chain
  <2> QED
    BY <2>1, ClaimKept DEF Serving
<1>5. CASE uv_walk
  <2>1. UNCHANGED <<mem, flags, conn, stage>> /\ phase' = "draining"
    BY <1>5 DEF uv_walk, pool, chain
  <2> QED
    BY <2>1 DEF ClaimInv, RefHeld, ClosedUnused, SendfilesOf, Own, Serving
<1>6. ASSUME NEW c \in Clients, flush(c) \/ on_read_close(c)
      PROVE  ClaimInv'
  <2>1. UNCHANGED <<phase, mem, flags, conn, stage>>
    BY <1>6 DEF flush, on_read_close, pool, chain
  <2>2. \A d \in Clients : handle'[d] \in {handle[d], "closing"}
    BY <1>6 DEF flush, on_read_close, uv_close, net, TypeOK
  <2> QED
    BY <2>1, <2>2, ClaimKept
<1>7. ASSUME NEW c \in Clients, NEW r \in Requests, NEW k \in Chunks,
             on_read(c, r, k) \/ on_read_parse_error(c, r, k)
      PROVE  ClaimInv'
  <2>1. /\ stage[r] = "none" /\ conn' = [conn EXCEPT ![r] = c]
        /\ \E s \in {"stat", "fixed", "done"} : stage' = [stage EXCEPT ![r] = s]
        /\ UNCHANGED <<mem, flags>>
    BY <1>7, ReadEffect
  <2>2. phase' = phase
    BY <1>7 DEF on_read, on_read_parse_error
  <2>3. \A d \in Clients : handle'[d] \in {handle[d], "closing"}
    BY <1>7 DEF on_read, on_read_parse_error, uv_close, TypeOK
  <2>4. \A q \in Requests : stage[q] \in {"sendfile", "sent"} => q # r
    BY <2>1
  <2>5. \A q \in Requests \ {r} : stage'[q] = stage[q] /\ conn'[q] = conn[q]
    BY <2>1 DEF TypeOK
  <2> QED
    BY <2>1, <2>2, <2>3, <2>4, <2>5, ClaimKept
<1>8. ASSUME NEW c \in Clients, NEW r \in Requests, WriteCallback(c, r)
      PROVE  ClaimInv'
  <2>1. /\ stage[r] \in {"fixed", "header"}
        /\ \E s \in {"open", "done"} : stage' = [stage EXCEPT ![r] = s]
        /\ UNCHANGED <<phase, mem, flags, handle, conn>>
    BY <1>8 DEF WriteCallback, on_final_fix_response, open_send_file, pool, net
  <2> QED
    BY <2>1, ClaimKept DEF TypeOK
<1>9. ASSUME NEW c \in Clients, NEW r \in Requests, NEW found,
             \/ check_path_async(c, r, found) /\ found \in {"missing", "dir", "file"}
             \/ check_default_files_async(c, r, found)
      PROVE  ClaimInv'
  <2>1. /\ stage[r] \in {"stat", "default"}
        /\ \E s \in {"default", "fixed", "header", "done"} : stage' = [stage EXCEPT ![r] = s]
        /\ UNCHANGED <<phase, mem, flags, handle, conn>>
    BY <1>9, LookupEffect
  <2> QED
    BY <2>1, ClaimKept DEF TypeOK
<1>10. ASSUME NEW c \in Clients, NEW r \in Requests, NEW opened \in BOOLEAN,
              send_file_context(c, r, opened)
       PROVE  ClaimInv'
  <2>1. /\ stage[r] = "open" /\ conn[r] = c
        /\ UNCHANGED <<phase, mem, handle, conn>>
    BY <1>10 DEF send_file_context, Callback, net
  <2>2. CASE ~opened
    <3>1. stage' = [stage EXCEPT ![r] = "done"] /\ flags' = flags
      BY <1>10, <2>2 DEF send_file_context
    <3> QED
      BY <2>1, <3>1, ClaimKept DEF TypeOK
  <2>3. CASE opened
    <3>1. /\ stage' = [stage EXCEPT ![r] = "sendfile"]
          /\ flags' = [flags EXCEPT ![c] = flags[c] \cup {"IN_REF"}]
      BY <1>10, <2>3 DEF send_file_context, CLIENT_SET_IN_REF
    <3>2. r \in SendfilesOf(c)' /\ \A d \in Clients : SendfilesOf(d) \subseteq SendfilesOf(d)'
      BY <2>1, <3>1 DEF SendfilesOf, Own, TypeOK
    <3>3. \A d \in Clients \ {c} : flags'[d] = flags[d]
      BY <3>1 DEF TypeOK
    <3>4. "IN_USE" \in flags'[c] => "IN_USE" \in flags[c]
      BY <3>1 DEF TypeOK
    <3>5. RefHeld'
      BY <2>1, <3>2, <3>3 DEF ClaimInv, RefHeld
    <3>6. ClosedUnused'
      BY <2>1, <3>3, <3>4 DEF ClaimInv, ClosedUnused
    <3> QED
      BY <3>5, <3>6 DEF ClaimInv
  <2> QED
    BY <2>2, <2>3
<1>11. ASSUME NEW c \in Clients, NEW r \in Requests, final_sendfile(c, r)
       PROVE  ClaimInv'
  <2>1. /\ stage[r] = "sent" /\ conn[r] = c
        /\ UNCHANGED <<phase, mem, handle, conn>>
        /\ stage' = [stage EXCEPT ![r] = "close"]
        /\ flags' = [flags EXCEPT ![c] = flags[c] \ {"IN_REF"}]
    BY <1>11 DEF final_sendfile, Callback, CLIENT_CLEAR_IN_REF, net
  <2>2. "IN_REF" \notin flags'[c] /\ \A d \in Clients : flags'[d] \subseteq flags[d]
    BY <2>1 DEF TypeOK
  <2>3. \A d \in Clients \ {c} : SendfilesOf(d)' = SendfilesOf(d)
    BY <2>1 DEF SendfilesOf, Own, TypeOK
  <2>4. RefHeld'
    BY <2>1, <2>2, <2>3 DEF ClaimInv, RefHeld
  <2>5. ClosedUnused'
    BY <2>1, <2>2 DEF ClaimInv, ClosedUnused
  <2> QED
    BY <2>4, <2>5 DEF ClaimInv
<1>12. ASSUME NEW r \in Requests, Worker(r)
       PROVE  ClaimInv'
  <2>1. /\ UNCHANGED <<phase, mem, flags, handle, conn>>
        /\ \/ stage[r] = "sendfile" /\ stage' = [stage EXCEPT ![r] = "sent"]
           \/ stage[r] = "close" /\ stage' = [stage EXCEPT ![r] = "done"]
    BY <1>12 DEF Worker, uv_fs_sendfile, on_close_sendfile, pool, net
  <2> QED
    BY <2>1, ClaimKept DEF TypeOK
<1>13. ASSUME NEW c \in Clients, Peer(c)
       PROVE  ClaimInv'
  BY <1>1, <1>6, <1>7, <1>13 DEF Peer
<1>14. ASSUME NEW c \in Clients, NEW r \in Requests, FsCallback(c, r)
       PROVE  ClaimInv'
  BY <1>9, <1>10, <1>11, <1>14, WebServerAssumption DEF FsCallback
<1> QED
  BY <1>2, <1>3, <1>4, <1>5, <1>6, <1>8, <1>12, <1>13, <1>14 DEF Next

\* Whatever the peers do, a closed client is never left to nobody: on_close has freed
\* it, the timer will, or final_sendfile still has to run and will let the timer.
THEOREM ClosedHaveAnOwner == Spec => []NeverAbandoned
<1>1. Init => ClaimInv
  BY DEF Init, ClaimInv, ReadOnce, RefHeld, ClosedUnused
<1>2. TypeOK /\ UrlInv' /\ ClaimInv /\ [Next]_vars => ClaimInv'
  <2> SUFFICES ASSUME TypeOK, UrlInv', ClaimInv, [Next]_vars
               PROVE  ClaimInv'
    OBVIOUS
  <2>1. ReadOnce'
    BY DEF UrlInv
  <2>2. CASE UNCHANGED vars
    BY <2>1, <2>2, ClaimKept DEF vars, pool, net, chain
  <2> QED
    BY <2>1, <2>2, ClaimStep
<1>3. ClaimInv => NeverAbandoned
  BY DEF ClaimInv, RefHeld, ClosedUnused, NeverAbandoned, SendfilesOf
<1> QED
  BY <1>1, <1>2, <1>3, UrlInvariant, TypeCorrect, PTL DEF Spec

-----------------------------------------------------------------------------
(* Who frees the client of a sendfile.                                     *)

Marked(c) == mem[c] = "live" /\ "IN_REF" \in flags[c]

\* Another sendfile of r's connection has ended: its final_sendfile cleared IN_REF.
AnotherEnded(r) ==
  \E q \in Own(conn[r]) \ {r} : stage[q] \in {"close", "done"} /\ io[q].len # NULL

\* size_content is set before uv_fs_open, and gives every sendfile its length.
SizeKnown ==
  \A r \in Requests : stage[r] \in {"header", "open"} => response[conn[r]].size # NULL

LengthSet ==
  \A r \in Requests : stage[r] \in {"sendfile", "sent", "close"} => io[r].len # NULL

Pinned ==
  \A r \in Requests :
    stage[r] \in {"sendfile", "sent"} => Marked(conn[r]) \/ AnotherEnded(r)

PinInv == ReadOnce /\ SizeKnown /\ LengthSet /\ Pinned

\* A step that frees no client with IN_REF set, and neither starts a sendfile nor
\* ends one.
LEMMA PinKept ==
  ASSUME TypeOK, PinInv, ReadOnce',
         \A c \in Clients : Marked(c) => Marked(c)',
         \A c \in Clients : response[c].size # NULL => response'[c].size # NULL,
         \A r \in Requests : /\ io'[r].len = io[r].len
                             /\ stage[r] # "none" => conn'[r] = conn[r],
         \A r \in Requests :
           \/ stage'[r] = stage[r]
           \/ stage[r] \notin {"close", "done"} /\ stage'[r] \in {"stat", "default", "fixed", "done"}
           \/ stage'[r] = "header" /\ stage[r] = "default" /\ response'[conn[r]].size # NULL
           \/ stage'[r] = "header" /\ stage[r] = "stat" /\ response'[conn[r]].size # NULL
           \/ stage[r] = "header" /\ stage'[r] = "open"
           \/ stage[r] = "sendfile" /\ stage'[r] = "sent"
           \/ stage[r] = "close" /\ stage'[r] = "done"
  PROVE  PinInv'
<1>1. \A r \in Requests : stage[r] # "none" => conn[r] \in Clients
  BY DEF TypeOK, PinInv, ReadOnce
<1>2. SizeKnown'
  BY <1>1 DEF PinInv, SizeKnown
<1>3. LengthSet'
  BY DEF PinInv, LengthSet
<1>4. Pinned'
  <2> SUFFICES ASSUME NEW r \in Requests, stage'[r] \in {"sendfile", "sent"}
               PROVE  Marked(conn[r])' \/ AnotherEnded(r)'
    BY DEF Pinned
  <2>1. stage[r] \in {"sendfile", "sent"} /\ conn'[r] = conn[r] /\ conn[r] \in Clients
    BY <1>1
  <2>2. CASE Marked(conn[r])
    <3>1. Marked(conn[r])'
      BY <2>1, <2>2 DEF Marked
    <3> QED
      BY <3>1
  <2>3. CASE AnotherEnded(r)
    <3>1. PICK q \in Own(conn[r]) \ {r} : stage[q] \in {"close", "done"} /\ io[q].len # NULL
      BY <2>3 DEF AnotherEnded
    <3>2. q \in Requests /\ conn'[q] = conn[r]
      BY <3>1 DEF Own
    <3>3. stage'[q] \in {"close", "done"} /\ io'[q].len # NULL
      BY <3>1, <3>2
    <3> QED
      BY <2>1, <3>1, <3>2, <3>3 DEF AnotherEnded, Own
  <2> QED
    BY <2>1, <2>2, <2>3 DEF PinInv, Pinned
<1> QED
  BY <1>2, <1>3, <1>4 DEF PinInv

\* Pages and headers set size_content and leave every length alone.
LEMMA SizeEffect ==
  ASSUME TypeOK, NEW c \in Clients, NEW r \in Requests, NEW code, NEW h,
         make_fixed_response(c, r, code, h) \/ found_and_sendfs_req(c, r)
  PROVE  /\ \A q \in Requests : io'[q].len = io[q].len
         /\ response'[c].size # NULL
         /\ \A d \in Clients \ {c} : response'[d] = response[d]
<1>1. io \in [Requests -> IoType] /\ response \in [Clients -> ResponseType]
  BY DEF TypeOK
<1>2. r # NULL
  BY WebServerAssumption
<1>3. \E n : io' = [io EXCEPT ![r].code = n]
  BY DEF make_fixed_response, found_and_sendfs_req
<1>4. \A q \in Requests : io'[q].len = io[q].len
  BY <1>1, <1>3 DEF IoType
<1>5. \/ response' = [response EXCEPT ![c] = fixed_response(response[c], r)]
      \/ response' = [response EXCEPT ![c] = found_response(response[c], r)]
  BY DEF make_fixed_response, found_and_sendfs_req
<1> QED
  BY <1>1, <1>2, <1>4, <1>5 DEF fixed_response, found_response, ResponseType

\* So do reads and lookups, and a header is written with a size.
LEMMA LengthsKept ==
  ASSUME TypeOK, NEW c \in Clients, NEW r \in Requests,
         \/ \E k \in Chunks : on_read(c, r, k) \/ on_read_parse_error(c, r, k)
         \/ \E found : check_path_async(c, r, found) /\ found \in {"missing", "dir", "file"}
         \/ \E found : check_default_files_async(c, r, found)
  PROVE  /\ \A q \in Requests : io'[q].len = io[q].len
         /\ \A d \in Clients : response[d].size # NULL => response'[d].size # NULL
         /\ stage'[r] = "header" => response'[c].size # NULL
<1> DEFINE Goal == /\ \A q \in Requests : io'[q].len = io[q].len
                   /\ \A d \in Clients : response[d].size # NULL => response'[d].size # NULL
                   /\ stage'[r] = "header" => response'[c].size # NULL
<1>1. stage \in [Requests -> Stages] /\ io \in [Requests -> IoType]
  BY DEF TypeOK
<1>2. ASSUME NEW code, NEW h, make_fixed_response(c, r, code, h) \/ found_and_sendfs_req(c, r)
      PROVE  Goal
  BY <1>2, SizeEffect
<1>3. ASSUME UNCHANGED <<response, io>>, stage'[r] # "header"
      PROVE  Goal
  BY <1>3
<1>4. ASSUME NEW k \in Chunks, on_read(c, r, k)
      PROVE  Goal
  <2> DEFINE url == ParsedRequest(c, r, k).url
             h   == ParsedHeap(c, r, k)
  <2>1. process_request(c, r, url, h)
    BY <1>4 DEF on_read
  <2> HIDE DEF url, h
  <2>2. CASE make_fixed_response(c, r, 500, h)
    BY <1>2, <2>2
  <2>3. CASE /\ stage' = [stage EXCEPT ![r] = "stat"]
             /\ io' = [io EXCEPT ![r].doc = url]
             /\ UNCHANGED response
    <3>1. stage'[r] = "stat"
      BY <1>1, <2>3
    <3>2. \A q \in Requests : io'[q].len = io[q].len
      BY <1>1, <2>3 DEF IoType
    <3> QED
      BY <2>3, <3>1, <3>2
  <2> QED
    BY <2>1, <2>2, <2>3 DEF process_request
<1>5. ASSUME NEW k \in Chunks, on_read_parse_error(c, r, k)
      PROVE  Goal
  <2>1. stage' = [stage EXCEPT ![r] = "done"] /\ UNCHANGED <<response, io>>
    BY <1>5 DEF on_read_parse_error
  <2> QED
    BY <1>1, <1>3, <2>1
<1>6. ASSUME NEW found \in {"missing", "dir", "file"}, check_path_async(c, r, found)
      PROVE  Goal
  <2>1. CASE found # "dir"
    BY <1>2, <1>6, <2>1 DEF check_path_async
  <2>2. CASE found = "dir"
    <3>1. /\ io' = [io EXCEPT ![r].probe = 0]
          /\ stage' = [stage EXCEPT ![r] = "default"]
          /\ UNCHANGED response
      BY <1>6, <2>2 DEF check_path_async
    <3>2. stage'[r] = "default"
      BY <1>1, <3>1
    <3>3. \A q \in Requests : io'[q].len = io[q].len
      BY <1>1, <3>1 DEF IoType
    <3> QED
      BY <3>1, <3>2, <3>3
  <2> QED
    BY <2>1, <2>2
<1>7. ASSUME NEW found, check_default_files_async(c, r, found)
      PROVE  Goal
  <2>1. stage[r] = "default"
    BY <1>7 DEF check_default_files_async, Callback
  <2>2. CASE found_and_sendfs_req(c, r)
    BY <1>2, <2>2
  <2>3. CASE \E code \in {404, 500} : make_fixed_response(c, r, code, heap)
    BY <1>2, <2>3
  <2>4. CASE /\ io' = [io EXCEPT ![r].doc = request[c].url, ![r].probe = request[c].tries + 1]
             /\ UNCHANGED <<stage, response>>
    <3>1. \A q \in Requests : io'[q].len = io[q].len
      BY <1>1, <2>4 DEF IoType
    <3> QED
      BY <2>1, <2>4, <3>1
  <2> QED
    BY <1>7, <2>2, <2>3, <2>4 DEF check_default_files_async
<1> QED
  BY <1>4, <1>5, <1>6, <1>7

LEMMA PinStep ==
  ASSUME TypeOK, PinInv, ReadOnce', Next
  PROVE  PinInv'
<1> USE DEF Marked
<1>0. io \in [Requests -> IoType] /\ response \in [Clients -> ResponseType]
  BY DEF TypeOK
<1>1. ASSUME NEW c \in Clients, on_connection(c)
      PROVE  PinInv'
  <2>1. /\ mem[c] = "absent"
        /\ mem' = [mem EXCEPT ![c] = "live"]
        /\ flags' = [flags EXCEPT ![c] = {"IN_USE"}]
        /\ UNCHANGED <<response, conn, stage, io>>
    BY <1>1 DEF on_connection, chain, fields
  <2>2. \A d \in Clients : Marked(d) => Marked(d)'
    BY <2>1 DEF TypeOK
  <2> QED
    BY <2>1, <2>2, PinKept
<1>2. ASSUME NEW c \in Clients, on_close(c)
      PROVE  PinInv'
  <2> DEFINE rest == flags[c] \ {"IN_USE"}
  <2>1. /\ flags' = [flags EXCEPT ![c] = rest]
        /\ UNCHANGED <<response, conn, stage, io>>
    BY <1>2 DEF on_close, chain, fields
  <2>2. \/ mem' = mem
        \/ /\ CLIENT_IS_FLAGS_FREE(rest)
           /\ mem' = [d \in Clients |-> IF d \in {c} THEN "freed" ELSE mem[d]]
    BY <1>2 DEF on_close, release
  <2>3. \A d \in Clients : Marked(d) => Marked(d)'
    BY <2>1, <2>2 DEF TypeOK, CLIENT_IS_FLAGS_FREE, Flags
  <2> QED
    BY <2>1, <2>3, PinKept
<1>3. CASE cleanup_freeList
  <2> DEFINE free == {c \in active : CLIENT_IS_FLAGS_FREE(flags[c])}
  <2>1. /\ mem' = [d \in Clients |-> IF d \in free THEN "freed" ELSE mem[d]]
        /\ UNCHANGED <<flags, response, conn, stage, io>>
    BY <1>3 DEF cleanup_freeList, release, chain, fields
  <2>2. \A d \in Clients : Marked(d) => Marked(d)'
    BY <2>1 DEF CLIENT_IS_FLAGS_FREE, Flags
  <2> QED
    BY <2>1, <2>2, PinKept
<1>4. CASE cleanup_resources
  <2>1. /\ \A r \in Requests : stage[r] \in {"none", "done"}
        /\ stage' = stage
    BY <1>4 DEF cleanup_resources, Quiet, chain
  <2> QED
    BY <2>1 DEF PinInv, SizeKnown, LengthSet, Pinned
<1>5. CASE \/ signal_handler \/ uv_walk
           \/ \E r \in Requests : undefined_behaviour(r)
           \/ \E c \in Clients : closed_silently(c) \/ flush(c) \/ on_read_close(c)
  <2>1. UNCHANGED <<mem, flags, response, conn, stage, io>>
    BY <1>5
    DEF signal_handler, uv_walk, undefined_behaviour, closed_silently, flush, on_read_close,
        pool, fields, chain
  <2> QED
    BY <2>1, PinKept
<1>6. ASSUME NEW c \in Clients, NEW r \in Requests, NEW k \in Chunks,
             on_read(c, r, k) \/ on_read_parse_error(c, r, k)
      PROVE  PinInv'
  <2>1. /\ stage[r] = "none" /\ conn' = [conn EXCEPT ![r] = c]
        /\ \E s \in {"stat", "fixed", "done"} : stage' = [stage EXCEPT ![r] = s]
        /\ UNCHANGED <<mem, flags>>
    BY <1>6, ReadEffect
  <2>2. /\ \A q \in Requests : io'[q].len = io[q].len
        /\ \A d \in Clients : response[d].size # NULL => response'[d].size # NULL
    BY <1>6, LengthsKept
  <2>3. \A q \in Requests \ {r} : stage'[q] = stage[q] /\ conn'[q] = conn[q]
    BY <2>1 DEF TypeOK
  <2>4. stage'[r] \in {"stat", "fixed", "done"}
    BY <2>1 DEF TypeOK
  <2> QED
    BY <2>1, <2>2, <2>3, <2>4, PinKept
<1>7. ASSUME NEW c \in Clients, NEW r \in Requests, NEW found,
             \/ check_path_async(c, r, found) /\ found \in {"missing", "dir", "file"}
             \/ check_default_files_async(c, r, found)
      PROVE  PinInv'
  <2>1. /\ stage[r] \in {"stat", "default"} /\ c = conn[r]
        /\ \E s \in {"default", "fixed", "header", "done"} : stage' = [stage EXCEPT ![r] = s]
        /\ UNCHANGED <<mem, flags, conn>>
    BY <1>7, LookupEffect
  <2>2. /\ \A q \in Requests : io'[q].len = io[q].len
        /\ \A d \in Clients : response[d].size # NULL => response'[d].size # NULL
        /\ stage'[r] = "header" => response'[c].size # NULL
    BY <1>7, LengthsKept
  <2>3. /\ \A q \in Requests \ {r} : stage'[q] = stage[q]
        /\ stage'[r] \in {"default", "fixed", "header", "done"}
    BY <2>1 DEF TypeOK
  <2> QED
    BY <2>1, <2>2, <2>3, PinKept
<1>8. ASSUME NEW c \in Clients, NEW r \in Requests, WriteCallback(c, r)
      PROVE  PinInv'
  <2>1. /\ UNCHANGED <<mem, flags, conn>>
        /\ \/ /\ stage[r] = "fixed" /\ stage' = [stage EXCEPT ![r] = "done"]
              /\ io' = io
              /\ response' \in {response, [response EXCEPT ![c].buf = NULL]}
           \/ /\ stage[r] = "header" /\ response' = response
              /\ \/ stage' = [stage EXCEPT ![r] = "done"] /\ io' = io
                 \/ /\ stage' = [stage EXCEPT ![r] = "open"]
                    /\ \E doc : io' = [io EXCEPT ![r].doc = doc]
    BY <1>8 DEF WriteCallback, on_final_fix_response, open_send_file, pool, fields
  <2>2. \A q \in Requests : io'[q].len = io[q].len
    <3>1. io' = io \/ \E doc : io' = [io EXCEPT ![r].doc = doc]
      BY <2>1
    <3> QED
      BY <1>0, <3>1 DEF IoType
  <2>3. \A d \in Clients : response'[d].size = response[d].size
    <3>1. response' \in {response, [response EXCEPT ![c].buf = NULL]}
      BY <2>1
    <3> QED
      BY <1>0, <3>1 DEF ResponseType
  <2>4. \A q \in Requests : \/ stage'[q] = stage[q]
                            \/ stage[q] = "fixed" /\ stage'[q] = "done"
                            \/ stage[q] = "header" /\ stage'[q] \in {"open", "done"}
    BY <2>1 DEF TypeOK
  <2> QED
    BY <2>1, <2>2, <2>3, <2>4, PinKept
<1>9. ASSUME NEW c \in Clients, NEW r \in Requests, NEW opened \in BOOLEAN,
             send_file_context(c, r, opened)
      PROVE  PinInv'
  <2>1. stage[r] = "open" /\ conn[r] = c /\ mem[c] = "live" /\ UNCHANGED <<mem, conn>>
    BY <1>9 DEF send_file_context, Callback
  <2>2. \A d \in Clients : response'[d].size = response[d].size
    <3>1. \/ response' = [response EXCEPT ![c].file = r, ![c].path = NULL]
          \/ response' = [response EXCEPT ![c].path = NULL]
      BY <1>9 DEF send_file_context
    <3>2. CASE response' = [response EXCEPT ![c].file = r, ![c].path = NULL]
      BY <1>0, <3>2 DEF ResponseType
    <3>3. CASE response' = [response EXCEPT ![c].path = NULL]
      BY <1>0, <3>3 DEF ResponseType
    <3> QED
      BY <3>1, <3>2, <3>3
  <2>3. CASE ~opened
    <3>1. stage' = [stage EXCEPT ![r] = "done"] /\ UNCHANGED <<io, flags>>
      BY <1>9, <2>3 DEF send_file_context
    <3>2. \A q \in Requests : stage'[q] = stage[q] \/ (stage[q] = "open" /\ stage'[q] = "done")
      BY <2>1, <3>1 DEF TypeOK
    <3> QED
      BY <2>1, <2>2, <3>1, <3>2, PinKept
  <2>4. CASE opened
    <3>1. /\ stage' = [stage EXCEPT ![r] = "sendfile"]
          /\ flags' = [flags EXCEPT ![c] = flags[c] \cup {"IN_REF"}]
          /\ \E fd : io' = [io EXCEPT ![r].fd = fd, ![r].len = response[c].size]
      BY <1>9, <2>4 DEF send_file_context, CLIENT_SET_IN_REF
    <3>2. io'[r].len # NULL /\ \A q \in Requests \ {r} : io'[q].len = io[q].len
      BY <2>1, <3>1 DEF PinInv, SizeKnown, TypeOK, IoType
    <3>3. stage'[r] = "sendfile" /\ \A q \in Requests \ {r} : stage'[q] = stage[q]
      BY <3>1 DEF TypeOK
    <3>4. Marked(c)' /\ \A d \in Clients : Marked(d) => Marked(d)'
      BY <2>1, <3>1 DEF TypeOK
    <3>5. \A q \in Requests : stage[q] # "none" => conn[q] \in Clients
      BY DEF TypeOK, PinInv, ReadOnce
    <3>6. SizeKnown'
      BY <2>1, <2>2, <3>3, <3>5 DEF PinInv, SizeKnown
    <3>7. LengthSet'
      BY <3>2, <3>3 DEF PinInv, LengthSet
    <3>8. Pinned'
      <4> SUFFICES ASSUME NEW q \in Requests \ {r}, stage[q] \in {"sendfile", "sent"}
                   PROVE  Marked(conn[q])' \/ AnotherEnded(q)'
        BY <2>1, <3>3, <3>4 DEF Pinned
      <4>1. Marked(conn[q]) => Marked(conn[q])'
        BY <2>1, <3>4, <3>5
      <4>2. AnotherEnded(q) => AnotherEnded(q)'
        <5> SUFFICES ASSUME NEW p \in Own(conn[q]) \ {q},
                            stage[p] \in {"close", "done"}, io[p].len # NULL
                     PROVE  AnotherEnded(q)'
          BY DEF AnotherEnded
        <5>1. p \in Requests \ {r}
          BY <2>1 DEF Own
        <5> QED
          BY <2>1, <3>2, <3>3, <5>1 DEF AnotherEnded, Own
      <4> QED
        BY <4>1, <4>2 DEF PinInv, Pinned
    <3> QED
      BY <3>6, <3>7, <3>8 DEF PinInv
  <2> QED
    BY <2>3, <2>4
<1>10. ASSUME NEW c \in Clients, NEW r \in Requests, final_sendfile(c, r)
       PROVE  PinInv'
  <2>1. /\ stage[r] = "sent" /\ conn[r] = c
        /\ UNCHANGED <<mem, response, conn, io>>
        /\ stage' = [stage EXCEPT ![r] = "close"]
        /\ flags' = [flags EXCEPT ![c] = flags[c] \ {"IN_REF"}]
    BY <1>10 DEF final_sendfile, Callback, CLIENT_CLEAR_IN_REF, fields
  <2>2. stage'[r] = "close" /\ \A q \in Requests \ {r} : stage'[q] = stage[q]
    BY <2>1 DEF TypeOK
  <2>3. io[r].len # NULL
    BY <2>1 DEF PinInv, LengthSet
  <2>4. SizeKnown' /\ LengthSet'
    BY <2>1, <2>2, <2>3 DEF PinInv, SizeKnown, LengthSet
  <2>5. Pinned'
    <3> SUFFICES ASSUME NEW q \in Requests \ {r}, stage[q] \in {"sendfile", "sent"}
                 PROVE  Marked(conn[q])' \/ AnotherEnded(q)'
      BY <2>2 DEF Pinned
    <3>1. CASE conn[q] = c
      BY <2>1, <2>2, <2>3, <3>1 DEF AnotherEnded, Own
    <3>2. CASE conn[q] # c
      <4>1. conn[q] \in Clients
        BY DEF TypeOK, PinInv, ReadOnce
      <4>2. Marked(conn[q]) => Marked(conn[q])'
        BY <2>1, <3>2, <4>1 DEF TypeOK
      <4>3. AnotherEnded(q) => AnotherEnded(q)'
        BY <2>1, <2>2 DEF AnotherEnded, Own
      <4> QED
        BY <4>2, <4>3 DEF PinInv, Pinned
    <3> QED
      BY <3>1, <3>2
  <2> QED
    BY <2>4, <2>5 DEF PinInv
<1>11. ASSUME NEW r \in Requests, Worker(r)
       PROVE  PinInv'
  <2>1. /\ UNCHANGED <<mem, flags, response, conn, io>>
        /\ \/ stage[r] = "sendfile" /\ stage' = [stage EXCEPT ![r] = "sent"]
           \/ stage[r] = "close" /\ stage' = [stage EXCEPT ![r] = "done"]
    BY <1>11 DEF Worker, uv_fs_sendfile, on_close_sendfile, pool, fields
  <2>2. \A q \in Requests : \/ stage'[q] = stage[q]
                            \/ stage[q] = "sendfile" /\ stage'[q] = "sent"
                            \/ stage[q] = "close" /\ stage'[q] = "done"
    BY <2>1 DEF TypeOK
  <2> QED
    BY <2>1, <2>2, PinKept
<1>12. ASSUME NEW c \in Clients, Peer(c)
       PROVE  PinInv'
  BY <1>1, <1>5, <1>6, <1>12 DEF Peer
<1>13. ASSUME NEW c \in Clients, NEW r \in Requests, FsCallback(c, r)
       PROVE  PinInv'
  BY <1>7, <1>9, <1>10, <1>13, WebServerAssumption DEF FsCallback
<1> QED
  BY <1>2, <1>3, <1>4, <1>5, <1>8, <1>11, <1>12, <1>13 DEF Next

\* Whatever the peers do, a client is never freed under its own sendfile unless the
\* sendfile of another request of that connection has ended and cleared IN_REF.
THEOREM UnpinnedOnlyByAnother == Spec => []UnpinnedByAnother
<1>1. Init => PinInv
  BY DEF Init, PinInv, ReadOnce, SizeKnown, LengthSet, Pinned
<1>2. TypeOK /\ UrlInv' /\ PinInv /\ [Next]_vars => PinInv'
  <2> SUFFICES ASSUME TypeOK, UrlInv', PinInv, [Next]_vars
               PROVE  PinInv'
    OBVIOUS
  <2>1. ReadOnce'
    BY DEF UrlInv
  <2>2. CASE UNCHANGED vars
    BY <2>1, <2>2, PinKept DEF Marked, vars, pool, fields, chain
  <2> QED
    BY <2>1, <2>2, PinStep
<1>3. PinInv => UnpinnedByAnother
  BY DEF PinInv, Pinned, Marked, AnotherEnded, UnpinnedByAnother
<1> QED
  BY <1>1, <1>2, <1>3, UrlInvariant, TypeCorrect, PTL DEF Spec
=============================================================================
