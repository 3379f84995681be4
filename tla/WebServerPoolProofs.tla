-------------------------- MODULE WebServerPoolProofs --------------------------
(***************************************************************************)
(* Type correctness of WebServer for every set of clients, requests and    *)
(* descriptors, every def_cnt, and whatever the peers and the file system  *)
(* do; and the life of a client_t: the list of active clients is exact, a  *)
(* client outlives its handle and its writes, and all in all the server    *)
(* implements ClientPool.                                                  *)
(***************************************************************************)
EXTENDS WebServerProperties, TLAPS

LEMMA InitTypeOK == Init => TypeOK
BY WebServerAssumption
DEF Init, TypeOK, Phases, Handles, Flags, Stages, RequestP, RequestType, ResponseType,
    IoType, Objects, request_t, response_t, no_io, Faults, Kinds

LEMMA WriteType ==
  ASSUME TypeOK, NEW c \in Clients, NEW r \in Requests, NEW next \in Stages,
         uv_write(c, r, next)
  PROVE  writeq' \in [Clients -> Seq(Requests)] /\ stage' \in [Requests -> Stages]
<1>1. writeq \in [Clients -> Seq(Requests)] /\ stage \in [Requests -> Stages]
  BY DEF TypeOK
<1>2. Append(writeq[c], r) \in Seq(Requests)
  BY <1>1
<1>3. "done" \in Stages
  BY DEF Stages
<1> QED
  BY <1>1, <1>2, <1>3 DEF uv_write

LEMMA FoundResponseType ==
  ASSUME NEW p \in ResponseType, NEW x \in RequestP
  PROVE  found_response(p, x) \in ResponseType
BY DEF ResponseType, found_response

LEMMA FixedResponseType ==
  ASSUME NEW p \in ResponseType, NEW x \in RequestP
  PROVE  fixed_response(p, x) \in ResponseType
BY DEF ResponseType, fixed_response

LEMMA FixedType ==
  ASSUME TypeOK, NEW c \in Clients, NEW r \in Requests, NEW code \in {404, 500}, NEW h,
         h \subseteq Objects, make_fixed_response(c, r, code, h)
  PROVE  /\ response' \in [Clients -> ResponseType]
         /\ heap' \subseteq Objects
         /\ io' \in [Requests -> IoType]
         /\ writeq' \in [Clients -> Seq(Requests)]
         /\ stage' \in [Requests -> Stages]
<1>1. "fixed" \in Stages
  BY DEF Stages
<1>2. uv_write(c, r, "fixed")
  BY DEF make_fixed_response
<1>3. writeq' \in [Clients -> Seq(Requests)] /\ stage' \in [Requests -> Stages]
  BY <1>1, <1>2, WriteType
<1>4. response' \in [Clients -> ResponseType]
  <2>1. response' = [response EXCEPT ![c] = fixed_response(response[c], r)]
    BY DEF make_fixed_response
  <2>2. response \in [Clients -> ResponseType] /\ r \in RequestP
    BY DEF TypeOK, RequestP
  <2>3. fixed_response(response[c], r) \in ResponseType
    BY <2>2, FixedResponseType
  <2> QED
    BY <2>1, <2>2, <2>3
<1>5. heap' \subseteq Objects
  BY DEF make_fixed_response, Objects, RequestP, Kinds
<1>6. io' \in [Requests -> IoType]
  <2>1. io' = [io EXCEPT ![r] = [io[r] EXCEPT !.code = code]]
    BY DEF make_fixed_response
  <2>2. io \in [Requests -> IoType]
    BY DEF TypeOK
  <2>3. [io[r] EXCEPT !.code = code] \in IoType
    BY <2>2 DEF IoType
  <2> QED
    BY <2>1, <2>2, <2>3
<1> QED
  BY <1>3, <1>4, <1>5, <1>6
LEMMA FoundType ==
  ASSUME TypeOK, NEW c \in Clients, NEW r \in Requests, found_and_sendfs_req(c, r)
  PROVE  /\ response' \in [Clients -> ResponseType]
         /\ heap' \subseteq Objects
         /\ io' \in [Requests -> IoType]
         /\ writeq' \in [Clients -> Seq(Requests)]
         /\ stage' \in [Requests -> Stages]
<1>1. "header" \in Stages
  BY DEF Stages
<1>2. uv_write(c, r, "header")
  BY DEF found_and_sendfs_req
<1>3. writeq' \in [Clients -> Seq(Requests)] /\ stage' \in [Requests -> Stages]
  BY <1>1, <1>2, WriteType
<1>4. response' \in [Clients -> ResponseType]
  <2>1. response' = [response EXCEPT ![c] = found_response(response[c], r)]
    BY DEF found_and_sendfs_req
  <2>2. response \in [Clients -> ResponseType] /\ r \in RequestP
    BY DEF TypeOK, RequestP
  <2>3. found_response(response[c], r) \in ResponseType
    BY <2>2, FoundResponseType
  <2> QED
    BY <2>1, <2>2, <2>3
<1>5. heap' \subseteq Objects
  BY DEF found_and_sendfs_req, TypeOK, Objects, RequestP, Kinds
<1>6. io' \in [Requests -> IoType]
  <2>1. io' = [io EXCEPT ![r] = [io[r] EXCEPT !.code = 200]]
    BY DEF found_and_sendfs_req
  <2>2. io \in [Requests -> IoType]
    BY DEF TypeOK
  <2>3. [io[r] EXCEPT !.code = 200] \in IoType
    BY <2>2 DEF IoType
  <2> QED
    BY <2>1, <2>2, <2>3
<1> QED
  BY <1>3, <1>4, <1>5, <1>6

LEMMA ParseType ==
  ASSUME TypeOK, NEW c \in Clients, NEW r \in Requests, NEW k \in Chunks,
         llhttp_execute(c, r, k)
  PROVE  /\ parser' \in [Clients -> [at : {"idle", "line", "url"}, ended : Nat]]
         /\ request' \in [Clients -> RequestType]
         /\ conn' \in [Requests -> Clients \cup {NULL}]
         /\ ParsedRequest(c, r, k).url \in RequestP
         /\ ParsedHeap(c, r, k) \subseteq Objects
<1>1. k.ends \in Nat /\ k.urls \in Nat
  BY WebServerAssumption DEF Chunk
<1>2. parser' \in [Clients -> [at : {"idle", "line", "url"}, ended : Nat]]
  <2>1. place_after(parser[c].at, k) \in {"idle", "line", "url"}
    BY DEF place_after
  <2>2. parser[c].ended + k.ends \in Nat
    BY <1>1 DEF TypeOK
  <2> QED
    BY <2>1, <2>2 DEF llhttp_execute, TypeOK
<1>3. ParsedRequest(c, r, k) \in RequestType
  BY ZenonT(30) DEF TypeOK, ParsedRequest, RequestType, RequestP, on_url
<1>4. request' \in [Clients -> RequestType]
  BY <1>3 DEF llhttp_execute, TypeOK
<1>5. conn' \in [Requests -> Clients \cup {NULL}]
  BY DEF llhttp_execute, TypeOK
<1>6. ParsedRequest(c, r, k).url \in RequestP
  BY <1>3 DEF RequestType
<1>7. ParsedHeap(c, r, k) \subseteq Objects
  BY DEF TypeOK, ParsedHeap, replaced_url, Objects, Kinds, RequestP
<1> QED
  BY <1>2, <1>4, <1>5, <1>6, <1>7
\* Every variable keeps its type, and the default file being probed is one of
\* web_config->defaults[0 .. def_cnt - 1], however requests overlap.
THEOREM TypeCorrect == Spec => []TypeOK
<1>1. ASSUME TypeOK, [Next]_vars
      PROVE  TypeOK'
  <2> USE <1>1
  <2>1. ASSUME NEW c \in Clients, on_connection(c)
        PROVE  TypeOK'
    <3>1. /\ mem' = [mem EXCEPT ![c] = "live"]
          /\ flags' = [flags EXCEPT ![c] = {"IN_USE"}]
          /\ active' = active \cup {c}
      BY <2>1 DEF on_connection
    <3>2. mem' \in [Clients -> {"absent", "live", "freed"}]
      BY <3>1 DEF TypeOK
    <3>3. flags' \in [Clients -> SUBSET Flags]
      BY <3>1 DEF TypeOK, Flags
    <3>4. active' \subseteq Clients
      BY <3>1 DEF TypeOK
    <3>5. /\ handle' \in [Clients -> Handles]
          /\ sock' \in [Clients -> Fds \cup {NULL}]
      <4>1. CASE uv_close(c, "closing")
        BY <4>1 DEF uv_close, TypeOK, Handles
      <4>2. ASSUME NEW n \in Fds,
                   handle' = [handle EXCEPT ![c] = "open"], sock' = [sock EXCEPT ![c] = n]
            PROVE  handle' \in [Clients -> Handles] /\ sock' \in [Clients -> Fds \cup {NULL}]
        BY <4>2 DEF TypeOK, Handles
      <4> QED
        BY <2>1, <4>1, <4>2 DEF on_connection
    <3> QED
      BY <2>1, <3>2, <3>3, <3>4, <3>5 DEF on_connection, fields, chain, TypeOK
  <2>2. ASSUME NEW c \in Clients, on_close(c)
        PROVE  TypeOK'
    <3>1. /\ handle' \in [Clients -> Handles]
          /\ flags' \in [Clients -> SUBSET Flags]
      BY <2>2 DEF on_close, TypeOK, Handles
    <3>2. /\ active' \subseteq Clients
          /\ mem' \in [Clients -> {"absent", "live", "freed"}]
          /\ heap' \subseteq Objects
      BY <2>2 DEF on_close, release, TypeOK
    <3> QED
      BY <2>2, <3>1, <3>2 DEF on_close, fields, chain, TypeOK
  <2>3. ASSUME NEW c \in Clients, closed_silently(c)
        PROVE  TypeOK'
    BY <2>3 DEF closed_silently, pool, fields, chain, TypeOK, Handles
  <2>4. CASE cleanup_freeList
    BY <2>4 DEF cleanup_freeList, release, net, fields, chain, TypeOK
  <2>5. ASSUME NEW c \in Clients, flush(c)
        PROVE  TypeOK'
    <3>1. wire' \in [Clients -> Seq(Event)]
      <4>1. \A i \in DOMAIN writeq[c] : writeq[c][i] \in Requests
        BY DEF TypeOK
      <4>2. \A q \in Requests, a \in {"page", "head"} : [kind |-> a, req |-> q] \in Event
        BY DEF Event
      <4>3. PICK e \in Event : wire' = [wire EXCEPT ![c] = Append(@, e)]
        BY <2>5, <4>1, <4>2 DEF flush
      <4> QED
        BY <4>3 DEF TypeOK
    <3> QED
      BY <2>5, <3>1 DEF flush, pool, net, fields, chain, TypeOK
  <2>6. ASSUME NEW c \in Clients, NEW r \in Requests, NEW ok \in BOOLEAN,
               on_final_fix_response(c, r, ok)
        PROVE  TypeOK'
    <3>1. response' \in [Clients -> ResponseType]
      <4>1. response[c] \in ResponseType /\ NULL \in RequestP
        BY DEF TypeOK, RequestP
      <4>2. [response[c] EXCEPT !.buf = NULL] \in ResponseType
        BY <4>1 DEF ResponseType
      <4> QED
        BY <2>6, <4>2 DEF on_final_fix_response, TypeOK
    <3>2. heap' \subseteq Objects
      BY <2>6 DEF on_final_fix_response, TypeOK
    <3>3. writeq' \in [Clients -> Seq(Requests)]
      BY <2>6 DEF on_final_fix_response, WriteDone, TypeOK
    <3>4. stage' \in [Requests -> Stages]
      BY <2>6 DEF on_final_fix_response, TypeOK, Stages
    <3> QED
      BY <2>6, <3>1, <3>2, <3>3, <3>4 DEF on_final_fix_response, pool, net, TypeOK
  <2>7. ASSUME NEW c \in Clients, NEW r \in Requests, NEW ok \in BOOLEAN,
               open_send_file(c, r, ok)
        PROVE  TypeOK'
    <3>1. io' \in [Requests -> IoType]
      <4>1. CASE ok
        <5>1. response[c].path \in Requests
          BY <2>7, <4>1 DEF open_send_file, TypeOK, ResponseType, RequestP
        <5>2. io[response[c].path].doc \in RequestP /\ io[r] \in IoType
          BY <5>1 DEF TypeOK, IoType
        <5>3. [io[r] EXCEPT !.doc = io[response[c].path].doc] \in IoType
          BY <5>2 DEF IoType
        <5> QED
          BY <2>7, <4>1, <5>3 DEF open_send_file, TypeOK
      <4>2. CASE ~ok
        BY <2>7, <4>2 DEF open_send_file, TypeOK
      <4> QED
        BY <4>1, <4>2
    <3>2. stage' \in [Requests -> Stages]
      BY <2>7, ZenonT(30) DEF open_send_file, TypeOK, Stages
    <3>3. writeq' \in [Clients -> Seq(Requests)]
      BY <2>7 DEF open_send_file, WriteDone, TypeOK
    <3>4. heap' \subseteq Objects
      BY <2>7 DEF open_send_file, TypeOK
    <3> QED
      BY <2>7, <3>1, <3>2, <3>3, <3>4 DEF open_send_file, pool, net, fields, TypeOK
  <2>8. ASSUME NEW c \in Clients, NEW r \in Requests, NEW k \in Chunks, on_read(c, r, k)
        PROVE  TypeOK'
    <3>1. llhttp_execute(c, r, k)
      BY <2>8 DEF on_read
    <3>2. /\ parser' \in [Clients -> [at : {"idle", "line", "url"}, ended : Nat]]
          /\ request' \in [Clients -> RequestType]
          /\ conn' \in [Requests -> Clients \cup {NULL}]
          /\ ParsedRequest(c, r, k).url \in RequestP
          /\ ParsedHeap(c, r, k) \subseteq Objects
      BY <3>1, ParseType
    <3> DEFINE url == ParsedRequest(c, r, k).url
               h   == ParsedHeap(c, r, k)
    <3>3. process_request(c, r, url, h)
      BY <2>8 DEF on_read
    <3>4. /\ response' \in [Clients -> ResponseType]
          /\ heap' \subseteq Objects
          /\ io' \in [Requests -> IoType]
          /\ writeq' \in [Clients -> Seq(Requests)]
          /\ stage' \in [Requests -> Stages]
      <4>1. CASE make_fixed_response(c, r, 500, h)
        BY <3>2, <4>1, FixedType
      <4>2. CASE ~make_fixed_response(c, r, 500, h)
        <5>1. /\ stage' = [stage EXCEPT ![r] = "stat"]
              /\ io' = [io EXCEPT ![r] = [io[r] EXCEPT !.doc = url]]
              /\ heap' = h
              /\ UNCHANGED <<response, writeq>>
          BY <3>3, <4>2 DEF process_request
        <5>2. io[r] \in IoType /\ url \in RequestP
          BY <3>2 DEF TypeOK
        <5>3. [io[r] EXCEPT !.doc = url] \in IoType
          BY <5>2 DEF IoType
        <5>4. io' \in [Requests -> IoType]
          BY <5>1, <5>3 DEF TypeOK
        <5>5. stage' \in [Requests -> Stages]
          BY <5>1 DEF TypeOK, Stages
        <5> QED
          BY <3>2, <5>1, <5>4, <5>5 DEF TypeOK
      <4> QED
        BY <4>1, <4>2
    <3> HIDE DEF url, h
    <3> QED
      BY <2>8, <3>2, <3>4 DEF on_read, pool, TypeOK
  <2>9. ASSUME NEW c \in Clients, NEW r \in Requests, NEW k \in Chunks,
               on_read_parse_error(c, r, k)
        PROVE  TypeOK'
    <3>1. llhttp_execute(c, r, k)
      BY <2>9 DEF on_read_parse_error
    <3>2. /\ parser' \in [Clients -> [at : {"idle", "line", "url"}, ended : Nat]]
          /\ request' \in [Clients -> RequestType]
          /\ conn' \in [Requests -> Clients \cup {NULL}]
          /\ ParsedHeap(c, r, k) \subseteq Objects
      BY <3>1, ParseType
    <3>3. heap' \subseteq Objects
      BY <2>9, <3>2 DEF on_read_parse_error
    <3>4. stage' \in [Requests -> Stages]
      BY <2>9 DEF on_read_parse_error, TypeOK, Stages
    <3>5. handle' \in [Clients -> Handles] /\ sock' \in [Clients -> Fds \cup {NULL}]
      BY <2>9 DEF on_read_parse_error, uv_close, TypeOK, Handles
    <3> QED
      BY <2>9, <3>2, <3>3, <3>4, <3>5 DEF on_read_parse_error, pool, TypeOK
  <2>10. ASSUME NEW c \in Clients, on_read_close(c)
         PROVE  TypeOK'
    <3>1. handle' \in [Clients -> Handles] /\ sock' \in [Clients -> Fds \cup {NULL}]
      BY <2>10 DEF on_read_close, uv_close, TypeOK, Handles
    <3>2. heap' \subseteq Objects
      BY <2>10 DEF on_read_close, TypeOK, Objects, Kinds
    <3> QED
      BY <2>10, <3>1, <3>2 DEF on_read_close, pool, fields, chain, TypeOK
  <2>11. ASSUME NEW c \in Clients, NEW r \in Requests, NEW found \in {"missing", "dir", "file"},
                check_path_async(c, r, found)
         PROVE  TypeOK'
    <3>1. /\ request' \in [Clients -> RequestType]
          /\ response' \in [Clients -> ResponseType]
          /\ heap' \subseteq Objects
          /\ io' \in [Requests -> IoType]
          /\ writeq' \in [Clients -> Seq(Requests)]
          /\ stage' \in [Requests -> Stages]
      <4>1. CASE make_fixed_response(c, r, 404, heap) /\ UNCHANGED request
        BY <4>1, FixedType DEF TypeOK
      <4>2. CASE found_and_sendfs_req(c, r) /\ UNCHANGED request
        BY <4>2, FoundType DEF TypeOK
      <4>3. CASE found = "dir"
        <5>1. /\ request' = [request EXCEPT ![c] = [request[c] EXCEPT !.tries = 0]]
              /\ io' = [io EXCEPT ![r] = [io[r] EXCEPT !.probe = 0]]
              /\ stage' = [stage EXCEPT ![r] = "default"]
              /\ UNCHANGED <<response, heap, writeq>>
          BY <2>11, <4>3 DEF check_path_async, check_path_async_tries
        <5>2. request[c] \in RequestType /\ io[r] \in IoType
          BY DEF TypeOK
        <5>3. [request[c] EXCEPT !.tries = 0] \in RequestType
          BY <5>2 DEF RequestType
        <5>4. [io[r] EXCEPT !.probe = 0] \in IoType
          <6>1. 0 \in 0..(DefCnt - 1)
            BY WebServerAssumption
          <6> QED
            BY <5>2, <6>1 DEF IoType
        <5>5. stage' \in [Requests -> Stages]
          BY <5>1 DEF TypeOK, Stages
        <5> QED
          BY <5>1, <5>3, <5>4, <5>5 DEF TypeOK
      <4> QED
        BY <2>11, <4>1, <4>2, <4>3 DEF check_path_async
    <3> QED
      BY <2>11, <3>1 DEF check_path_async, pool, net, TypeOK
  <2>12. ASSUME NEW c \in Clients, NEW r \in Requests, NEW found,
                check_default_files_async(c, r, found)
         PROVE  TypeOK'
    <3> DEFINE tries == request[c].tries + 1
    <3>1. request[c] \in RequestType /\ io[r] \in IoType
      BY DEF TypeOK
    <3>2. tries \in Nat
      BY <3>1 DEF RequestType
    <3>3. [request[c] EXCEPT !.tries = tries] \in RequestType
      BY <3>1, <3>2 DEF RequestType
    <3>4. /\ request' \in [Clients -> RequestType]
          /\ response' \in [Clients -> ResponseType]
          /\ heap' \subseteq Objects
          /\ io' \in [Requests -> IoType]
          /\ writeq' \in [Clients -> Seq(Requests)]
          /\ stage' \in [Requests -> Stages]
      <4>1. CASE found = "found"
        BY <2>12, <4>1, FoundType DEF check_default_files_async, TypeOK
      <4>2. CASE found # "found"
        <5>1. request' = [request EXCEPT ![c] = [request[c] EXCEPT !.tries = tries]]
          BY <2>12, <4>2 DEF check_default_files_async
        <5>2. request' \in [Clients -> RequestType]
          BY <3>3, <5>1 DEF TypeOK
        <5>3. CASE make_fixed_response(c, r, 404, heap) \/ make_fixed_response(c, r, 500, heap)
          BY <5>2, <5>3, FixedType DEF TypeOK
        <5>4. CASE ~(make_fixed_response(c, r, 404, heap) \/ make_fixed_response(c, r, 500, heap))
          <6>1. /\ ~Exhausted(tries)
                /\ io' = [io EXCEPT ![r] = [io[r] EXCEPT !.doc = request[c].url,
                                                         !.probe = tries]]
                /\ UNCHANGED <<stage, response, heap, writeq>>
            BY <2>12, <4>2, <5>4 DEF check_default_files_async
          <6>2. tries \in 0..(DefCnt - 1)
            BY <3>2, <6>1, WebServerAssumption DEF Exhausted
          <6>3. request[c].url \in RequestP
            BY <3>1 DEF RequestType
          <6>4. [io[r] EXCEPT !.doc = request[c].url, !.probe = tries] \in IoType
            BY <3>1, <6>2, <6>3, ZenonT(30) DEF IoType
          <6> QED
            BY <5>2, <6>1, <6>4 DEF TypeOK
        <5> QED
          BY <5>3, <5>4
      <4> QED
        BY <4>1, <4>2
    <3> QED
      BY <2>12, <3>4 DEF check_default_files_async, pool, net, TypeOK
  <2>13. ASSUME NEW c \in Clients, NEW r \in Requests, NEW opened \in BOOLEAN,
                send_file_context(c, r, opened)
         PROVE  TypeOK'
    <3>1. response[c] \in ResponseType /\ io[r] \in IoType /\ NULL \in RequestP /\ r \in RequestP
      BY DEF TypeOK, RequestP
    <3>2. /\ [response[c] EXCEPT !.file = r, !.path = NULL] \in ResponseType
          /\ [response[c] EXCEPT !.path = NULL] \in ResponseType
      BY <3>1 DEF ResponseType
    <3>3. response' \in [Clients -> ResponseType]
      BY <2>13, <3>2 DEF send_file_context, TypeOK
    <3>4. io' \in [Requests -> IoType]
      <4>1. CASE opened
        <5>1. PICK fd \in sendfd(c) :
                io' = [io EXCEPT ![r] = [io[r] EXCEPT !.fd = fd, !.len = response[c].size]]
          BY <2>13, <4>1 DEF send_file_context
        <5>2. fd \in Fds \cup {NULL}
          BY <5>1 DEF sendfd, TypeOK
        <5>3. response[c].size \in RequestP
          BY <3>1 DEF ResponseType
        <5>4. [io[r] EXCEPT !.fd = fd, !.len = response[c].size] \in IoType
          BY <3>1, <5>2, <5>3, ZenonT(30) DEF IoType
        <5> QED
          BY <5>1, <5>4 DEF TypeOK
      <4>2. CASE ~opened
        BY <2>13, <4>2 DEF send_file_context, TypeOK
      <4> QED
        BY <4>1, <4>2
    <3>5. flags' \in [Clients -> SUBSET Flags]
      <4>1. flags[c] \cup {"IN_REF"} \in SUBSET Flags
        BY DEF TypeOK, Flags
      <4>2. UNCHANGED flags \/ flags' = [flags EXCEPT ![c] = flags[c] \cup {"IN_REF"}]
        BY <2>13 DEF send_file_context, CLIENT_SET_IN_REF
      <4> QED
        BY <4>1, <4>2 DEF TypeOK
    <3>6. heap' \subseteq Objects
      BY <2>13 DEF send_file_context, TypeOK, Objects, Kinds, RequestP
    <3>7. stage' \in [Requests -> Stages]
      BY <2>13 DEF send_file_context, TypeOK, Stages
    <3> QED
      BY <2>13, <3>3, <3>4, <3>5, <3>6, <3>7 DEF send_file_context, net, TypeOK
  <2>14. ASSUME NEW r \in Requests, NEW sent, uv_fs_sendfile(r, sent)
         PROVE  TypeOK'
    <3>1. \A a \in {"body", "part"} : [kind |-> a, req |-> r] \in Event
      BY DEF Event
    <3>2. \A c \in Clients, e \in Event : Append(wire[c], e) \in Seq(Event)
      BY DEF TypeOK
    <3>3. wire' \in [Clients -> Seq(Event)]
      BY <2>14, <3>1, <3>2 DEF uv_fs_sendfile, TypeOK
    <3>4. stage' \in [Requests -> Stages]
      BY <2>14 DEF uv_fs_sendfile, TypeOK, Stages
    <3> QED
      BY <2>14, <3>3, <3>4 DEF uv_fs_sendfile, pool, net, fields, TypeOK
  <2>15. ASSUME NEW c \in Clients, NEW r \in Requests, final_sendfile(c, r)
         PROVE  TypeOK'
    <3>1. flags' \in [Clients -> SUBSET Flags]
      BY <2>15 DEF final_sendfile, CLIENT_CLEAR_IN_REF, TypeOK
    <3>2. stage' \in [Requests -> Stages] /\ heap' \subseteq Objects
      BY <2>15 DEF final_sendfile, TypeOK, Stages
    <3> QED
      BY <2>15, <3>1, <3>2 DEF final_sendfile, net, fields, TypeOK
  <2>16. ASSUME NEW r \in Requests, on_close_sendfile(r)
         PROVE  TypeOK'
    <3>1. stage' \in [Requests -> Stages]
      BY <2>16 DEF on_close_sendfile, TypeOK, Stages
    <3> QED
      BY <2>16, <3>1 DEF on_close_sendfile, pool, net, fields, TypeOK
  <2>17. CASE signal_handler
    BY <2>17 DEF signal_handler, pool, net, fields, chain, TypeOK, Phases
  <2>18. CASE uv_walk
    BY <2>18 DEF uv_walk, walk_cb, pool, fields, chain, TypeOK, Phases, Handles
  <2>19. CASE cleanup_resources
    BY <2>19 DEF cleanup_resources, release, net, fields, chain, TypeOK, Phases
  <2>20. ASSUME NEW r \in Requests, undefined_behaviour(r)
         PROVE  TypeOK'
    BY <2>20 DEF undefined_behaviour, pool, net, fields, chain, TypeOK, Faults
  <2>21. CASE UNCHANGED vars
    BY <2>21 DEF vars, pool, net, fields, chain, TypeOK
  <2>22. ASSUME NEW c \in Clients, Peer(c)
         PROVE  TypeOK'
    BY <2>1, <2>8, <2>9, <2>10, <2>22 DEF Peer
  <2>23. ASSUME NEW c \in Clients, NEW r \in Requests, WriteCallback(c, r)
         PROVE  TypeOK'
    BY <2>6, <2>7, <2>23 DEF WriteCallback
  <2>24. ASSUME NEW c \in Clients, NEW r \in Requests, FsCallback(c, r)
         PROVE  TypeOK'
    BY <2>11, <2>12, <2>13, <2>15, <2>24, WebServerAssumption DEF FsCallback
  <2>25. ASSUME NEW r \in Requests, Worker(r)
         PROVE  TypeOK'
    BY <2>14, <2>16, <2>25 DEF Worker
  <2> QED
    BY <2>2, <2>3, <2>4, <2>5, <2>17, <2>18, <2>19, <2>20, <2>21, <2>22, <2>23, <2>24, <2>25
    DEF Next
<1> QED
  BY <1>1, InitTypeOK, PTL DEF Spec

-----------------------------------------------------------------------------
(* The pool.                                                               *)

Pool == TypeOK /\ ActiveExact /\ HandleOutlived

\* Steps that leave the pool and the sockets alone.
LEMMA PoolUntouched ==
  ASSUME Pool, UNCHANGED <<active, mem, flags, handle, writeq>>
  PROVE  ActiveExact' /\ HandleOutlived'
BY DEF Pool, ActiveExact, HandleOutlived

\* uv_write queues only on an open handle.
LEMMA PoolWrite ==
  ASSUME Pool, NEW c \in Clients, NEW r \in Requests, NEW next,
         uv_write(c, r, next), UNCHANGED <<active, mem, flags, handle>>
  PROVE  ActiveExact' /\ HandleOutlived'
<1>1. ActiveExact'
  BY DEF Pool, ActiveExact
<1>2. \A d \in Clients : writeq'[d] # <<>> => writeq[d] # <<>> \/ handle[d] = "open"
  BY DEF uv_write, Pool, TypeOK
<1>3. HandleOutlived'
  BY <1>2 DEF Pool, HandleOutlived
<1> QED
  BY <1>1, <1>3

\* A write callback takes the oldest write off the queue.
LEMMA PoolWriteDone ==
  ASSUME Pool, NEW c \in Clients, writeq[c] # <<>>,
         writeq' = [writeq EXCEPT ![c] = Tail(@)], UNCHANGED <<active, mem, flags, handle>>
  PROVE  ActiveExact' /\ HandleOutlived'
<1>1. ActiveExact'
  BY DEF Pool, ActiveExact
<1>2. \A d \in Clients : writeq'[d] # <<>> => writeq[d] # <<>>
  BY DEF Pool, TypeOK
<1>3. HandleOutlived'
  BY <1>2 DEF Pool, HandleOutlived
<1> QED
  BY <1>1, <1>3

\* A handle that was open starts to close.
LEMMA PoolClose ==
  ASSUME Pool, NEW c \in Clients, handle[c] = "open", uv_close(c, "closing"),
         UNCHANGED <<active, mem, flags, writeq>>
  PROVE  ActiveExact' /\ HandleOutlived'
<1>1. ActiveExact'
  BY DEF Pool, ActiveExact
<1>2. HandleOutlived'
  BY DEF Pool, HandleOutlived, uv_close, TypeOK
<1> QED
  BY <1>1, <1>2

\* Clients are released whose handles are closed.
LEMMA PoolRelease ==
  ASSUME Pool, NEW C \in SUBSET Clients, release(C),
         \A c \in C : handle[c] \notin {"open", "closing", "closing_null"},
         UNCHANGED <<flags, handle, writeq>>
  PROVE  ActiveExact' /\ HandleOutlived'
BY DEF Pool, ActiveExact, HandleOutlived, release, TypeOK

LEMMA PoolInit == Init => Pool
BY InitTypeOK DEF Init, Pool, ActiveExact, HandleOutlived

\* No step of the server, whatever the peers do, breaks the list of active clients
\* or lets a client go before its handle.
LEMMA PoolStep ==
  ASSUME Pool, Next
  PROVE  ActiveExact' /\ HandleOutlived'
<1> USE DEF Pool
<1>1. ASSUME NEW c \in Clients, on_connection(c)
      PROVE  ActiveExact' /\ HandleOutlived'
  <2>1. /\ mem' = [mem EXCEPT ![c] = "live"]
        /\ flags' = [flags EXCEPT ![c] = {"IN_USE"}]
        /\ active' = active \cup {c}
        /\ UNCHANGED writeq
        /\ mem[c] = "absent"
    BY <1>1 DEF on_connection, chain
  <2>2. PICK h \in {"open", "closing"} : handle' = [handle EXCEPT ![c] = h]
    BY <1>1 DEF on_connection, uv_close
  <2>3. ActiveExact'
    BY <2>1 DEF ActiveExact, TypeOK
  <2>4. HandleOutlived'
    BY <2>1, <2>2 DEF HandleOutlived, TypeOK
  <2> QED
    BY <2>3, <2>4
<1>2. ASSUME NEW c \in Clients, on_close(c)
      PROVE  ActiveExact' /\ HandleOutlived'
  <2>1. /\ handle[c] = "closing" /\ writeq[c] = <<>>
        /\ handle' = [handle EXCEPT ![c] = "closed"]
        /\ flags' = [flags EXCEPT ![c] = flags[c] \ {"IN_USE"}]
        /\ UNCHANGED writeq
    BY <1>2 DEF on_close, chain
  <2>2. release({c}) \/ UNCHANGED <<active, mem>>
    BY <1>2 DEF on_close
  <2>3. ActiveExact'
    BY <2>2 DEF ActiveExact, release, TypeOK
  <2>4. HandleOutlived'
    BY <2>1, <2>2 DEF HandleOutlived, release, TypeOK
  <2> QED
    BY <2>3, <2>4
<1>3. ASSUME NEW c \in Clients, closed_silently(c)
      PROVE  ActiveExact' /\ HandleOutlived'
  <2>1. /\ writeq[c] = <<>>
        /\ handle' = [handle EXCEPT ![c] = "closed"]
        /\ UNCHANGED <<active, mem, flags, writeq>>
    BY <1>3 DEF closed_silently, pool, chain
  <2> QED
    BY <2>1 DEF ActiveExact, HandleOutlived, TypeOK
<1>4. CASE cleanup_freeList
  <2> DEFINE C == {c \in active : CLIENT_IS_FLAGS_FREE(flags[c])}
  <2>1. C \in SUBSET Clients
    BY DEF TypeOK
  <2>2. \A c \in C : handle[c] \notin {"open", "closing", "closing_null"}
    BY <2>1 DEF CLIENT_IS_FLAGS_FREE, HandleOutlived, Flags
  <2>3. release(C) /\ UNCHANGED <<flags, handle, writeq>>
    BY <1>4 DEF cleanup_freeList, net, chain
  <2> HIDE DEF C
  <2> QED
    BY <2>1, <2>2, <2>3, PoolRelease
<1>5. ASSUME NEW c \in Clients, flush(c)
      PROVE  ActiveExact' /\ HandleOutlived'
  BY <1>5, PoolUntouched DEF flush, pool, net, chain
<1>6. ASSUME NEW c \in Clients, NEW r \in Requests, NEW ok \in BOOLEAN,
             on_final_fix_response(c, r, ok) \/ open_send_file(c, r, ok)
      PROVE  ActiveExact' /\ HandleOutlived'
  <2>1. /\ writeq[c] # <<>>
        /\ writeq' = [writeq EXCEPT ![c] = Tail(@)]
        /\ UNCHANGED <<active, mem, flags, handle>>
    BY <1>6 DEF on_final_fix_response, open_send_file, WriteDone, pool, net
  <2> QED
    BY <2>1, PoolWriteDone
<1>7. ASSUME NEW c \in Clients, NEW r \in Requests, NEW k \in Chunks, on_read(c, r, k)
      PROVE  ActiveExact' /\ HandleOutlived'
  <2>1. UNCHANGED <<active, mem, flags, handle>>
    BY <1>7 DEF on_read, pool
  <2>2. UNCHANGED writeq \/ uv_write(c, r, "fixed")
    BY <1>7 DEF on_read, process_request, make_fixed_response
  <2> QED
    BY <2>1, <2>2, PoolUntouched, PoolWrite
<1>8. ASSUME NEW c \in Clients, NEW r \in Requests, NEW k \in Chunks,
             on_read_parse_error(c, r, k)
      PROVE  ActiveExact' /\ HandleOutlived'
  BY <1>8, PoolClose DEF on_read_parse_error, pool
<1>9. ASSUME NEW c \in Clients, on_read_close(c)
      PROVE  ActiveExact' /\ HandleOutlived'
  BY <1>9, PoolClose DEF on_read_close, pool, chain
<1>10. ASSUME NEW c \in Clients, NEW r \in Requests, NEW found \in {"missing", "dir", "file"},
              check_path_async(c, r, found)
       PROVE  ActiveExact' /\ HandleOutlived'
  <2>1. UNCHANGED <<active, mem, flags, handle>>
    BY <1>10 DEF check_path_async, pool, net
  <2>2. UNCHANGED writeq \/ uv_write(c, r, "fixed") \/ uv_write(c, r, "header")
    BY <1>10 DEF check_path_async, make_fixed_response, found_and_sendfs_req
  <2> QED
    BY <2>1, <2>2, PoolUntouched, PoolWrite
<1>11. ASSUME NEW c \in Clients, NEW r \in Requests, NEW found,
              check_default_files_async(c, r, found)
       PROVE  ActiveExact' /\ HandleOutlived'
  <2>1. UNCHANGED <<active, mem, flags, handle>>
    BY <1>11 DEF check_default_files_async, pool, net
  <2>2. UNCHANGED writeq \/ uv_write(c, r, "fixed") \/ uv_write(c, r, "header")
    BY <1>11 DEF check_default_files_async, make_fixed_response, found_and_sendfs_req
  <2> QED
    BY <2>1, <2>2, PoolUntouched, PoolWrite
<1>12. ASSUME NEW c \in Clients, NEW r \in Requests, NEW opened \in BOOLEAN,
              send_file_context(c, r, opened)
       PROVE  ActiveExact' /\ HandleOutlived'
  <2>1. UNCHANGED <<active, mem, handle, writeq>>
    BY <1>12 DEF send_file_context, net
  <2>2. UNCHANGED flags \/ flags' = [flags EXCEPT ![c] = flags[c] \cup {"IN_REF"}]
    BY <1>12 DEF send_file_context, CLIENT_SET_IN_REF
  <2> QED
    BY <2>1, <2>2, ZenonT(30) DEF ActiveExact, HandleOutlived, TypeOK
<1>13. ASSUME NEW r \in Requests, NEW sent, uv_fs_sendfile(r, sent) \/ on_close_sendfile(r)
       PROVE  ActiveExact' /\ HandleOutlived'
  BY <1>13, PoolUntouched DEF uv_fs_sendfile, on_close_sendfile, pool, net
<1>14. ASSUME NEW c \in Clients, NEW r \in Requests, final_sendfile(c, r)
       PROVE  ActiveExact' /\ HandleOutlived'
  <2>1. /\ UNCHANGED <<active, mem, handle, writeq>>
        /\ flags' = [flags EXCEPT ![c] = flags[c] \ {"IN_REF"}]
    BY <1>14 DEF final_sendfile, CLIENT_CLEAR_IN_REF, net
  <2> QED
    BY <2>1 DEF ActiveExact, HandleOutlived, TypeOK
<1>15. CASE signal_handler
  BY <1>15, PoolUntouched DEF signal_handler, pool, net, chain
<1>16. CASE uv_walk
  <2>1. /\ UNCHANGED <<active, mem, flags, writeq>>
        /\ handle' = [c \in Clients |-> walk_cb(handle[c])]
    BY <1>16 DEF uv_walk, pool, chain
  <2> QED
    BY <2>1 DEF walk_cb, ActiveExact, HandleOutlived, TypeOK
<1>17. CASE cleanup_resources
  <2>1. /\ release(active) /\ UNCHANGED <<flags, handle, writeq>>
        /\ \A c \in active : handle[c] \notin {"open", "closing", "closing_null"}
    BY <1>17 DEF cleanup_resources, Quiet, net, chain, TypeOK
  <2>2. active \in SUBSET Clients
    BY DEF TypeOK
  <2> QED
    BY <2>1, <2>2, PoolRelease
<1>18. ASSUME NEW r \in Requests, undefined_behaviour(r)
       PROVE  ActiveExact' /\ HandleOutlived'
  BY <1>18, PoolUntouched DEF undefined_behaviour, pool, net, chain
<1>19. ASSUME NEW c \in Clients, Peer(c)
       PROVE  ActiveExact' /\ HandleOutlived'
  BY <1>1, <1>7, <1>8, <1>9, <1>19 DEF Peer
<1>20. ASSUME NEW c \in Clients, NEW r \in Requests, WriteCallback(c, r)
       PROVE  ActiveExact' /\ HandleOutlived'
  BY <1>6, <1>20 DEF WriteCallback
<1>21. ASSUME NEW c \in Clients, NEW r \in Requests, FsCallback(c, r)
       PROVE  ActiveExact' /\ HandleOutlived'
  BY <1>10, <1>11, <1>12, <1>14, <1>21, WebServerAssumption DEF FsCallback
<1>22. ASSUME NEW r \in Requests, Worker(r)
       PROVE  ActiveExact' /\ HandleOutlived'
  BY <1>13, <1>22 DEF Worker
<1> QED
  BY <1>2, <1>3, <1>4, <1>5, <1>15, <1>16, <1>17, <1>18, <1>19, <1>20, <1>21, <1>22
  DEF Next

\* The list of active clients is exact and no client is freed before libuv has
\* let go of its handle and its writes.
THEOREM PoolSafe == Spec => [](ActiveExact /\ HandleOutlived)
<1>1. ActiveExact /\ HandleOutlived /\ TypeOK /\ [Next]_vars
        => (ActiveExact /\ HandleOutlived)'
  <2> SUFFICES ASSUME Pool, [Next]_vars
               PROVE  ActiveExact' /\ HandleOutlived'
    BY DEF Pool
  <2>1. CASE UNCHANGED vars
    BY <2>1, PoolUntouched DEF vars, pool, net, chain
  <2> QED
    BY <2>1, PoolStep
<1>2. Init => ActiveExact /\ HandleOutlived
  BY PoolInit DEF Pool
<1> QED
  BY <1>1, <1>2, TypeCorrect, PTL DEF Spec

\* activeClientList holds exactly the allocated clients.
THEOREM ListIsExact == Spec => []ActiveExact
BY PoolSafe, PTL

-----------------------------------------------------------------------------
(* The server implements ClientPool: each callback is a step of the pool   *)
(* or leaves it alone.                                                     *)

used       == {c \in active : "IN_USE" \in flags[c]}
referenced == {c \in active : "IN_REF" \in flags[c]}
over       == phase \in {"draining", "exited"}

LEMMA StartsEmpty == Init => Lifecycle!Init
BY DEF Init, Lifecycle!Init

LEMMA OutsidePool ==
  ASSUME UNCHANGED <<active, flags, over>>
  PROVE  UNCHANGED Lifecycle!poolVars
BY DEF Lifecycle!poolVars, over

LEMMA ConnectionJoins ==
  ASSUME Pool, NEW c \in Clients, on_connection(c)
  PROVE  Lifecycle!Connect(c)
<1>1. /\ phase \in Serving /\ phase' = phase
      /\ mem[c] = "absent"
      /\ flags' = [flags EXCEPT ![c] = {"IN_USE"}]
      /\ active' = active \cup {c}
  BY DEF on_connection
<1>2. c \notin active
  BY <1>1 DEF Pool, ActiveExact
<1>3. flags \in [Clients -> SUBSET Flags] /\ active \subseteq Clients
  BY DEF Pool, TypeOK
<1>4. used' = used \cup {c} /\ referenced' = referenced
  BY <1>1, <1>2, <1>3 DEF used, referenced
<1>5. ~over /\ ~over'
  BY <1>1 DEF over, Serving
<1> QED
  BY <1>1, <1>2, <1>4, <1>5 DEF Lifecycle!Connect, used, referenced, over

\* The client whose handle closes was in use; it leaves at once unless referenced.
LEMMA CloseLeaves ==
  ASSUME Pool, NEW c \in Clients, on_close(c)
  PROVE  Lifecycle!Close(c)
<1>1. /\ handle[c] = "closing" /\ phase' = phase
      /\ flags' = [flags EXCEPT ![c] = flags[c] \ {"IN_USE"}]
      /\ \/ active' = active
         \/ CLIENT_IS_FLAGS_FREE(flags[c] \ {"IN_USE"}) /\ active' = active \ {c}
  BY DEF on_close, release
<1>2. c \in active /\ "IN_USE" \in flags[c]
  BY <1>1 DEF Pool, ActiveExact, HandleOutlived
<1>3. flags \in [Clients -> SUBSET Flags] /\ active \subseteq Clients
  BY DEF Pool, TypeOK
<1>4. active' = active \/ ("IN_REF" \notin flags[c] /\ active' = active \ {c})
  BY <1>1 DEF CLIENT_IS_FLAGS_FREE, Flags
<1>5. used' = used \ {c}
  BY <1>1, <1>3, <1>4 DEF used
<1>6. referenced' = referenced
  BY <1>1, <1>3, <1>4 DEF referenced
<1>7. over' = over
  BY <1>1 DEF over
<1> QED
  BY <1>2, <1>4, <1>5, <1>6, <1>7 DEF Lifecycle!Close, used, referenced, over

LEMMA ReleaseFrees ==
  ASSUME Pool, NEW C \in SUBSET active, release(C), UNCHANGED flags, over' <=> over,
         over \/ \A c \in C : CLIENT_IS_FLAGS_FREE(flags[c])
  PROVE  Lifecycle!Next
<1>1. active' = active \ C /\ flags' = flags
  BY DEF release
<1>2. used' = used \ C /\ referenced' = referenced \ C
  BY <1>1 DEF used, referenced
<1>3. over \/ C \cap (used \cup referenced) = {}
  BY DEF CLIENT_IS_FLAGS_FREE, Flags, used, referenced
<1>4. Lifecycle!Free(C)
  BY <1>1, <1>2, <1>3 DEF Lifecycle!Free, used, referenced, over
<1>5. C \in SUBSET Clients
  BY DEF Pool, TypeOK
<1> QED
  BY <1>4, <1>5 DEF Lifecycle!Next

LEMMA OpenReferences ==
  ASSUME Pool, NEW c \in Clients, NEW r \in Requests, NEW opened \in OpenResults,
         send_file_context(c, r, opened)
  PROVE  Lifecycle!Reference(c) \/ UNCHANGED Lifecycle!poolVars
<1>1. CASE UNCHANGED flags
  BY <1>1, OutsidePool DEF send_file_context, over
<1>2. CASE ~UNCHANGED flags
  <2>1. /\ mem[c] = "live" /\ active' = active /\ phase' = phase
        /\ flags' = [flags EXCEPT ![c] = CLIENT_SET_IN_REF(flags[c])]
    BY <1>2 DEF send_file_context, Callback
  <2>2. c \in active
    BY <2>1 DEF Pool, ActiveExact
  <2>3. flags \in [Clients -> SUBSET Flags] /\ active \subseteq Clients
    BY DEF Pool, TypeOK
  <2>4. used' = used /\ referenced' = referenced \cup {c}
    BY <2>1, <2>2, <2>3 DEF used, referenced, CLIENT_SET_IN_REF
  <2> QED
    BY <2>1, <2>2, <2>4 DEF Lifecycle!Reference, used, referenced
<1> QED
  BY <1>1, <1>2

LEMMA SentUnreferences ==
  ASSUME Pool, NEW c \in Clients, NEW r \in Requests, final_sendfile(c, r)
  PROVE  Lifecycle!Unreference(c)
<1>1. /\ active' = active /\ phase' = phase
      /\ flags' = [flags EXCEPT ![c] = CLIENT_CLEAR_IN_REF(flags[c])]
  BY DEF final_sendfile
<1>2. flags \in [Clients -> SUBSET Flags] /\ active \subseteq Clients
  BY DEF Pool, TypeOK
<1>3. used' = used /\ referenced' = referenced \ {c}
  BY <1>1, <1>2 DEF used, referenced, CLIENT_CLEAR_IN_REF
<1> QED
  BY <1>1, <1>3 DEF Lifecycle!Unreference, used, referenced

LEMMA EachStepInPool ==
  ASSUME Pool, Next
  PROVE  Lifecycle!Next \/ UNCHANGED Lifecycle!poolVars
<1>1. ASSUME NEW c \in Clients, on_connection(c) \/ on_close(c)
      PROVE  Lifecycle!Next
  BY <1>1, ConnectionJoins, CloseLeaves DEF Lifecycle!Next
<1>2. ASSUME NEW c \in Clients, NEW r \in Requests, FsCallback(c, r)
      PROVE  Lifecycle!Next \/ UNCHANGED Lifecycle!poolVars
  <2>1. ASSUME NEW opened \in OpenResults, send_file_context(c, r, opened)
        PROVE  Lifecycle!Next \/ UNCHANGED Lifecycle!poolVars
    BY <2>1, OpenReferences DEF Lifecycle!Next
  <2>2. CASE final_sendfile(c, r)
    BY <2>2, SentUnreferences DEF Lifecycle!Next
  <2>3. ASSUME NEW found, check_path_async(c, r, found) \/ check_default_files_async(c, r, found)
        PROVE  UNCHANGED Lifecycle!poolVars
    BY <2>3, OutsidePool DEF check_path_async, check_default_files_async, pool, over
  <2> QED
    BY <1>2, <2>1, <2>2, <2>3 DEF FsCallback
<1>3. CASE cleanup_freeList
  <2>1. PICK C \in SUBSET active :
          release(C) /\ \A c \in C : CLIENT_IS_FLAGS_FREE(flags[c])
    BY <1>3 DEF cleanup_freeList
  <2> QED
    BY <1>3, <2>1, ReleaseFrees DEF cleanup_freeList, over
<1>4. CASE cleanup_resources
  <2>1. PICK C \in SUBSET active : C = active
    OBVIOUS
  <2>2. release(C) /\ UNCHANGED flags
    BY <1>4, <2>1 DEF cleanup_resources
  <2>3. over /\ over'
    BY <1>4 DEF cleanup_resources, over
  <2> QED
    BY <2>2, <2>3, ReleaseFrees
<1>5. CASE uv_walk
  BY <1>5 DEF uv_walk, pool, Lifecycle!Next, Lifecycle!Stop
<1>6. CASE signal_handler
  BY <1>6, OutsidePool DEF signal_handler, pool, over
<1>7. ASSUME NEW c \in Clients,
             \/ closed_silently(c) \/ flush(c) \/ on_read_close(c)
             \/ \E r \in Requests, k \in Chunks : on_read(c, r, k) \/ on_read_parse_error(c, r, k)
             \/ \E r \in Requests : WriteCallback(c, r)
      PROVE  UNCHANGED Lifecycle!poolVars
  BY <1>7, OutsidePool
  DEF closed_silently, flush, on_read_close, on_read, on_read_parse_error, WriteCallback,
      on_final_fix_response, open_send_file, pool, over
<1>8. ASSUME NEW r \in Requests, Worker(r) \/ undefined_behaviour(r)
      PROVE  UNCHANGED Lifecycle!poolVars
  BY <1>8, OutsidePool
  DEF Worker, uv_fs_sendfile, on_close_sendfile, undefined_behaviour, pool, over
<1> QED
  BY <1>1, <1>2, <1>3, <1>4, <1>5, <1>6, <1>7, <1>8 DEF Next, Peer

\* Whatever the peers, the workers and the signals do, a client enters
\* activeClientList in use and leaves it, by on_close, the timer or
\* cleanup_resources, only when it is neither in use nor referenced or the loop is
\* over.
THEOREM PoolImplemented == Spec => ImplementsPool
<1>1. Init => Lifecycle!Init
  BY StartsEmpty
<1>2. TypeOK /\ (ActiveExact /\ HandleOutlived) /\ [Next]_vars
        => [Lifecycle!Next]_Lifecycle!poolVars
  <2> SUFFICES ASSUME Pool, [Next]_vars
               PROVE  Lifecycle!Next \/ UNCHANGED Lifecycle!poolVars
    BY DEF Pool
  <2>1. CASE UNCHANGED vars
    BY <2>1, OutsidePool DEF vars, pool, over
  <2> QED
    BY <2>1, EachStepInPool
<1> QED
  BY <1>1, <1>2, TypeCorrect, PoolSafe, PTL DEF Spec, ImplementsPool, Lifecycle!Spec
=============================================================================
