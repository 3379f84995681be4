------------------------------ MODULE WebServer ------------------------------
(***************************************************************************)
(* The request pipeline of MingleJet (src/src/webserver.c): one libuv loop *)
(* thread runs every callback to its end, libuv's worker threads run the   *)
(* file-system calls in between, and the peers do what they like.          *)
(*                                                                         *)
(* A request r is one call of process_request and the chain of callbacks   *)
(* it starts; stage[r] names the libuv operation the chain waits for, and  *)
(* the callback of that operation is one action.  Every heap object is a   *)
(* pair <<kind, r>>: the object of that kind allocated on behalf of r.  A  *)
(* pointer held by a client_t is the r of the object pointed to, or NULL.  *)
(*                                                                         *)
(* What C leaves undefined (a freed client dereferenced, a buffer freed    *)
(* twice, ...) stops the behaviour with the name of the mistake in fault.  *)
(***************************************************************************)
EXTENDS Naturals, Sequences, FiniteSets

CONSTANTS
  Clients,       \* the client_t blocks calloc may return, one per connection
  Requests,      \* bounds the calls of process_request
  Fds,           \* descriptor numbers the kernel gives to sockets
  NULL,          \* the null pointer, and "no descriptor"
  DefCnt,        \* web_config->def_cnt, the number of default file names
  Chunks,        \* what one successful read may carry
  StatResults,   \* what uv_fs_stat may find at a request's path
  ProbeResults,  \* what uv_fs_stat may find at a default file's path
  OpenResults,   \* whether uv_fs_open may succeed, may fail
  SendResults,   \* how much of the file uv_fs_sendfile may send
  Sending,       \* when peers send the next request
  EarlyClose     \* whether a connection may break before it is answered

\* The bytes of one read: how many URLs llhttp reports in them, how many
\* messages end in them, whether a URL has a query, whether there is a body, and
\* whether llhttp accepts them all.
Chunk == [urls : 0..2, ends : 0..2, query : BOOLEAN, body : BOOLEAN,
          valid : BOOLEAN]

ASSUME WebServerAssumption ==
  /\ NULL \notin Clients \cup Requests \cup Fds
  /\ DefCnt \in Nat \ {0}
  /\ Chunks \subseteq Chunk
  /\ StatResults \subseteq {"missing", "dir", "file", "long"}
  /\ StatResults # {"long"}
  /\ ProbeResults \subseteq {"missing", "found", "long"}
  /\ OpenResults \subseteq BOOLEAN
  /\ SendResults \subseteq {"full", "short"}
  /\ Sending \in {"serial", "lockstep", "pipelined"}
  /\ EarlyClose \in BOOLEAN

VARIABLES
  phase,     \* where webserver() is: first uv_run, asked to stop, second uv_run
  active,    \* activeClientList, as the set of its elements
  mem,       \* the client_t block: not allocated, allocated, freed
  flags,     \* client->flags
  handle,    \* client->handle as libuv sees it
  sock,      \* the descriptor behind client->handle
  parser,    \* client->parser: its place in a message, and the messages ended so far
  request,   \* client->request
  response,  \* client->response
  conn,      \* the client a request was read from
  stage,     \* the operation a request waits for
  io,        \* the arguments of that operation
  writeq,    \* libuv's write queue of the client's stream
  heap,      \* the allocated objects other than the client_t blocks
  wire,      \* what each connection's peer has been sent (history)
  fault      \* the undefined behaviour the program has run into

pool    == <<active, mem, flags>>
net     == <<handle, sock, parser>>
fields  == <<request, response>>
chain   == <<conn, stage, io, writeq>>
vars    == <<phase, pool, net, fields, chain, heap, wire, fault>>

Phases   == {"running", "stopping", "draining", "exited"}
Serving  == {"running", "stopping"}
Flags    == {"IN_USE", "IN_REF"}
Handles  == {"none", "open", "closing", "closing_null", "closed"}
Stages   == {"none", "stat", "default", "fixed", "header", "open",
             "sendfile", "sent", "close", "done"}
Kinds    == {"url", "query", "body", "buf", "path", "file", "rbuf"}
Faults   == {"none", "use_after_free", "stale_buf", "null_path", "stale_file"}
RequestP == Requests \cup {NULL}
Event    == [kind : {"page", "head", "body", "part"}, req : Requests]

\* calloc(1, sizeof(client_t)) leaves every pointer NULL and every count 0.
request_t  == [url |-> NULL, query |-> NULL, body |-> NULL, tries |-> 0]
response_t == [buf |-> NULL, path |-> NULL, size |-> NULL, file |-> NULL]
no_io      == [doc |-> NULL, probe |-> 0, fd |-> NULL, len |-> NULL, code |-> 0]

Init ==
  /\ phase = "running"
  /\ active = {}
  /\ mem = [c \in Clients |-> "absent"]
  /\ flags = [c \in Clients |-> {}]
  /\ handle = [c \in Clients |-> "none"]
  /\ sock = [c \in Clients |-> NULL]
  /\ parser = [c \in Clients |-> [at |-> "idle", ended |-> 0]]
  /\ request = [c \in Clients |-> request_t]
  /\ response = [c \in Clients |-> response_t]
  /\ conn = [r \in Requests |-> NULL]
  /\ stage = [r \in Requests |-> "none"]
  /\ io = [r \in Requests |-> no_io]
  /\ writeq = [c \in Clients |-> <<>>]
  /\ heap = {}
  /\ wire = [c \in Clients |-> <<>>]
  /\ fault = "none"

-----------------------------------------------------------------------------
(* The peers.  A response is complete for the peer once the bytes are out, *)
(* which may be before the server has seen its own callback.               *)

Own(c) == {r \in Requests : conn[r] = c}

OnWire(c, r, kinds) ==
  \E i \in DOMAIN wire[c] : wire[c][i].kind \in kinds /\ wire[c][i].req = r

AllAnswered(c) == \A r \in Own(c) : OnWire(c, r, {"page", "body"})

\* How far the answer before may be when the peer's next bytes are read.  The
\* loop runs the callback of a write before it polls for the answer to it; a
\* worker's result can come later than bytes sent after it took effect.
MayTrail == [serial |-> {"close", "done"}, lockstep |-> {"sent", "close", "done"},
            pipelined |-> Stages]

MaySend(c) ==
  \/ parser[c].at # "idle"
  \/ /\ Sending # "pipelined" => AllAnswered(c)
     /\ \A r \in Own(c) : stage[r] \in MayTrail[Sending]

MayClose(c) == EarlyClose \/ (AllAnswered(c) /\ parser[c].at = "idle")

-----------------------------------------------------------------------------
(* The client_t block and its two flags.                                   *)

\* The operators whose names end in _mutant are mistakes that the checked
\* properties must notice; no action uses them.
CLIENT_SET_IN_REF_mutant(f) == f
CLIENT_CLEAR_IN_REF_mutant(f) == f
CLIENT_IS_FLAGS_FREE_use_mutant(f) == "IN_USE" \notin f
CLIENT_IS_FLAGS_FREE_ref_mutant(f) == "IN_REF" \notin f

CLIENT_SET_IN_REF(f) == f \cup {"IN_REF"}
CLIENT_CLEAR_IN_REF(f) == f \ {"IN_REF"}
CLIENT_IS_FLAGS_FREE(f) == f \cap Flags = {}

\* What free_client releases with the blocks of C: url, body and query, but
\* neither response.path_content nor response.buf.
free_client(C) ==
  UNION {{<<"url", request[c].url>>, <<"body", request[c].body>>,
          <<"query", request[c].query>>} : c \in C}

release_unlisted_mutant(C) ==
  /\ mem' = [c \in Clients |-> IF c \in C THEN "freed" ELSE mem[c]]
  /\ heap' = heap \ free_client(C)
  /\ UNCHANGED active

\* LL_DELETE and free_client on every client of C.
release(C) ==
  /\ active' = active \ C
  /\ mem' = [c \in Clients |-> IF c \in C THEN "freed" ELSE mem[c]]
  /\ heap' = heap \ free_client(C)

uv_close(c, cb) ==
  /\ handle' = [handle EXCEPT ![c] = cb]
  /\ sock' = [sock EXCEPT ![c] = NULL]

\* createClient, then uv_accept: on failure the handle is closed at once.
on_connection(c) ==
  /\ phase \in Serving
  /\ mem[c] = "absent"
  /\ mem' = [mem EXCEPT ![c] = "live"]
  /\ flags' = [flags EXCEPT ![c] = {"IN_USE"}]
  /\ active' = active \cup {c}
  /\ \/ \E n \in Fds :
          /\ \A d \in Clients : sock[d] # n
          /\ handle' = [handle EXCEPT ![c] = "open"]
          /\ sock' = [sock EXCEPT ![c] = n]
     \/ uv_close(c, "closing")
  /\ UNCHANGED <<phase, parser, fields, chain, heap, wire, fault>>

\* libuv runs the close callback after the callbacks of all pending writes.
on_close(c) ==
  /\ handle[c] = "closing"
  /\ writeq[c] = <<>>
  /\ handle' = [handle EXCEPT ![c] = "closed"]
  /\ LET rest == flags[c] \ {"IN_USE"}
     IN  /\ flags' = [flags EXCEPT ![c] = rest]
         /\ IF CLIENT_IS_FLAGS_FREE(rest)
            THEN release({c})
            ELSE UNCHANGED <<active, mem, heap>>
  /\ UNCHANGED <<phase, sock, parser, fields, chain, wire, fault>>

\* A handle closed by walk_cb has no callback: nothing but libuv's state moves.
closed_silently(c) ==
  /\ handle[c] = "closing_null"
  /\ writeq[c] = <<>>
  /\ handle' = [handle EXCEPT ![c] = "closed"]
  /\ UNCHANGED <<phase, pool, sock, parser, fields, chain, heap, wire, fault>>

\* The 200 ms timer; it runs until webserver() stops it.
cleanup_freeList ==
  /\ phase \in Serving
  /\ LET C == {c \in active : CLIENT_IS_FLAGS_FREE(flags[c])}
     IN  C # {} /\ release(C)
  /\ UNCHANGED <<phase, flags, net, fields, chain, wire, fault>>

-----------------------------------------------------------------------------
(* Writing.  uv_write refuses a closed descriptor, and nobody looks: the   *)
(* chain ends there without a callback.                                    *)

uv_write(c, r, next) ==
  IF handle[c] = "open"
  THEN /\ writeq' = [writeq EXCEPT ![c] = Append(@, r)]
       /\ stage' = [stage EXCEPT ![r] = next]
  ELSE /\ stage' = [stage EXCEPT ![r] = "done"]
       /\ UNCHANGED writeq

fixed_response(p, r) == [p EXCEPT !.buf = r, !.size = r]

\* The 404 and 500 pages, whose length replaces size_content; h is the heap
\* before the call.
make_fixed_response(c, r, code, h) ==
  /\ response' = [response EXCEPT ![c] = fixed_response(@, r)]
  /\ heap' = h \cup {<<"buf", r>>}
  /\ io' = [io EXCEPT ![r].code = code]
  /\ uv_write(c, r, "fixed")

found_response_size_mutant(p, r) ==
  [p EXCEPT !.size = IF @ = NULL THEN r ELSE @, !.path = r, !.buf = r]
found_response_path_mutant(p, r) == [p EXCEPT !.size = r, !.buf = r]
found_response(p, r) == [p EXCEPT !.size = r, !.path = r, !.buf = r]

\* size_content, path_content and the 200 header of a file that was found.
found_and_sendfs_req(c, r) ==
  /\ response' = [response EXCEPT ![c] = found_response(@, r)]
  /\ heap' = heap \cup {<<"path", r>>, <<"buf", r>>}
  /\ io' = [io EXCEPT ![r].code = 200]
  /\ uv_write(c, r, "header")

Written(c, r) == OnWire(c, r, {"page", "head"})

\* The kernel takes the bytes of the oldest write it has not taken yet.
flush(c) ==
  /\ handle[c] = "open"
  /\ \E i \in DOMAIN writeq[c] :
       /\ ~Written(c, writeq[c][i])
       /\ \A j \in 1..(i - 1) : Written(c, writeq[c][j])
       /\ wire' = [wire EXCEPT ![c] = Append(@,
                     [kind |-> IF stage[writeq[c][i]] = "fixed" THEN "page" ELSE "head",
                      req  |-> writeq[c][i]])]
  /\ UNCHANGED <<phase, pool, net, fields, chain, heap, fault>>

\* r is the write whose callback is due: it was taken by the kernel (status 0),
\* or cancelled by uv_close, or refused because the peer is gone.
WriteDone(c, r, ok) ==
  /\ writeq[c] # <<>>
  /\ r = Head(writeq[c])
  /\ IF ok THEN Written(c, r)
           ELSE ~Written(c, r) /\ (handle[c] # "open" \/ EarlyClose)

\* res->buf does not point to an allocated array.
StaleBuf(c) == <<"buf", response[c].buf>> \notin heap

on_final_fix_response(c, r, ok) ==
  /\ stage[r] = "fixed"
  /\ WriteDone(c, r, ok)
  /\ IF ok
     THEN /\ ~StaleBuf(c)
          /\ heap' = heap \ {<<"buf", response[c].buf>>}
          /\ response' = [response EXCEPT ![c].buf = NULL]
     ELSE UNCHANGED <<heap, response>>
  /\ writeq' = [writeq EXCEPT ![c] = Tail(@)]
  /\ stage' = [stage EXCEPT ![r] = "done"]
  /\ UNCHANGED <<phase, pool, net, request, conn, io, wire, fault>>

\* uv_fs_open copies the path, so the document is fixed here.
open_send_file(c, r, ok) ==
  /\ stage[r] = "header"
  /\ WriteDone(c, r, ok)
  /\ ~StaleBuf(c)
  /\ IF ok
     THEN /\ response[c].path # NULL
          /\ stage' = [stage EXCEPT ![r] = "open"]
          /\ io' = [io EXCEPT ![r].doc = io[response[c].path].doc]
     ELSE /\ stage' = [stage EXCEPT ![r] = "done"]
          /\ UNCHANGED io
  /\ heap' = heap \ {<<"buf", response[c].buf>>}
  /\ writeq' = [writeq EXCEPT ![c] = Tail(@)]
  /\ UNCHANGED <<phase, pool, net, fields, conn, wire, fault>>

-----------------------------------------------------------------------------
(* Reading.                                                                *)

on_url_mutant(url, r) == IF url = NULL THEN r ELSE url
on_url(url, r) == r

\* on_url frees the URL it replaces; a new query array or body overwrites the
\* old pointer.
ParsedRequest(c, r, k) ==
  [request[c] EXCEPT !.url   = IF k.urls > 0 THEN on_url(@, r) ELSE @,
                     !.query = IF k.urls > 0 /\ k.query THEN r ELSE @,
                     !.body  = IF k.body THEN r ELSE @]

replaced_url_mutant(c) == {}
replaced_url(c) == {<<"url", request[c].url>>}

ParsedHeap(c, r, k) ==
  (IF k.urls > 0 THEN (heap \ replaced_url(c)) \cup {<<"url", r>>}
                 ELSE heap)
  \cup (IF k.urls > 0 /\ k.query THEN {<<"query", r>>} ELSE {})
  \cup (IF k.body THEN {<<"body", r>>} ELSE {})

place_after(at, k) ==
  CASE k.ends > 0 -> "idle"
    [] k.ends = 0 /\ (k.urls > 0 \/ at = "url") -> "url"
    [] OTHER -> "line"

\* llhttp takes the bytes and runs on_url and on_body.  A message has no body and
\* does not end before its URL was seen, and two URLs are two whole messages.
llhttp_execute(c, r, k) ==
  /\ parser[c].at # "url" => k.ends <= k.urls /\ (k.body => k.urls > 0)
  /\ k.urls = 2 => k.ends = 2 /\ parser[c].at = "idle"
  /\ k.ends = 2 => k.urls = 2
  /\ parser' = [parser EXCEPT ![c] = [at |-> place_after(@.at, k), ended |-> @.ended + k.ends]]
  /\ request' = [request EXCEPT ![c] = ParsedRequest(c, r, k)]
  /\ conn' = [conn EXCEPT ![r] = c]

\* url is client->request.url; printf writes "(null)" for a URL not seen yet,
\* which is never too long.
process_request(c, r, url, h) ==
  \/ /\ "long" \in StatResults
     /\ url # NULL
     /\ make_fixed_response(c, r, 500, h)
  \/ /\ stage' = [stage EXCEPT ![r] = "stat"]
     /\ io' = [io EXCEPT ![r].doc = url]
     /\ heap' = h
     /\ UNCHANGED <<response, writeq>>

\* nread > 0: whatever the bytes were, one chain is started.
on_read(c, r, k) ==
  /\ k.valid
  /\ phase \in Serving
  /\ handle[c] = "open"
  /\ MaySend(c)
  /\ stage[r] = "none"
  /\ llhttp_execute(c, r, k)
  /\ process_request(c, r, ParsedRequest(c, r, k).url, ParsedHeap(c, r, k))
  /\ UNCHANGED <<phase, pool, handle, sock, wire, fault>>

\* nread > 0 and llhttp refuses the bytes, after the callbacks it has run.
on_read_parse_error(c, r, k) ==
  /\ ~k.valid
  /\ phase \in Serving
  /\ handle[c] = "open"
  /\ MaySend(c)
  /\ stage[r] = "none"
  /\ llhttp_execute(c, r, k)
  /\ stage' = [stage EXCEPT ![r] = "done"]
  /\ heap' = ParsedHeap(c, r, k)
  /\ uv_close(c, "closing")
  /\ UNCHANGED <<phase, pool, response, io, writeq, wire, fault>>

\* nread < 0, end of file or an error; or nread = 0, when libuv had nothing to
\* read after all, which also closes and keeps the read buffer.
on_read_close(c) ==
  /\ phase \in Serving
  /\ handle[c] = "open"
  /\ \/ MayClose(c) /\ UNCHANGED heap
     \/ EarlyClose /\ heap' = heap \cup {<<"rbuf", c>>}
  /\ uv_close(c, "closing")
  /\ UNCHANGED <<phase, pool, parser, fields, chain, wire, fault>>

-----------------------------------------------------------------------------
(* File-system callbacks.  fs_req->data is the client, and each callback   *)
(* begins by reading through it.                                           *)

Callback(c, r, s) == stage[r] = s /\ c = conn[r] /\ mem[c] = "live"

check_path_async_tries_mutant(q) == q
check_path_async_tries(q) == [q EXCEPT !.tries = 0]

check_path_async(c, r, found) ==
  /\ Callback(c, r, "stat")
  /\ io[r].doc = NULL => found = "missing"
  /\ CASE found = "missing" ->
            make_fixed_response(c, r, 404, heap) /\ UNCHANGED request
       [] found = "dir" ->
            /\ request' = [request EXCEPT ![c] = check_path_async_tries(@)]
            /\ io' = [io EXCEPT ![r].probe = 0]
            /\ stage' = [stage EXCEPT ![r] = "default"]
            /\ UNCHANGED <<response, heap, writeq>>
       [] found = "file" ->
            found_and_sendfs_req(c, r) /\ UNCHANGED request
  /\ UNCHANGED <<phase, pool, net, conn, wire, fault>>

Exhausted_mutant(tries) == tries > DefCnt
Exhausted(tries) == tries >= DefCnt

\* The next candidate is built from request.url as it is now.
check_default_files_async(c, r, found) ==
  /\ Callback(c, r, "default")
  /\ IF found = "found"
     THEN found_and_sendfs_req(c, r) /\ UNCHANGED request
     ELSE LET tries == request[c].tries + 1
          IN  /\ request' = [request EXCEPT ![c].tries = tries]
              /\ IF Exhausted(tries)
                 THEN make_fixed_response(c, r, 404, heap)
                 ELSE \/ /\ found = "long"
                         /\ make_fixed_response(c, r, 500, heap)
                      \/ /\ found = "missing"
                         /\ io' = [io EXCEPT ![r].doc = request[c].url,
                                             ![r].probe = tries]
                         /\ UNCHANGED <<stage, response, heap, writeq>>
  /\ UNCHANGED <<phase, pool, net, conn, wire, fault>>

sendfd_mutant(c) == Fds

\* uv_fileno fails on a closing handle and leaves sendfd uninitialised.
sendfd(c) == IF handle[c] = "open" THEN {sock[c]} ELSE Fds \cup {NULL}

send_file_context(c, r, opened) ==
  /\ Callback(c, r, "open")
  /\ IF opened
     THEN /\ \E fd \in sendfd(c) :
               io' = [io EXCEPT ![r].fd = fd, ![r].len = response[c].size]
          /\ flags' = [flags EXCEPT ![c] = CLIENT_SET_IN_REF(@)]
          /\ response' = [response EXCEPT ![c].file = r, ![c].path = NULL]
          /\ heap' = (heap \ {<<"path", response[c].path>>}) \cup {<<"file", r>>}
          /\ stage' = [stage EXCEPT ![r] = "sendfile"]
     ELSE /\ response' = [response EXCEPT ![c].path = NULL]
          /\ heap' = heap \ {<<"path", response[c].path>>}
          /\ stage' = [stage EXCEPT ![r] = "done"]
          /\ UNCHANGED <<io, flags>>
  /\ UNCHANGED <<phase, active, mem, net, request, conn, writeq, wire, fault>>

\* A worker writes to the descriptor it was given, whoever has it by now.
uv_fs_sendfile(r, sent) ==
  /\ stage[r] = "sendfile"
  /\ stage' = [stage EXCEPT ![r] = "sent"]
  /\ wire' = [c \in Clients |->
                IF sock[c] = io[r].fd /\ io[r].fd # NULL
                THEN Append(wire[c], [kind |-> IF sent = "full" THEN "body" ELSE "part",
                                      req  |-> r])
                ELSE wire[c]]
  /\ UNCHANGED <<phase, pool, net, fields, conn, io, writeq, heap, fault>>

StaleFile(c) == <<"file", response[c].file>> \notin heap

\* fs_req->result, the number of bytes sent, is not looked at.
final_sendfile(c, r) ==
  /\ Callback(c, r, "sent")
  /\ ~StaleFile(c)
  /\ heap' = heap \ {<<"file", response[c].file>>}
  /\ flags' = [flags EXCEPT ![c] = CLIENT_CLEAR_IN_REF(@)]
  /\ stage' = [stage EXCEPT ![r] = "close"]
  /\ UNCHANGED <<phase, active, mem, net, fields, conn, io, writeq, wire, fault>>

on_close_sendfile(r) ==
  /\ stage[r] = "close"
  /\ stage' = [stage EXCEPT ![r] = "done"]
  /\ UNCHANGED <<phase, pool, net, fields, conn, io, writeq, heap, wire, fault>>

-----------------------------------------------------------------------------
(* Stopping.                                                               *)

signal_handler ==
  /\ phase = "running"
  /\ phase' = "stopping"
  /\ UNCHANGED <<pool, net, fields, chain, heap, wire, fault>>

walk_cb_mutant(h) == h
walk_cb(h) == IF h = "open" THEN "closing_null" ELSE h

\* The first uv_run is over: the timer is closed and walk_cb closes every
\* handle that is not closing, without a callback.
uv_walk ==
  /\ phase = "stopping"
  /\ phase' = "draining"
  /\ handle' = [c \in Clients |-> walk_cb(handle[c])]
  /\ sock' = [c \in Clients |-> NULL]
  /\ UNCHANGED <<pool, parser, fields, chain, heap, wire, fault>>

Quiet_mutant == \A c \in Clients : handle[c] \in {"none", "closed"}

\* The second uv_run returns when no operation and no closing handle is left.
Quiet ==
  /\ \A r \in Requests : stage[r] \in {"none", "done"}
  /\ \A c \in Clients : handle[c] \in {"none", "closed"}

cleanup_resources ==
  /\ phase = "draining"
  /\ Quiet
  /\ phase' = "exited"
  /\ release(active)
  /\ UNCHANGED <<flags, net, fields, chain, wire, fault>>

-----------------------------------------------------------------------------
(* Undefined behaviour: the callback that is due would do one of these.    *)

UsesFreedClient(r) ==
  stage[r] \in {"stat", "default", "open", "sent"} /\ mem[conn[r]] = "freed"

FreesStaleBuf(r) ==
  \E ok \in BOOLEAN :
    /\ conn[r] # NULL
    /\ stage[r] = "header" \/ (stage[r] = "fixed" /\ ok)
    /\ WriteDone(conn[r], r, ok)
    /\ StaleBuf(conn[r])

OpensNullPath(r) ==
  /\ stage[r] = "header"
  /\ WriteDone(conn[r], r, TRUE)
  /\ response[conn[r]].path = NULL

ClosesStaleFile(r) ==
  stage[r] = "sent" /\ mem[conn[r]] = "live" /\ StaleFile(conn[r])

undefined_behaviour(r) ==
  /\ \/ UsesFreedClient(r) /\ fault' = "use_after_free"
     \/ FreesStaleBuf(r)   /\ fault' = "stale_buf"
     \/ OpensNullPath(r)   /\ fault' = "null_path"
     \/ ClosesStaleFile(r) /\ fault' = "stale_file"
  /\ UNCHANGED <<phase, pool, net, fields, chain, heap, wire>>

-----------------------------------------------------------------------------

Peer(c) ==
  \/ on_connection(c)
  \/ \E r \in Requests, k \in Chunks : on_read(c, r, k) \/ on_read_parse_error(c, r, k)
  \/ on_read_close(c)

WriteCallback(c, r) ==
  \E ok \in BOOLEAN : on_final_fix_response(c, r, ok) \/ open_send_file(c, r, ok)

FsCallback(c, r) ==
  \/ \E found \in StatResults \ {"long"} : check_path_async(c, r, found)
  \/ check_path_async(c, r, "missing") /\ io[r].doc = NULL
  \/ \E found \in ProbeResults : check_default_files_async(c, r, found)
  \/ \E opened \in OpenResults : send_file_context(c, r, opened)
  \/ final_sendfile(c, r)

\* A write that is neither taken nor cancelled may fail, but need not.
WriteDue(c, r) == Written(c, r) \/ handle[c] # "open"

Worker(r) == (\E sent \in SendResults : uv_fs_sendfile(r, sent)) \/ on_close_sendfile(r)

Next ==
  /\ fault = "none"
  /\ \/ \E c \in Clients : \/ Peer(c) \/ flush(c) \/ on_close(c) \/ closed_silently(c)
                           \/ \E r \in Requests : WriteCallback(c, r) \/ FsCallback(c, r)
     \/ \E r \in Requests : Worker(r) \/ undefined_behaviour(r)
     \/ cleanup_freeList
     \/ signal_handler \/ uv_walk \/ cleanup_resources

Spec == Init /\ [][Next]_vars

\* libuv runs every callback that is due, the worker threads finish, the timer
\* ticks, and a signal that was caught is followed by the rest of webserver().
Fairness ==
  /\ \A c \in Clients :
       /\ WF_vars(fault = "none" /\ (on_close(c) \/ closed_silently(c)))
       /\ \A r \in Requests :
            /\ WF_vars(fault = "none" /\ FsCallback(c, r))
            /\ WF_vars(fault = "none" /\ WriteDue(c, r) /\ WriteCallback(c, r))
  /\ \A r \in Requests :
       /\ WF_vars(fault = "none" /\ Worker(r))
       /\ WF_vars(fault = "none" /\ undefined_behaviour(r))
  /\ WF_vars(fault = "none" /\ cleanup_freeList)
  /\ WF_vars(fault = "none" /\ (uv_walk \/ cleanup_resources))

\* Peers owe nothing, not even to read what they are sent.
FairSpec == Spec /\ Fairness

\* Peers that read: the kernel finds room for what is written.
ReadingSpec == FairSpec /\ \A c \in Clients : WF_vars(fault = "none" /\ flush(c))
=============================================================================
