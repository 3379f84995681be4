-------------------------- MODULE WebServerProperties --------------------------
(***************************************************************************)
(* What the request pipeline of WebServer promises, and to whom: first     *)
(* whatever the peers do, then to peers that send one request after the    *)
(* other, then what the repository says of it and the code does not do.    *)
(* (Sending says which peers: serial, lockstep or pipelined.)              *)
(***************************************************************************)
EXTENDS WebServer

RequestType  == [url : RequestP, query : RequestP, body : RequestP, tries : Nat]
ResponseType == [buf : RequestP, path : RequestP, size : RequestP, file : RequestP]
IoType       == [doc : RequestP, probe : 0..(DefCnt - 1), fd : Fds \cup {NULL},
                 len : RequestP, code : {0, 200, 404, 500}]
Objects      == Kinds \X (RequestP \cup Clients)

\* Every variable keeps its type; in particular the number of the default file
\* being probed, which indexes web_config->defaults, stays below def_cnt.
TypeOK ==
  /\ phase \in Phases
  /\ active \subseteq Clients
  /\ mem \in [Clients -> {"absent", "live", "freed"}]
  /\ flags \in [Clients -> SUBSET Flags]
  /\ handle \in [Clients -> Handles]
  /\ sock \in [Clients -> Fds \cup {NULL}]
  /\ parser \in [Clients -> [at : {"idle", "line", "url"}, ended : Nat]]
  /\ request \in [Clients -> RequestType]
  /\ response \in [Clients -> ResponseType]
  /\ conn \in [Requests -> Clients \cup {NULL}]
  /\ stage \in [Requests -> Stages]
  /\ io \in [Requests -> IoType]
  /\ writeq \in [Clients -> Seq(Requests)]
  /\ heap \subseteq Objects
  /\ wire \in [Clients -> Seq(Event)]
  /\ fault \in Faults

-----------------------------------------------------------------------------
(* Whatever the peers do.                                                  *)

\* activeClientList holds exactly the allocated clients, so that neither the
\* timer nor on_close nor cleanup_resources can free a block twice or lose one.
ActiveExact == \A c \in Clients : c \in active <=> mem[c] = "live"

\* A client_t outlives the uv_tcp_t inside it and every write queued on it:
\* libuv never touches a handle whose memory on_close, the timer or
\* cleanup_resources has given back, nor runs a write callback on a freed client.
HandleOutlived ==
  \A c \in Clients :
    /\ handle[c] \in {"open", "closing", "closing_null"}
         => mem[c] = "live" /\ "IN_USE" \in flags[c]
    /\ writeq[c] # <<>> => handle[c] \in {"open", "closing", "closing_null"}

\* A live client's request.url is NULL or allocated, whatever order URLs, parts
\* of URLs and callbacks come in; and it is not NULL when
\* check_default_files_async builds the next candidate from it.
UrlUsable ==
  \A c \in Clients : mem[c] = "live" =>
    /\ request[c].url = NULL \/ <<"url", request[c].url>> \in heap
    /\ (\E r \in Own(c) : stage[r] = "default") => request[c].url # NULL

\* A client is freed under its own sendfile only after another sendfile of the same
\* connection has ended: IN_REF is one bit, and only the other's final_sendfile,
\* which clears it for both (webserver.c:394), lets on_close or the timer free it.
UnpinnedByAnother ==
  \A r \in Requests :
    stage[r] \in {"sendfile", "sent"} /\ mem[conn[r]] = "freed" =>
      \E q \in Own(conn[r]) \ {r} : stage[q] \in {"close", "done"} /\ io[q].len # NULL

\* Whatever happens, clients enter and leave activeClientList as ClientPool says.
Lifecycle == INSTANCE ClientPool WITH
  members    <- active,
  used       <- {c \in active : "IN_USE" \in flags[c]},
  referenced <- {c \in active : "IN_REF" \in flags[c]},
  over       <- phase \in {"draining", "exited"}

ImplementsPool == Lifecycle!Spec

\* A file opened by send_file_context is closed before webserver() returns.
FilesClosedAtExit ==
  phase = "exited" /\ fault = "none" => \A r \in Requests : <<"file", r>> \notin heap

\* While the server serves, somebody will free a client that is closed and still
\* allocated: the timer finds its flags clear, or IN_REF is set and a sendfile of its
\* own is under way, whose callback clears the bit.
NeverAbandoned ==
  \A c \in Clients : handle[c] = "closed" /\ mem[c] = "live" /\ phase \in Serving =>
    /\ "IN_USE" \notin flags[c]
    /\ "IN_REF" \in flags[c] => \E r \in Own(c) : stage[r] \in {"sendfile", "sent"}

\* A client whose connection is closed is eventually freed, by on_close or, when
\* on_close found it referenced, by the timer or cleanup_resources.
ClosedIsReclaimed ==
  \A c \in Clients :
    handle[c] = "closed" ~> (mem[c] = "freed" \/ fault # "none")

\* After a signal webserver() returns, even with peers that read nothing and with
\* file operations under way.
ShutdownCompletes == phase = "stopping" ~> (phase = "exited" \/ fault # "none")

-----------------------------------------------------------------------------
(* Serial peers, whose connections may break at any moment.                *)

\* IN_REF, a single bit, says exactly that a sendfile is under way.
ReferenceExact ==
  \A c \in Clients : mem[c] = "live" =>
    ("IN_REF" \in flags[c] <=> \E r \in Own(c) : stage[r] \in {"sendfile", "sent"})

\* The client of a sendfile is not freed before final_sendfile has used it.
PinnedSendfile ==
  \A r \in Requests : stage[r] \in {"sendfile", "sent"} => mem[conn[r]] = "live"

\* A broken connection can make a file-system callback read a freed client, and
\* nothing else: no buffer is freed twice, no path is opened after it was
\* released, no descriptor closed twice.
FaultConfined == fault \in {"none", "use_after_free"}

-----------------------------------------------------------------------------
(* Peers that do not break off: serial ones for NoFault, NothingLeaked and *)
(* EveryMessageAnswered, lockstep ones, too, for the other three.          *)

\* No callback runs into undefined behaviour.
NoFault == fault = "none"

\* A client that is freed while the server serves leaves nothing behind it: url,
\* response header, path and file have all been released by then.
NothingLeaked ==
  \A c \in Clients : mem[c] = "freed" /\ phase \in Serving =>
    \A r \in Own(c), k \in Kinds : <<k, r>> \notin heap

\* What goes out on the connections, step by step, is an HttpExchange: answers to
\* the connection's own requests only, a whole page or a header directly followed
\* by its own body, no request answered twice, nothing before it was asked for.
Exchange == INSTANCE HttpExchange WITH ended <- [c \in Clients |-> parser[c].ended]

ImplementsExchange == Exchange!Spec

\* The file that is opened for a request is the one its own URL names, and the
\* length given to uv_fs_sendfile is that file's.
OwnDocument ==
  \A r \in Requests : stage[r] \in {"sendfile", "sent"} =>
    io[r].doc = r /\ io[r].len = r

\* A directory is answered 404 only when its last default file was not found.
AllDefaultsTried ==
  [][\A r \in Requests :
       stage[r] = "default" /\ stage'[r] = "fixed" /\ io'[r].code = 404
         => io[r].probe = DefCnt - 1]_vars

\* What the peer has got whole: pages, and files behind their headers.
Whole(c) == SelectSeq(wire[c], LAMBDA e : e.kind \in {"page", "body"})

\* The requests that the code gives up after the 200 header: the file was found and
\* then could not be opened (webserver.c:402).
Unopened(c) ==
  {r \in Own(c) : stage[r] = "done" /\ io[r].code = 200 /\ io[r].fd = NULL}

\* Every message is answered by a whole page or a whole file, unless the server is
\* stopped or the file cannot be opened: of serial peers that send a request in one
\* piece, and with sendfiles that are not cut short.
EveryMessageAnswered ==
  \A c \in Clients, n \in 1..Cardinality(Requests) :
    parser[c].ended >= n ~>
      (Len(Whole(c)) + Cardinality(Unopened(c)) >= n \/ phase # "running")

-----------------------------------------------------------------------------
(* What the repository says and the code does not do.                      *)

\* webserver.h: "Use bit 0 for in_use, bit 1 for in_ref": a client that a pending
\* operation refers to is not freed.
ReferencedClientKept ==
  \A r \in Requests :
    stage[r] \in {"stat", "default", "open", "sendfile", "sent"} => mem[conn[r]] # "freed"

\* webserver.c: "find file will send the file to user": a file that was found and
\* opened is sent whole before its answer is over.
WholeFileSent ==
  \A r \in Requests :
    stage[r] = "done" /\ io[r].fd # NULL => OnWire(conn[r], r, {"body"})

\* test.py: GET / is answered 200 when the default file exists.
IndexFound == \A r \in Requests : io[r].code \in {0, 200}
=============================================================================
