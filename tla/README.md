# MingleJet: a verification project

MingleJet is a small static HTTP server in C over libuv and llhttp. This directory holds TLA+ modules
that model it, TLC configurations that check them on small instances, and proofs that TLAPS checks.
File and line references are to the repository (`src/webserver.c`, `src/utils.c`, `src/main.c`,
`include/`).

## 1. Inventory

One libuv loop thread runs every callback to completion; libuv's worker threads execute the
file-system calls in between. All state of a connection hangs off one heap block, `client_t`.

| component | where | state | operations | what is hard | what makes it correct |
|---|---|---|---|---|---|
| Client pool | `webserver.c` 202-241, 693-700, 750-788; `webserver.h` 51-81 | `activeClientList`, `client_t.flags` (IN_USE, IN_REF), the timer | `createClient`, `on_connection`, `on_close`, `cleanup_freeList`, `free_client`, `cleanup_resources` | two places free a client; callbacks hold its address | no client is freed twice, before its handle, or while referenced; none is lost |
| Request pipeline | `webserver.c` 338-574, 577-748 | `request_t`, `response_t`, one pending operation per request | `on_read`, llhttp callbacks, `process_request`, the stat / default / header / open / sendfile / close chain | several chains of one connection share one `response_t`; the peer may leave at any moment | each request gets its own document, whole, on its own connection; everything is released |
| Shutdown | `webserver.c` 790-800, 873-890 | libuv's stop flag, the handles | `signal_handler`, `walk_cb`, second `uv_run`, `cleanup_resources` | operations under way when the signal comes | it ends, with files closed and memory released |
| Startup | `webserver.c` 813-870, `main.c` | `web_config`, the handles | `webserver`, `main` | error returns with handles initialised, NULL configuration | the return value and what is left behind |
| Path normaliser | `utils.c` 20-96 | input and output index, output buffer | `validate_and_normalize_path` | the output index goes up and down without tests | the index stays inside the buffer |
| Default files | `webserver.c` 450-574 | the path asked for, `default_filename_tries` | `process_request`, `check_path_async`, `check_default_files_async` | two functions build the names from different strings, one without looking at the length | every name lies in the directory that was found |
| Active list | `utlist.h` macros used in `webserver.c` | `head`, `next` | `LL_APPEND`, `LL_DELETE`, `LL_FOREACH_SAFE` | deletion during iteration | it is the set the pool believes it is |
| Query parameters | `webserver.c` 589-613, `utarray.h` | array of pairs | `parse_get_url` | nested `strtok_r` / `strtok` | pairs in order |
| Response header | `webserver.c` 48-336 | buffer, remaining length | `make_response_header`, look-ups | arithmetic on the remaining length | it fits |
| libuv, llhttp | external | | | order and status of callbacks | environment |

Interaction: a read callback parses (llhttp calls `on_url`, `on_body`) and starts a chain; every
operation of the chain carries the client's address in `req->data`; write callbacks and file-system
callbacks continue the chain; `on_close` and the timer free clients by looking at the two flags only;
a signal stops the loop, after which `webserver()` closes all handles, drains the loop and frees the
clients that are left.

## 2. Plan

1. `WebServer`: pool, pipeline and shutdown together, since the hazards lie between them. *Done.*
2. `WebServerProperties`, `MCWebServer`: properties and instances. *Done.*
3. `WebServerPoolProofs`: type correctness, the pool's safety, and that `WebServer` implements
   `ClientPool`. *Done.*
4. `PathNormalizer`, `PathReference`: utils.c over all short inputs. *Done.*
5. `Startup`: `webserver()` and `main` around the loop, return values, handles left open. *Done.*
6. `ClientPool`, `HttpExchange`: what the pool and the pipeline promise, implemented by `WebServer`.
   *Done.*
7. `ActiveList`: the `utlist.h` macros pointer by pointer, a second implementation of `ClientPool`. *Done.*
8. `QueryParams`, `ResponseHeader`, `CandidatePaths`: the functions that work on text. *Done.*
9. `WebServerRequestProofs`, `WebServerWaitingProofs`, `WebServerPatientProofs`: the pipeline with any
   peers, with serial and lockstep peers, and with such peers that do not break off. *Done.*
10. `ActiveListProofs`, `StartupProofs`, `PathProofs`, `TextProofs`: the other components. *Done.*

Nothing of the plan is left: every safety invariant and every action property that a passing run checks has
a theorem.

```
MCWebServer --EXTENDS--> WebServerProperties --EXTENDS--> WebServer
                                |--INSTANCE--> ClientPool <--INSTANCE-- ActiveList
                                `--INSTANCE--> HttpExchange
WebServerPoolProofs <- WebServerRequestProofs <- WebServerWaitingProofs <- WebServerPatientProofs
                                                                                (all by EXTENDS)
MCText --EXTENDS--> PathReference (PathNormalizer), QueryParams, ResponseHeader, CandidatePaths
PathProofs --EXTENDS--> PathReference (PathNormalizer)
TextProofs --EXTENDS--> PathProofs, QueryParams, ResponseHeader, CandidatePaths
StartupProofs --EXTENDS--> StartupProperties --EXTENDS--> Startup
ActiveListProofs --EXTENDS--> ActiveList
```

## 3. The model

### WebServer

A *request* `r` is one call of `process_request` and the chain of callbacks that follows it;
`stage[r]` names the operation it waits for. Heap objects are pairs `<<kind, r>>`, and a pointer held
by `request_t` or `response_t` is the `r` of the object it points to, or `NULL`. So a second request
on a connection overwrites the pointers of the first one exactly as the code does. `conn[r]` is the
`fs_req->data` / `write_req->data` of the chain. `io[r]` holds the arguments of the pending operation:
the document (`doc`, `probe`: the URL and the number of the default file in the path), the descriptor
and length given to `uv_fs_sendfile`, and the answer's code.

| variable | code |
|---|---|
| `active`, `mem`, `flags` | `activeClientList`, the `client_t` block, `client->flags` |
| `handle`, `sock`, `writeq` | `client->handle` as libuv sees it, its descriptor, its write queue |
| `parser` | `client->parser`: between messages, before the URL, after it; messages ended |
| `request`, `response` | `client->request`, `client->response` |
| `stage`, `io`, `conn` | the pending `uv_fs_t` / `uv_write_t`, its arguments and its `data` |
| `heap` | url, query, body, response buffer, path, open file, read buffer |
| `wire` | history of what went out on each connection |
| `phase` | first `uv_run`, asked to stop, second `uv_run`, returned |
| `fault` | the undefined behaviour the program has run into; nothing happens after it |

Actions have the names of the functions they model. `on_read` is `on_read` with llhttp's callbacks and
`process_request`, since they run in one go; `on_read_parse_error` and `on_read_close` are its early
returns. External actions: `flush` (the kernel takes the oldest queued write), `uv_fs_sendfile` (a
worker writes to the descriptor number it was given, whichever connection has it by now),
`closed_silently` (the end of a close without callback).

Facts about libuv that the model relies on (1.48, the version named in README.md): write callbacks of a
stream run in order and before its close callback, the cancelled ones with an error; `uv_close` frees
the descriptor at once; `uv_write` on a closed stream fails without a callback; `uv_fileno` fails on a
closing handle and leaves its output alone; `nread = 0` means that nothing could be read; the second
`uv_run` returns when no operation and no closing handle is left.

What C leaves undefined is not given a meaning: `undefined_behaviour` records which mistake the due
callback makes (`use_after_free`: a file-system callback whose client is freed; `stale_buf`:
`response.buf` is NULL or freed; `null_path`: `uv_fs_open(NULL)`; `stale_file`: `open_file` was closed
before) and the behaviour stops there.

Abstractions: allocation does not fail; header fields, methods and versions do not matter to the chain;
a path is a document identity, too long or not; a file's content is its request's identity.

### ClientPool and HttpExchange

Two abstract specifications. `ClientPool` has the sets `members`, `used`, `referenced` and the flag
`over`: a client enters in use, and leaves when it is neither in use nor referenced, or after the stop.
`WebServerProperties` maps `members` to `active` and the two bits to the other sets (`Lifecycle`);
`ActiveList` maps `members` to what is linked from `head`. So the same promise is checked of the set
that the pipeline works on and of the list that the code keeps. `HttpExchange` sees the connections from
the wire: a message is answered once, on its own connection, by one page or by one header that is
followed directly by its own body. `WebServer` implements it (`Exchange`) when its peers ask again only
after an answer.

### ActiveList

`head`, `next` and the local variables of the macros (`_tmp` is `walk`, `el` and `tmp` of the loop are
`elt` and `tmp`), one step per turn of a loop. `createClient` appends; `on_close`, `cleanup_freeList` and
`cleanup_resources` delete and free. A freed block reads as `JUNK` and `calloc` may return it again. Only
one callback runs at a time (`pc`), but the timer's sweep deletes the element it stands on.
`CLIENT_SET_IN_REF` and `CLIENT_CLEAR_IN_REF` may come at any time between callbacks, which is more than
the pipeline does.

### QueryParams, ResponseHeader, CandidatePaths

`QueryParams` is the loop of `parse_get_url`: the outer `strtok_r` with `saveptr`, the inner `strtok` on
the field it found, both cutting `url_copy`, and `utarray_push_back` with the growth of
`utarray_reserve`. `strtok_r` is glibc's. Characters are "&", "=", and letters; nothing is decoded.
`ParamsAgree` says which pairs belong in the array by places of the query, where fields and their parts
begin and end, and it does so at every turn of the loop, not only at its end.

`ResponseHeader` follows `cnt` and `len` through the four calls of `snprintf`: the code takes the running
total from `len` each time, so `len` shrinks too fast and is lower than the room that is left. No header
the program makes comes near the 2048 characters, which is what `HeaderWhole` shows; with a buffer of
128 it fails. Parts of the header are numbers of characters: `mime_types` gives the length of each content
type and `status_string` that of the phrase of each of the three codes the server answers with (200, 404
and 500). The other codes of the status tables are never looked up.

`CandidatePaths` builds the strings given to `uv_fs_stat` in a buffer of `PathBuffer` characters. It
does one request by itself: a later read that replaces the URL in between is `WebServer`'s matter. Two
cases that the property leaves out go wrong, and TLC finds both when its condition is dropped: with a
URL of less than two characters other than "/" (empty after `GET /..`, "a" after `GET /..a`) the second
default file is looked for under a name run together with what comes before it, as `./distindex.htm`
beside `www_root`, since webserver.c:467 tests the length of the URL and webserver.c:525 that of the
whole path; and for a directory whose path just fills the buffer, webserver.c:529 cuts off the whole
default name and the directory is found as its own default file.

### PathNormalizer and PathReference

One behaviour is one call of `validate_and_normalize_path`: `path` the argument, `i` the next character
(from 1), `output` the buffer below `out_len`, one action per branch of the loop: `separator`, `parent`
(".."), `here` ("./"), `character`, `finish`. `Len(output)` is `out_len`; an index below 0 ends the
pass with `result = "undefined"`. That happens when one ".." follows another directly at the root
(`/....`), and the run `ParentsAboveRoot` shows it. `IndexStaysInBuffer` says that it happens to no
argument whose every ".." ends its segment, and `TypeOK` bounds the output from above only. The alphabet
is what the code tells apart: "/", "\\", "." and names.
`PathReference` says what the result should be: `Walk` goes through the segments of the argument, a name
leads one directory down and ".." one back, and `Reference` is where it ends. `Ordinary` says for which
arguments. The two differ on purpose outside `Ordinary`:
the code takes "//" back to the root, drops a "." that ends a name before "/", and treats ".." inside a
name as a segment. At the root ".." leaves an empty output, which is returned when nothing follows it,
although the comment at utils.c:57 excludes the root; `on_url` stores that empty string as the URL.

### Startup

`webserver()` and `main()` as a sequence of parts (`pc`), with signals arriving between any two of
them: `arguments`, `signal_handlers`, `bind`, `listen`, the first `uv_run`, `close_timer`, `uv_walk`,
the second `uv_run` (`finish_close`, `dropped`, `drained`), `main`. `handle` has the two signal
handles, the server and the timer; connections belong to `WebServer`, where the same shutdown is
modelled around them. `config` is the argument and `web_config` the static pointer, which stays NULL
unless a configuration is given. A signal is `pending` between libuv's handler and its dispatch; a
closing handle waits for it; a signal without a handler kills the process. `uv_close` aborts the program
(`pc = "aborted"`) when one of its handles is not open, which is libuv's assertion. Three divergences from
what the repository says are in the model, without a run of their own: a NULL configuration
(webserver.h:110 promises defaults) runs into `pc = "fault"`; after a bind that is refused for another
reason than an address in use (webserver.c:849: "Bind server to specified address and port") the server
announces its configured port and has `address = "any_port"`, since the results of `uv_ip4_addr` and
`uv_tcp_bind` are not looked at; and after a shutdown by a signal `ret` is `"active"`, the non-zero result
of a `uv_run` that was stopped with handles active (webserver.h:112: "Returns 0 upon successful execution").

### What peers may do

`Sending` says when a peer sends its next request: `pipelined`, at any time; `lockstep`, once it has
the whole answer, when the worker that sent it may not have reported back yet; `serial`, once the
server too has run the last callback that uses the client (only `on_close_sendfile` may still be due). `EarlyClose` lets a connection break before it is answered.
`Chunks` is what one read may carry, from whole requests to parts of URLs, two messages or bytes that
llhttp refuses.

## 4. Runs

Every run sets `CHECK_DEADLOCK FALSE`: the program exits, stops at a fault, or the function returns.

| run | instance | shows |
|---|---|---|
| `AnyBytes` | `MCWebServer`: 1 connection, 2 reads, any bytes, pipelined, early close, 1 default file, nobody need read | `UrlUsable`; `ClosedIsReclaimed`, `ShutdownCompletes` |
| `AnyPeers` | 2 connections, 2 requests, pipelined, early close | `TypeOK` (with the bound of the index into `defaults[]`), `ActiveExact`, `HandleOutlived`, `FilesClosedAtExit`, `NeverAbandoned`, `UnpinnedByAnother`, `ImplementsPool` |
| `BrokenConnections` | 2 connections, 2 requests, serial, early close | `ReferenceExact`, `PinnedSendfile`, `FaultConfined` |
| `OneByOne` | 2 connections, 2 requests, serial, peers that read, no early close | `NoFault`, `NothingLeaked`, `EveryMessageAnswered` |
| `PromptPeers` | 2 connections, 3 requests, lockstep, short sends, paths that are too long | `ImplementsExchange`, `OwnDocument`, `AllDefaultsTried` |
| `FreedWhilePending` | serial, early close | violation: a client is freed while its stat or open is under way |
| `ShortSend` | serial | violation: a short sendfile passes for a complete one |
| `SplitRequest` | serial, the URL comes in the second read | violation: `GET /` is answered 404 |
| `ParentsAboveRoot` | `MCText`: paths up to 4 characters | violation: the output index goes below 0 |
| `ListSteps` | `ActiveList`: 4 clients | `PointersLive`, `NoneLost`, `SweepComplete`, `CallbackReturns`, `ImplementsPool` |
| `Text` | `MCText`: paths up to 9 characters (up to 6 with "\\") in a buffer of 7 | `TypeOK` (the output finds room), `NoEmptySegment`, `OnlyLongIsRefused`, `IndexStaysInBuffer`, `AgreesWithReference` |
| | queries up to 7 characters, and of up to 9 fields | `ParamsAgree`, `SlotsSuffice` |
| | file names of up to 4 tokens, lengths of 1 to 19 digits | `HeaderWhole`, `MimeByName` |
| | URLs up to 9 characters, a buffer of 11, 3 default files | `DefaultsInDirectory` |
| `StartStop` | `StartupProperties`: with and without a loop and a configuration, every outcome of bind and listen, both signals at any time | `ClosedOnce`, `SignalEndsProgram`, `StoppedLoopCloses` |

Bounds. Two requests are enough for every overlap of two chains on one connection, which is where
shared fields are overwritten; two connections with two descriptors are enough for a descriptor number
to be reused by another connection; the third request of `PromptPeers` is a second one on a
connection whose neighbour is busy. Two default files give a first, a last and an exhausted count.
Clients, requests and descriptors are symmetric in the safety runs; the runs with liveness use no
symmetry. Nine characters hold three segments and a "..", so that ".." is met at the root, one level
and two levels below it, and before and after other segments; 7 places are fewer than the longest
arguments need, so that the buffer runs full at each of the three places that append. Four clients give a
list with a head, a last and two inner elements, of which a sweep can delete neighbours. Nine fields make the array of parameters grow twice, from 0 to 8 and to 16. 19
digits are the longest length of 63 bits. A buffer of 11 cuts names, whole names, and URLs.
`Startup` has no bound but that a caught signal is pending once: `StartStop` covers it completely.

`EveryMessageAnswered` counts whole pages and whole files, and excuses only a server that has been asked
to stop and a file that was found and could not be opened (`Unopened`). Of such a file the peer gets the
200 header and nothing more, which is not what webserver.c:496 says ("find file will send the file to
user"). It is about requests that come in one piece; what happens to the others is `SplitRequest`.

Under `lockstep` peers the code can still run into a fault: the next chain may reach
`send_file_context` while the completion of the previous `uv_fs_sendfile` is on its way to the loop,
and then `open_file` and IN_REF are those of the wrong request. `NoFault`, `NothingLeaked`, `ReferenceExact`,
`PinnedSendfile` and `FaultConfined` are therefore claimed for serial peers only, which is more than waiting
for the answer. What is left of `PinnedSendfile` when requests are pipelined is `UnpinnedByAnother`: with two
sendfiles of one connection under way, the first `final_sendfile` clears the one IN_REF bit, and a close
then frees the client under the second (TLC finds it when `PinnedSendfile` is checked on `AnyPeers`).

Fairness (`Fairness`): libuv delivers completions, closes finish, workers finish, the timer ticks, and a
caught signal is followed by the rest of `webserver()`. Nothing is assumed of peers and signals; a
write that is neither taken nor cancelled may stay pending for ever. `ReadingSpec` adds peers that
read; only `EveryMessageAnswered` needs it (the safety properties of `OneByOne` hold with or without it).
`Startup` assumes that the program runs on and that the loop dispatches signals and finishes closes;
signals need not come. `ActiveList` assumes that a callback that has begun runs on (`Turn`): there is one
thread.

Known and not checked by a run: `free_client` releases neither `response.path_content` nor
`response.buf`, and the callbacks of cancelled writes do not release `path_content`, so after a signal
during a request they are still allocated when `webserver()` returns (webserver.c:882: "Clean up
resources and close event loop"); `heap` shows them at `phase = "exited"`. In the same way `heap` keeps the
header after a write that failed or was refused (webserver.c:339, 446), the first request's query and body
after the second's (webserver.c:631, 678), and the buffer of a read of nothing (webserver.c:729). With early
closes a worker may write to a descriptor that another connection has by then (webserver.c:405). Two
messages in one read get one answer (webserver.c:746). After a failed `uv_listen` `webserver()` returns
with its signal handles started and a server handle in its own stack frame still in the loop
(webserver.c:859), which `main()` notices as `closed = "busy"` and then exits.

## 5. Proofs

Each theorem holds for every value of the constants its module declares, under the named assumptions
on them (`WebServerAssumption`, `PathAssumption`, `QueriesAssumption`, `FilesAssumption`,
`CandidateAssumption`); TLC evaluates these on the runs' instances. A property with a theorem is checked by the run that section 4 names; the
run shows a small instance and that mistakes in the code would break it, the theorem every instance.

### Any peers

`TypeCorrect`: `TypeOK` is inductive. Its interesting part is that `io[r].probe`, the index into
`defaults[]`, stays below `DefCnt`, although `default_filename_tries` itself does not.

`PoolSafe` (and `ListIsExact`): `ActiveExact` and `HandleOutlived` are inductive together with `TypeOK`:
`on_close` and the timer free only clients whose IN_USE bit is clear, that bit is cleared only by
`on_close`, which runs when the write queue is empty, and `uv_write` queues only on open handles.
`PoolImplemented`: each step of `WebServer` is a step of `ClientPool` or leaves its
four variables alone; a client that is allocated is in the list, so it cannot enter it again.

`UrlIsUsable` holds however URLs, parts of URLs and callbacks are interleaved. The invariant `UrlInv` adds
that a URL pointer always belongs to one of the connection's own reads (`UrlOwned`), and so is freed
with this connection only, and that an operation started with a URL still finds some URL (`UrlSeen`).
`FilesAreClosedAtExit`: a pipelining peer can make the code overwrite `open_file`, so files cannot be told
apart by their pointers. `FileInv` counts instead: a client has no more open files than sendfiles under
way, since each open has started a sendfile and each `final_sendfile` closes one file or is a fault; at
the exit no operation is under way. `ClosedHaveAnOwner` is the safety half of `ClosedIsReclaimed`:
`ClaimInv` says that an IN_REF bit never outlives the sendfiles of its client (the converse is false for
pipelining peers, since the first `final_sendfile` clears the bit of all), and that while the server
serves only `on_close`, which clears IN_USE, ends a close. `UnpinnedOnlyByAnother` is what IN_REF gives
when sendfiles overlap: `PinInv` says that the client of a sendfile under way is live with its bit set,
or another sendfile of the connection has ended (`Pinned`). For this every sendfile that ends must be
recognised as one, by the length it was given, and so `size_content` must have been set before the open
(`SizeKnown`, `LengthSet`).

### Serial and lockstep peers

What the other properties of the pipeline say is not true of peers that pipeline, so the theorems have
hypotheses on the environment, each satisfied by the run that checks the property:

| hypothesis | says | satisfied by |
|---|---|---|
| `WaitingPeers` | a read carries one whole valid request (`WholeRequests`), and the next one is sent when the answer is out (`lockstep` or `serial`) | `PromptPeers` |
| `SerialPeers` | `WholeRequests`, `serial` | `BrokenConnections` |
| `PatientPeers` | `WaitingPeers`, and no connection breaks early | `PromptPeers` |
| `PatientSerialPeers` | `PatientPeers`, `serial` | `OneByOne` |
| `PlainRequests` | no request has a query or a body | `OneByOne` |

`PlainRequests` is needed: `on_url` and `on_body` overwrite `query_param` and `body`, so the second request
of a connection leaks those of the first.

`GetsOwnDocument`, `TriesAllDefaults`: the invariant `WaitInv` says that one chain of a connection is
unfinished (`OneAtATime`) and that the fields of its `client_t` are then that chain's (`InHand`: URL, count
of tries, header buffer, path, size, and under `serial` the open file). None of the parts is inductive
alone: the fields stay the chain's because no other chain of the connection acts, and no other chain
starts because the peer has not seen this one's answer.

`ReferenceIsExact`, `SendfileIsPinned`, `FaultIsConfined` (connections may break at any moment): IN_REF is
one bit, which is enough because of `OneAtATime`. The three are inductive together with `WaitInv`: the
sendfile's client is live because its bit is set, and the bit is right because no other sendfile of that
client is under way. The remaining fault, the use of a freed client in a stat or an open, is what
`FreedWhilePending` shows.

`ExchangeImplemented`: each step of `WebServer` is a step of `HttpExchange` or leaves the wire alone. The
invariant `PatientInv` relates each chain's stage to the last thing on its connection's wire (`Answering`),
and says that a connection stays open, with its own descriptor, for every chain that needs it
(`Connected`): `uv_fs_sendfile` gets the descriptor of the right connection, although it is a number that
may be reused. `NoFaults` follows from `WaitInv`, `RefInv` and `PatientInv`. `LeavesNothing` adds `Held`: what is
allocated for a request belongs to an operation under way, or is the URL of a live client.

### The other components

`ActiveListProofs`. A list is described by the sets that its links keep, not by its order: `IsList(next,
head, M)` says that the links of `M` stay in `M`, that no two of them and not `head` lead to the same
client, and that every set which contains `head` and keeps the links contains all of `M`. Facts about LL_APPEND and LL_DELETE are then facts about sets, and no induction along
the list is needed. `ListInv` has one part per place of the macros (`Appending`, `Deleting`, `Unlinking`,
`Sweeping`), and `SweptSoFar`: a client the sweep will not come to any more keeps its place. It gives
`PointersAreLive`, `NoClientIsLost`, `SweepsAreComplete` and `ListImplementsPool`.

`StartupProofs`. `HandlesClosedOnce`: `StartupInv` adds to the types which handles are open when each part
begins (`Started`), and that between the two closes the timer alone is on its way out (`TimerClosing`): so
`close_timer` and `walk_cb` call `uv_close` on open handles only.

`PathProofs`. `NormalizerTypeCorrect`, `NoSegmentIsEmpty` and `RefusedOnlyIfLong` hold for every
argument and every size of the buffer, `IndexNotNegative` for every argument whose every ".." ends its
segment (for others it is false, see `ParentsAboveRoot`). The invariant adds `KeepsUp` (the
output is never longer than what was read plus the root) and `RootReturns` (an output cut back to
nothing is followed by a separator, which puts the root back, as long as every ".." ends its segment);
without the latter a second ".." could follow the first at out_len = 0. `ParentStops`: the loop that goes
back to the parent's separator stops at one place and inside the buffer.

`NormalizesAsReference`: for ordinary arguments of any length the pass ends with `Reference`. The one
induction over data that this takes is `WalkUnfolds`, that the recursion of `Walk` has a solution, and it is
made by hand from the least number (`LeastNumber`, from `WellFoundedInduction`) for which it has none.
All else is the invariant `PassInv`, that the pass and the walk
keep step: `AtPlace(k, out)` says that after the characters below `k` the output is the directory the walk
has reached there, then what the current segment has so far, and that a separator follows which the ".."
before it has left out. `Descends` says that each directory is its parent with one segment more; so the
separator that `parent` looks for is the one where that last segment began (`Behind`,
`ParentCutsBehind`).

`TextProofs`. `PairsAreExact`: `QueryInv` says that the field at hand is one of `Fields`, cut at its own
end and whole inside, and that the copy is still the query from `saveptr` on (`AtField`), and it carries
`ParamsAgree`. The inner `strtok` may cut the field at hand and nothing behind it, which is why the outer
`strtok_r` finds the next one (`NextPiece`, `NextField`). That the pairs come in order is counted: reading
one field adds at most its own pair to `PairsUpTo` (`OneMorePair`). `SlotsAlwaysSuffice`: the array
of parameters has grown before each copy, for every query. `HeadersAreWhole`: `HeaderInv` bounds
`cnt` from above and `len` from below at each part; `len` loses at most 632 of its 2048 characters to the
repeated subtraction. `PartLengths` bounds the table's lengths and the phrases'. `TypeIsByName`: no extension of the table is a "." or "/",
so the last "." of the path counts only if it is in the file's own name. `DefaultsStayInDirectory`:
the path that is being asked for is the directory's, one "/" and a default's name, whichever
function has built it.

### The invariants under TLC

The invariants that the proofs rest on were also checked as invariants of TLC runs, all but `ClaimInv`
before they were proved: `UrlInv` and `FileInv` on the instances of `AnyBytes` and `AnyPeers` (920,617 and
3,093,697 states), `ClaimInv` and `PinInv` on that of `AnyPeers`, `WaitInv` and `RefInv` on
`BrokenConnections` (351,246), `WaitInv` and `PatientInv` on `PromptPeers` (863,626), these, `RefInv` and
`Tidy` on `OneByOne` (132,344), `ListInv` on `ListSteps` (89,760), and `PassInv`, `QueryInv` and the other
invariants of `TextProofs` on `Text` (387,201).

### Only model-checked

- Everything under fairness, which is out of the prover's reach: `ClosedIsReclaimed`, `ShutdownCompletes`,
  `EveryMessageAnswered`, `CallbackReturns`, `SignalEndsProgram`, `StoppedLoopCloses`.
- What the four runs with an expected violation show, which is what the code does not keep.

## 6. Not modelled

The tests and sample pages hold no state (`test.py` is quoted by `SplitRequest`). libuv and llhttp are
third-party code that is not in the repository and are modelled as the environment, as far as `src/`
uses them. Of `utlist.h` and `utarray.h` only the macros the program expands are modelled. Failing
allocations are not modelled: the code does not look for them. HTTP versions, methods and header fields
do not influence what the program does.
