----------------------------- MODULE MCWebServer -----------------------------
(* Instances of WebServerProperties for TLC. *)
EXTENDS WebServerProperties, TLC

Bytes(urls, ends, query, body) ==
  [urls |-> urls, ends |-> ends, query |-> query, body |-> body, valid |-> TRUE]

\* One whole request, without a query and a body or with both.
PlainGet  == Bytes(1, 1, FALSE, FALSE)
PostQuery == Bytes(1, 1, TRUE, TRUE)
\* The bytes before the URL; a URL or a part of it; the rest of a message; bytes
\* that llhttp refuses in the middle; two requests at once.
Method  == Bytes(0, 0, FALSE, FALSE)
Url     == Bytes(1, 0, FALSE, FALSE)
Rest    == Bytes(0, 1, FALSE, TRUE)
Garbage == [Url EXCEPT !.valid = FALSE]
Pair    == Bytes(2, 2, FALSE, FALSE)

WholeChunks == {PlainGet}
SplitChunks == {PlainGet, Method}
AnyChunks   == {PostQuery, Method, Url, Rest, Garbage, Pair}

Identities == Permutations(Clients) \cup Permutations(Requests) \cup Permutations(Fds)
=============================================================================
