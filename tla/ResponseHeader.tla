---------------------------- MODULE ResponseHeader ----------------------------
(***************************************************************************)
(* make_response_header and the tables it looks things up in               *)
(* (src/src/webserver.c): four calls of snprintf into one buffer, one step *)
(* each.  A part of the header is the number of its characters.            *)
(***************************************************************************)
EXTENDS Integers, SequencesExt

CONSTANT Files  \* paths of files, as sequences of ".", "/" and words

ASSUME FilesAssumption == Files \subseteq Seq(STRING)

VARIABLES
  file,     \* the path of the file that was found
  status,   \* the arguments: the code,
  mime,     \* res->mime_content, and
  digits,   \* the decimal digits of res->size_content
  part,     \* the part to print next
  cnt,      \* the characters printed so far, by snprintf's results
  len,      \* the room that is left, by the function's own account
  written   \* the characters that have reached the buffer

headerVars == <<file, status, mime, digits, part, cnt, len, written>>

\* The extensions, in all their spellings (strcasecmp), with the characters of
\* their content types; an extension stands for its type, and the last one for
\* application/octet-stream.
mime_types ==
  [html |-> 9, htm |-> 9, css |-> 8, js |-> 15, mjs |-> 15, json |-> 16,
   txt |-> 10, png |-> 9, svg |-> 13, jpg |-> 10, jpeg |-> 10, gif |-> 9,
   ico |-> 12, ttf |-> 8, woff |-> 9, woff2 |-> 10, pdf |-> 15, mp3 |-> 10,
   ogg |-> 9, wav |-> 9, zip |-> 15, gz |-> 16, rar |-> 19, bmp |-> 9,
   tiff |-> 10, XXXYYY |-> 24]

\* The operators whose names end in _mutant are mistakes that the checked
\* properties must notice; no action uses them.
strrchr_mutant(p, x) == Min({k \in DOMAIN p : p[k] = x} \cup {Len(p) + 1})
sizeof_buf_mutant == 128

\* The place of the last x; 0 if there is none.
strrchr(p, x) == Max({k \in DOMAIN p : p[k] = x} \cup {0})

match_mime_type(p) ==
  LET dot == strrchr(p, ".")
      ext == SubSeq(p, dot + 1, Len(p))
  IN  IF dot # 0 /\ Len(ext) = 1 /\ ext[1] \in DOMAIN mime_types
      THEN ext[1]
      ELSE "XXXYYY"

\* The characters of the phrases of the codes that the server answers with: OK,
\* Not Found, Internal Server Error.
status_string(code) ==
  CASE code = 200 -> 2
    [] code = 404 -> 9
    [] code = 500 -> 21

sizeof_buf == 2048

\* A file that was found is announced with 200 and any length of 64 bits; the two
\* pages have lengths of three digits.
HeaderInit ==
  /\ \/ /\ status = 200
        /\ file \in Files
        /\ mime = match_mime_type(file)
        /\ digits \in 1..19
     \/ /\ status \in {404, 500}
        /\ file = <<>>
        /\ mime = match_mime_type(<<".", "html">>)
        /\ digits = 3
  /\ part = "status"
  /\ cnt = 0
  /\ len = sizeof_buf
  /\ written = 0

\* snprintf(ret + cnt, len, ...) of a part of k characters, one less than len of
\* which fit; a negative len becomes a huge uint32_t.  The caller then adds the
\* result to cnt and takes all of cnt, not the result, from len.
snprintf(k) ==
  /\ written' = written + IF len >= 0 /\ k >= len THEN Max({0, len - 1}) ELSE k
  /\ cnt' = cnt + k
  /\ len' = len - cnt'
  /\ UNCHANGED <<file, status, mime, digits>>

\* "HTTP/1.1 ", the code, a blank, the phrase and the end of the line.
make_header_status ==
  /\ part = "status"
  /\ snprintf(9 + 3 + 1 + status_string(status) + 2)
  /\ part' = "type"

\* "Content-Type: " and the type, which is never NULL: match_mime_type has an answer
\* for every file, and the pages name theirs.
make_header_content_type ==
  /\ part = "type"
  /\ snprintf(14 + mime_types[mime] + 2)
  /\ part' = "length"

\* "Content-Length: " and the length.
make_header_content_length ==
  /\ part = "length"
  /\ snprintf(16 + digits + 2)
  /\ part' = "end"

\* The empty line, and the copy of cnt characters that is sent.
make_response_header ==
  /\ part = "end"
  /\ snprintf(2)
  /\ part' = "done"

HeaderNext ==
  make_header_status \/ make_header_content_type \/ make_header_content_length
    \/ make_response_header

HeaderSpec == HeaderInit /\ [][HeaderNext]_headerVars

-----------------------------------------------------------------------------
(* Properties.                                                             *)

\* The cnt characters that are copied out of the buffer have all been written to
\* it: no part was cut short, although len is made smaller by the running total
\* at each part, and none went past the buffer's end.
HeaderWhole == written = cnt /\ written < sizeof_buf

\* The content type is that of the extension of the file's own name, whatever
\* dots the directories before it have; a name without one is an octet stream (XXXYYY).
MimeByName ==
  status = 200 =>
    LET slashes == {k \in DOMAIN file : file[k] = "/"}
        name    == {k \in DOMAIN file : \A s \in slashes : s < k}
    IN  mime = IF \E k \in name : /\ k = Len(file) /\ k - 1 \in name
                                  /\ file[k - 1] = "." /\ file[k] \in DOMAIN mime_types
               THEN Last(file)
               ELSE "XXXYYY"
=============================================================================
