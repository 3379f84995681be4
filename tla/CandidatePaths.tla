--------------------------- MODULE CandidatePaths ---------------------------
(***************************************************************************)
(* The paths that one request asks the file system for                     *)
(* (src/src/webserver.c): www_root with the URL, and below a directory the *)
(* default files, the first built by check_path_async from the path that   *)
(* was found, the others by check_default_files_async from the URL.        *)
(***************************************************************************)
EXTENDS Naturals, SequencesExt

CONSTANTS
  Urls,       \* what on_url stores: normalised paths
  Root,       \* web_config->www_root
  Defaults,   \* web_config->defaults, of def_cnt names
  PathBuffer  \* MAX_PATH_LENGTH, the size of a buffer for a path

ASSUME CandidateAssumption ==
  /\ Urls \subseteq Seq(STRING)
  /\ Root \in Seq(STRING)
  /\ Defaults \in Seq(Seq(STRING) \ {<<>>}) \ {<<>>}
  /\ PathBuffer \in Nat \ {0}

VARIABLES
  url,    \* req->url
  tries,  \* req->default_filename_tries
  asked,  \* the path of the last uv_fs_stat
  step    \* the callback that is due, or the code of the answer

candidateVars == <<url, tries, asked, step>>

CandidateInit ==
  /\ url \in Urls
  /\ tries = 0
  /\ asked = <<>>
  /\ step = "process_request"

\* The operators whose names end in _mutant are mistakes that the checked
\* properties must notice; no action uses them.
default_path_mutant(dir, base, n) == base \o Defaults[n + 1]

\* snprintf(path, MAX_PATH_LENGTH, ...) leaves room for the NUL.
cut(p) == SubSeq(p, 1, Min({Len(p), PathBuffer - 1}))

answer(code) == step' = code /\ UNCHANGED <<url, tries, asked>>

uv_fs_stat(p, cb) == asked' = cut(p) /\ step' = cb /\ UNCHANGED url

process_request ==
  /\ step = "process_request"
  /\ LET p == Root \o url
     IN  IF Len(p) >= PathBuffer
         THEN answer("500")
         ELSE uv_fs_stat(p, "check_path_async") /\ UNCHANGED tries

\* The n-th default file in base; the test is made on dir, which is the path that
\* was found for the first default file and the URL alone for the others.
default_path(dir, base, n) ==
  IF Len(dir) > 1 /\ Last(dir) # "/"
  THEN base \o <<"/">> \o Defaults[n + 1]
  ELSE base \o Defaults[n + 1]

\* The length of the first candidate is stored and not looked at.
check_path_async ==
  /\ step = "check_path_async"
  /\ \/ answer("404")
     \/ answer("200")
     \/ /\ tries' = 0
        /\ uv_fs_stat(default_path(asked, asked, 0), "check_default_files_async")

check_default_files_async ==
  /\ step = "check_default_files_async"
  /\ \/ answer("200")
     \/ LET p == default_path(url, Root \o url, tries + 1)
        IN  /\ tries' = tries + 1
            /\ IF tries + 1 >= Len(Defaults)
               THEN step' = "404" /\ UNCHANGED <<url, asked>>
               ELSE IF Len(p) >= PathBuffer
                    THEN step' = "500" /\ UNCHANGED <<url, asked>>
                    ELSE uv_fs_stat(p, "check_default_files_async")

CandidateNext == process_request \/ check_path_async \/ check_default_files_async

CandidateSpec == CandidateInit /\ [][CandidateNext]_candidateVars

-----------------------------------------------------------------------------
(* Properties.                                                             *)

\* The path of the directory that was found, with one "/" at its end.
FoundDirectory ==
  LET found == Root \o url
  IN  IF Last(found) = "/" THEN found ELSE Append(found, "/")

Named(u) == Len(u) > 1 \/ u = <<"/">>

\* Every default file that is asked for lies directly in the directory that was
\* found, whichever of the two functions has built its name: there is one "/"
\* between them, and the name is a default's, or for the first one, whose length
\* nobody checks, at least the beginning of it.  URLs of less than two characters
\* other than "/", and directories whose path fills the buffer, are left out: for
\* these the code does otherwise.
DefaultsInDirectory ==
  LET dir == FoundDirectory
  IN  step = "check_default_files_async" /\ Named(url) /\ Len(dir) < PathBuffer - 1 =>
        /\ IsStrictPrefix(dir, asked)
        /\ IsPrefix(asked, dir \o Defaults[tries + 1])
        /\ tries > 0 => asked = dir \o Defaults[tries + 1]
=============================================================================
