-------------------------------- MODULE MCText --------------------------------
(***************************************************************************)
(* The functions that work on text, for TLC: a behaviour is one call of    *)
(* one of them, and the other three are at rest.                           *)
(***************************************************************************)
EXTENDS PathReference, QueryParams, ResponseHeader, CandidatePaths

CONSTANTS
  MaxLen,    \* bounds the characters of a path
  MaxQuery,  \* bounds the characters of a query
  MaxFields  \* bounds the fields of a query of pairs and single names

VARIABLE call  \* the function that was called

textVars == <<call, vars, queryVars, headerVars, candidateVars>>

\* "\" is an ordinary separator, so that the longest arguments do without it.
MCPaths ==
  BoundedSeq({"/", ".", "a"}, MaxLen) \cup BoundedSeq({"/", "\\", ".", "a"}, MaxLen - 3)

\* Every short query, and queries with enough pairs to make the array grow twice.
MCQueries ==
  BoundedSeq({"&", "=", "a"}, MaxQuery)
    \cup {FlattenSeq(fs) : fs \in BoundedSeq({<<"a", "=", "b", "&">>, <<"c", "&">>}, MaxFields)}

\* Files below "./dist".
MCFiles == {<<".", "/", "dist", "/">> \o p : p \in BoundedSeq({".", "/", "html", "gz", "dist"}, 4)}

\* What validate_and_normalize_path may return: no empty segment, and for ".." at
\* the root the empty path or one that does not begin with "/".
MCUrls ==
  {u \in BoundedSeq({"/", "a"}, MaxLen) :
     \A k \in 1..(Len(u) - 1) : u[k] = "/" => u[k + 1] # "/"}
MCRoot == <<".", "/", "d">>
MCDefaults == << <<"x", "h", "t", "m", "l">>, <<"x", "h", "t">>, <<"y">> >>

PathAtRest ==
  path = <<>> /\ i = 1 /\ output = <<>> /\ result = "none"
QueryAtRest ==
  query = <<>> /\ url_copy = <<>> /\ token = 0 /\ saveptr = 0 /\ params = <<>> /\ slots = 0
HeaderAtRest ==
  /\ file = <<>> /\ status = 0 /\ mime = "" /\ digits = 0
  /\ part = "done" /\ cnt = 0 /\ len = 0 /\ written = 0
CandidateAtRest ==
  url = <<>> /\ tries = 0 /\ asked = <<>> /\ step = "200"

TextInit ==
  \/ call = "validate_and_normalize_path" /\ Init /\ QueryAtRest /\ HeaderAtRest /\ CandidateAtRest
  \/ call = "parse_get_url" /\ QueryInit /\ PathAtRest /\ HeaderAtRest /\ CandidateAtRest
  \/ call = "make_response_header" /\ HeaderInit /\ PathAtRest /\ QueryAtRest /\ CandidateAtRest
  \/ call = "process_request" /\ CandidateInit /\ PathAtRest /\ QueryAtRest /\ HeaderAtRest

TextNext ==
  /\ \/ /\ call = "validate_and_normalize_path"
        /\ Next
        /\ UNCHANGED <<queryVars, headerVars, candidateVars>>
     \/ /\ call = "parse_get_url"
        /\ QueryNext
        /\ UNCHANGED <<vars, headerVars, candidateVars>>
     \/ /\ call = "make_response_header"
        /\ HeaderNext
        /\ UNCHANGED <<vars, queryVars, candidateVars>>
     \/ /\ call = "process_request"
        /\ CandidateNext
        /\ UNCHANGED <<vars, queryVars, headerVars>>
  /\ UNCHANGED call

TextSpec == TextInit /\ [][TextNext]_textVars
===============================================================================
