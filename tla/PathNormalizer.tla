--------------------------- MODULE PathNormalizer ---------------------------
(***************************************************************************)
(* validate_and_normalize_path (src/src/utils.c): one pass over the URL    *)
(* that on_url received, one action per branch of the loop's body.         *)
(*                                                                         *)
(* output is the part of the buffer below out_len, so out_len is           *)
(* Len(output) and output[out_len - 1] its last element; nothing above     *)
(* out_len is ever read.  The buffer has MaxPath + 1 bytes.  An index      *)
(* below 0 has no meaning in C: the pass stops there with "undefined".     *)
(***************************************************************************)
EXTENDS Naturals, Sequences

CONSTANTS
  Names,    \* the characters that stand for themselves
  MaxPath,  \* MAX_PATH_LENGTH
  Paths     \* the arguments to be considered

Separators == {"/", "\\"}
Char == Names \cup Separators \cup {"."}

ASSUME PathAssumption ==
  /\ Names \cap (Separators \cup {"."}) = {}
  /\ MaxPath \in Nat \ {0}
  /\ Paths \subseteq Seq(Char)

VARIABLES
  path,     \* the argument
  i,        \* the place of the next character to read, from 1
  output,   \* what has been written
  result    \* "none" during the pass, then what the function returns

vars == <<path, i, output, result>>

Results == {"none", "path", "null", "undefined"}

\* The test of path[0] is a tautology: the root is always written first.
Init ==
  /\ path \in Paths
  /\ i = 1
  /\ output = <<"/">>
  /\ result = "none"

Reading == result = "none" /\ i <= Len(path)

\* The next two characters are "." and x.
Pair(x) == path[i] = "." /\ i < Len(path) /\ path[i + 1] = x

-----------------------------------------------------------------------------

\* The operators whose names end in _mutant are mistakes that the checked
\* properties must notice; no action uses them.
Room_past_mutant == Len(output) <= MaxPath
Room_short_mutant == Len(output) + 1 < MaxPath
Room == Len(output) < MaxPath

\* Without room the function frees the buffer and returns NULL.
put(x) ==
  IF Room
  THEN output' = Append(output, x) /\ i' = i + 1 /\ UNCHANGED result
  ELSE result' = "null" /\ UNCHANGED <<i, output>>

OpensSegment_any_mutant == TRUE
OpensSegment == output = <<>> \/ output[Len(output)] # "/"

\* A separator after a separator takes the output back to the root.
separator ==
  /\ Reading
  /\ path[i] \in Separators
  /\ IF OpensSegment
     THEN put("/")
     ELSE output' = <<"/">> /\ i' = i + 1 /\ UNCHANGED result
  /\ UNCHANGED path

\* The while loop leaves out_len at m: it goes down from Len(output) - 1 to
\* the first separator, or to 1.
StopsAt(m) ==
  /\ m <= 1 \/ output[m] = "/"
  /\ \A k \in (m + 1)..(Len(output) - 1) : k > 1 /\ output[k] # "/"

kept_mutant(m) == m
kept(m) == IF m > 1 THEN m - 1 ELSE m

past_parent_mutant == i + 3
past_parent == i + 2

parent ==
  /\ Reading
  /\ Pair(".")
  /\ IF output = <<>>
     THEN result' = "undefined" /\ UNCHANGED <<i, output>>
     ELSE /\ \E m \in {k \in 0..(Len(output) - 1) : StopsAt(k)} :
               output' = SubSeq(output, 1, kept(m))
          /\ i' = past_parent
          /\ UNCHANGED result
  /\ UNCHANGED path

here ==
  /\ Reading
  /\ Pair("/")
  /\ i' = i + 2
  /\ UNCHANGED <<path, output, result>>

character ==
  /\ Reading
  /\ path[i] \notin Separators
  /\ ~Pair(".") /\ ~Pair("/")
  /\ put(path[i])
  /\ UNCHANGED path

finish ==
  /\ result = "none"
  /\ i > Len(path)
  /\ result' = "path"
  /\ UNCHANGED <<path, i, output>>

Next == separator \/ parent \/ here \/ character \/ finish

Spec == Init /\ [][Next]_vars

-----------------------------------------------------------------------------
(* Properties                                                              *)

\* Every variable keeps its type, and whatever is appended finds room: the output
\* never grows past MAX_PATH_LENGTH characters, so the NUL written behind it is
\* the last of the MaxPath + 1 bytes at most.  (The other end of the buffer is the
\* matter of IndexStaysInBuffer: the type admits "undefined".)
TypeOK ==
  /\ path \in Seq(Char)
  /\ i \in 1..(Len(path) + 1)
  /\ output \in Seq(Char \ {"\\"})
  /\ Len(output) <= MaxPath
  /\ result \in Results

\* Whatever the argument, no segment of the output is empty: two separators
\* never follow each other, also where ".." has just cut the output back.
NoEmptySegment ==
  \A k \in 1..(Len(output) - 1) : output[k] = "/" => output[k + 1] # "/"

\* NULL means that the argument was long: one that is shorter than
\* MAX_PATH_LENGTH is never refused (on_url would answer it with "/").
OnlyLongIsRefused == result = "null" => Len(path) >= MaxPath

\* Every ".." of the argument ends its segment.
ParentsEndSegments ==
  \A k \in 1..Len(path) - 2 :
    path[k] = "." /\ path[k + 1] = "." => path[k + 2] \in Separators

\* out_len never goes below 0 for such arguments, although each ".." at the
\* root takes it to 0: the separator that follows puts the root back.
IndexStaysInBuffer == ParentsEndSegments => result # "undefined"

-----------------------------------------------------------------------------
(* What the repository says and the code does not do.                      *)

\* utils.c:16: "Returns a pointer to the validated and normalized file path, or
\* NULL", whatever the path: one ".." after the other at the root takes out_len
\* below 0 instead (utils.c:56), where the NUL is then written (utils.c:93).
ReturnsPathOrNull == result \in {"none", "path", "null"}
=============================================================================
