---------------------------- MODULE PathReference ----------------------------
(***************************************************************************)
(* What validate_and_normalize_path is for: segments are resolved from     *)
(* left to right, "." is dropped and ".." drops the segment before it.     *)
(***************************************************************************)
EXTENDS PathNormalizer, SequencesExt

Here == <<".">>
Up   == <<".", ".">>

\* The places where a segment ends: the separators, and the place behind p.
Ends(p) == {e \in 1..(Len(p) + 1) : e > Len(p) \/ p[e] \in Separators}

\* Where the segment begins that place e is in or ends, and how far it goes below e.
StartOf(p, e) == Max({k \in 1..e : k = 1 \/ p[k - 1] \in Separators})
Segment(p, e) == SubSeq(p, StartOf(p, e), e - 1)

\* From the last of the directories dirs a name goes one down, ".." one back.
Walked(dirs, s) ==
  CASE s \in {<<>>, Here} -> dirs
    [] s = Up -> IF Len(dirs) = 1 THEN dirs ELSE Front(dirs)
    [] OTHER -> Append(dirs, Last(dirs) \o <<"/">> \o s)

\* The directories from the root <<>> down to where the segments lead that end
\* below each place of p.
Walk(p) ==
  LET dirs[k \in 1..(Len(p) + 1)] ==
        IF k = 1 THEN << <<>> >>
        ELSE IF p[k - 1] \in Separators THEN Walked(dirs[k - 1], Segment(p, k - 1))
        ELSE dirs[k - 1]
  IN  dirs

\* A separator at the end of the argument is kept at the end of the result.
Reference(p) ==
  LET end  == Len(p) + 1
      last == Segment(p, end)
      dir  == Last(Walked(Walk(p)[end], last))
  IN  IF dir = <<>> \/ last = <<>> THEN Append(dir, "/") ELSE dir

\* Arguments that the one-pass algorithm is meant for: no empty segment inside,
\* "." only where a "/" follows, names with at most single dots in them and none at
\* their end, and no ".." that ends the argument at the root.
Ordinary(p) ==
  \A e \in Ends(p) :
    LET s == Segment(p, e)
    IN  /\ s = <<>> => e \in {1, Len(p) + 1}
        /\ s = Here => e <= Len(p) /\ p[e] = "/"
        /\ s \notin {<<>>, Here, Up} =>
             /\ s[Len(s)] # "."
             /\ \A k \in 1..(Len(s) - 1) : s[k] # "." \/ s[k + 1] # "."
        /\ s = Up /\ e = Len(p) + 1 => Len(Walk(p)[e]) > 1

\* For ordinary arguments that fit, the output of the pass is the path that the
\* segments resolve to: ".." at any depth takes away exactly one segment with its
\* separator, and what follows joins on with one separator.
AgreesWithReference ==
  result = "path" /\ Ordinary(path) => output = Reference(path)
==============================================================================
