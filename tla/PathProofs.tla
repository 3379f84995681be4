----------------------------- MODULE PathProofs -----------------------------
(***************************************************************************)
(* What validate_and_normalize_path does for every argument and every size *)
(* of its buffer.                                                          *)
(***************************************************************************)
EXTENDS PathReference, SequenceTheorems, WellFoundedInduction, TLAPS

-----------------------------------------------------------------------------
(* Numbers and sequences.                                                  *)

\* A set of natural numbers has a least element.
LEMMA LeastNumber ==
  ASSUME NEW S \in SUBSET Nat, S # {}
  PROVE  \E m \in S : \A k \in S : m <= k
<1> DEFINE R == OpToRel(<, Nat)
<1>1. IsWellFoundedOn(R, Nat)
  BY NatLessThanWellFounded, Zenon
<1>2. \A a, b \in Nat : a < b => <<a, b>> \in R
  BY DEF OpToRel
<1> HIDE DEF R
<1>3. PICK m \in S : \A k \in S : <<k, m>> \notin R
  BY <1>1, WFMin
<1>4. ASSUME NEW k \in S PROVE m <= k
  <2>1. m \in Nat /\ k \in Nat /\ ~(k < m)
    BY <1>2, <1>3
  <2> QED
    BY <2>1
<1> QED
  BY <1>4

\* Min, for the numbers that it is used for.
LEMMA LeastIsMin ==
  ASSUME NEW S \in SUBSET Nat, S # {}
  PROVE  /\ Min(S) \in S
         /\ \A k \in S : Min(S) <= k
         /\ \A m \in S : (\A k \in S : m <= k) => Min(S) = m
<1>1. \E m \in S : \A k \in S : m <= k
  BY LeastNumber
<1>2. Min(S) \in S /\ \A k \in S : Min(S) <= k
  BY <1>1 DEF Min
<1>3. ASSUME NEW m \in S, \A k \in S : m <= k PROVE Min(S) = m
  <2>1. m \in Nat /\ Min(S) \in Nat /\ m <= Min(S) /\ Min(S) <= m
    BY <1>2, <1>3
  <2> QED
    BY <2>1
<1> QED
  BY <1>2, <1>3

\* A bounded set of natural numbers has a greatest element, and Max is it.
LEMMA GreatestNumber ==
  ASSUME NEW n \in Nat, NEW S \in SUBSET (0..n), S # {}
  PROVE  Max(S) \in S /\ \A k \in S : k <= Max(S)
<1> DEFINE T == {n - k : k \in S}
<1>1. T \in SUBSET Nat /\ T # {}
  OBVIOUS
<1> HIDE DEF T
<1>2. PICK m \in T : \A k \in T : m <= k
  BY <1>1, LeastNumber
<1>3. PICK x \in S : m = n - x
  BY <1>2 DEF T
<1>4. ASSUME NEW k \in S PROVE x >= k
  <2>1. m <= n - k
    BY <1>2 DEF T
  <2>2. x \in 0..n /\ k \in 0..n
    OBVIOUS
  <2> QED
    BY <1>3, <2>1, <2>2
<1>5. \E y \in S : \A k \in S : y >= k
  BY <1>4
<1>6. Max(S) \in S /\ \A k \in S : Max(S) >= k
  BY <1>5 DEF Max
<1>7. ASSUME NEW k \in S PROVE k <= Max(S)
  <2>1. k \in 0..n /\ Max(S) \in 0..n /\ Max(S) >= k
    BY <1>6
  <2> QED
    BY <2>1
<1> QED
  BY <1>6, <1>7

\* The first characters of a sequence.
LEMMA FirstPart ==
  ASSUME NEW S, NEW seq \in Seq(S), NEW c \in 0..Len(seq)
  PROVE  /\ SubSeq(seq, 1, c) \in Seq(S) /\ Len(SubSeq(seq, 1, c)) = c
         /\ \A k \in 1..c : SubSeq(seq, 1, c)[k] = seq[k]
<1> DEFINE o == SubSeq(seq, 1, c)
<1>1. Len(seq) \in Nat /\ c \in Int /\ 1 \in Int /\ c >= 0
  BY LenProperties
<1>2. \A k \in 1..c : seq[k] \in S
  BY <1>1, ElementOfSeq
<1>3. /\ o \in Seq(S) /\ Len(o) = IF 1 <= c THEN c - 1 + 1 ELSE 0
      /\ \A k \in 1..(c - 1 + 1) : o[k] = seq[1 + k - 1]
  BY <1>1, <1>2, SubSeqProperties
<1>4. c - 1 + 1 = c /\ (~(1 <= c) => c = 0) /\ \A k \in Int : 1 + k - 1 = k
  BY <1>1
<1> HIDE DEF o
<1>5. Len(o) = c
  BY <1>3, <1>4
<1>6. ASSUME NEW k \in 1..c PROVE o[k] = seq[k]
  <2>1. k \in 1..(c - 1 + 1) /\ 1 + k - 1 = k
    BY <1>4
  <2> QED
    BY <1>3, <2>1
<1> QED
  BY <1>3, <1>5, <1>6 DEF o

-----------------------------------------------------------------------------
(* validate_and_normalize_path.                                            *)

OutputChar == Char \ {"\\"}

\* Each character read adds at most one to the output, which starts with one.
KeepsUp ==
  /\ Len(output) <= i
  /\ result = "null" => Len(output) = MaxPath /\ i <= Len(path)

\* An output cut back to nothing gets the root back from the next character.
RootReturns ==
  ParentsEndSegments =>
    /\ result # "undefined"
    /\ output = <<>> => i > Len(path) \/ path[i] \in Separators

Inv == TypeOK /\ NoEmptySegment /\ KeepsUp /\ RootReturns

-----------------------------------------------------------------------------

\* Writing a character keeps the output inside the buffer and made of non-empty
\* segments, if "/" is written only to open a segment (put in utils.c).
LEMMA PutKeeps ==
  ASSUME TypeOK, NoEmptySegment, KeepsUp, Reading,
         NEW x \in OutputChar, put(x), path' = path,
         x = "/" => OpensSegment
  PROVE  /\ TypeOK' /\ NoEmptySegment' /\ KeepsUp'
         /\ result' = "none" => output' # <<>>
         /\ result' \in {"none", "null"}
  <1>1. /\ i \in Nat /\ i >= 1 /\ i <= Len(path) /\ Len(path) \in Nat
        /\ output \in Seq(OutputChar) /\ Len(output) \in Nat
        /\ MaxPath \in Nat /\ MaxPath > 0
        /\ path \in Seq(Char) /\ result = "none"
    BY PathAssumption, LenProperties, SMT DEF TypeOK, Reading, OutputChar
  <1>2. CASE Room
    <2>1. output' = Append(output, x) /\ i' = i + 1 /\ result' = "none"
      BY <1>1, <1>2 DEF put
    <2>2. /\ output' \in Seq(OutputChar)
          /\ Len(output') = Len(output) + 1
          /\ \A k \in 1..Len(output) : output'[k] = output[k]
          /\ output'[Len(output) + 1] = x
      BY <1>1, <2>1, AppendProperties
    <2>3. TypeOK'
      BY <1>1, <1>2, <2>1, <2>2, SMT DEF TypeOK, Room, OutputChar, Results
    <2>4. NoEmptySegment'
      <3> SUFFICES ASSUME NEW k \in 1..(Len(output') - 1), output'[k] = "/"
                   PROVE  output'[k + 1] # "/"
        BY DEF NoEmptySegment
      <3>1. CASE k < Len(output)
        BY <1>1, <2>2, <3>1, SMT DEF NoEmptySegment
      <3>2. CASE k = Len(output)
        <4>1. output # <<>> /\ output[Len(output)] = "/"
          BY <1>1, <2>2, <3>2, EmptySeq, SMT
        <4> QED BY <4>1, <2>2, <3>2 DEF OpensSegment
      <3> QED BY <1>1, <2>2, <3>1, <3>2, SMT
    <2>5. KeepsUp'
      BY <1>1, <2>1, <2>2, SMT DEF KeepsUp
    <2>6. output' # <<>>
      BY <1>1, <2>2, EmptySeq, SMT
    <2> QED BY <2>1, <2>3, <2>4, <2>5, <2>6
  <1>3. CASE ~Room
    <2>1. result' = "null" /\ i' = i /\ output' = output
      BY <1>3 DEF put
    <2>2. TypeOK' /\ NoEmptySegment'
      BY <2>1 DEF TypeOK, NoEmptySegment, Results
    <2>3. KeepsUp'
      BY <1>1, <1>3, <2>1, SMT DEF KeepsUp, Room, TypeOK
    <2> QED BY <2>1, <2>2, <2>3
  <1> QED BY <1>2, <1>3

\* The invariant holds at the start: the root alone has been written.
LEMMA InvInit == Init => Inv
  <1> SUFFICES ASSUME Init PROVE Inv
    OBVIOUS
  <1>1. path \in Seq(Char) /\ Len(path) \in Nat
    BY PathAssumption, LenProperties DEF Init
  <1>2. /\ output \in Seq(OutputChar) /\ Len(output) = 1 /\ output # <<>>
        /\ output = <<"/">>
    BY SMT DEF Init, OutputChar, Char, Separators
  <1>3. TypeOK
    BY PathAssumption, <1>1, <1>2, SMT DEF Init, TypeOK, Results, OutputChar
  <1>4. NoEmptySegment
    BY <1>2, SMT DEF NoEmptySegment
  <1>5. KeepsUp /\ RootReturns
    BY <1>2, SMT DEF Init, KeepsUp, RootReturns
  <1> QED BY <1>3, <1>4, <1>5 DEF Inv

\* Every step of the pass keeps the invariant.
LEMMA InvNext == Inv /\ [Next]_vars => Inv'
  <1> SUFFICES ASSUME Inv, [Next]_vars PROVE Inv'
    OBVIOUS
  <1> USE DEF Inv
  <1>1. /\ i \in Nat /\ i >= 1 /\ i <= Len(path) + 1 /\ Len(path) \in Nat
        /\ output \in Seq(OutputChar) /\ Len(output) \in Nat
        /\ MaxPath \in Nat /\ MaxPath > 0 /\ path \in Seq(Char)
    BY PathAssumption, LenProperties, SMT DEF TypeOK, OutputChar
  <1>2. CASE separator
    <2>1. Reading /\ path' = path
      BY <1>2 DEF separator
    <2>2. CASE OpensSegment
      <3>1. put("/")
        BY <1>2, <2>2 DEF separator
      <3>2. "/" \in OutputChar
        BY DEF OutputChar, Char, Separators
      <3>3. /\ TypeOK' /\ NoEmptySegment' /\ KeepsUp'
            /\ result' = "none" => output' # <<>>
            /\ result' \in {"none", "null"}
        BY <2>1, <2>2, <3>1, <3>2, PutKeeps
      <3>4. result' = "null" => i' = i /\ path[i] \in Separators
        BY <1>2, <2>1, <3>1 DEF put, separator, Reading
      <3>5. RootReturns'
        BY <2>1, <3>3, <3>4 DEF RootReturns
      <3> QED BY <3>3, <3>5
    <2>3. CASE ~OpensSegment
      <3>1. output' = <<"/">> /\ i' = i + 1 /\ result' = result /\ result = "none"
        BY <1>2, <2>3, <2>1 DEF separator, Reading
      <3>2. output' \in Seq(OutputChar) /\ Len(output') = 1 /\ output' # <<>>
        BY <3>1, SMT DEF OutputChar, Char, Separators
      <3>3. TypeOK'
        BY <1>1, <2>1, <3>1, <3>2, SMT DEF TypeOK, OutputChar, Results, Reading
      <3>4. NoEmptySegment' /\ KeepsUp'
        BY <1>1, <3>1, <3>2, SMT DEF NoEmptySegment, KeepsUp
      <3>5. RootReturns'
        BY <3>1, <3>2 DEF RootReturns
      <3> QED BY <3>3, <3>4, <3>5
    <2> QED BY <2>2, <2>3
  <1>3. CASE parent
    <2>1. /\ path' = path /\ result = "none" /\ i < Len(path)
          /\ path[i] = "." /\ path[i + 1] = "."
      BY <1>3 DEF parent, Reading, Pair
    <2>2. path[i] \notin Separators
      BY <2>1 DEF Separators
    <2>3. CASE output = <<>>
      <3>1. result' = "undefined" /\ i' = i /\ output' = output
        BY <1>3, <2>3 DEF parent
      <3>2. ~ParentsEndSegments
        BY <1>1, <2>1, <2>2, <2>3, SMT DEF RootReturns
      <3>3. TypeOK' /\ NoEmptySegment' /\ KeepsUp'
        BY <2>1, <3>1 DEF TypeOK, NoEmptySegment, KeepsUp, Results
      <3>4. RootReturns'
        BY <2>1, <3>2 DEF RootReturns, ParentsEndSegments
      <3> QED BY <3>3, <3>4
    <2>4. CASE output # <<>>
      <3>1. i' = i + 2 /\ result' = result
        BY <1>3, <2>4 DEF parent, past_parent
      <3>2. PICK m \in 0..(Len(output) - 1) : output' = SubSeq(output, 1, kept(m))
        BY <1>3, <2>4, Zenon DEF parent
      <3> DEFINE n == kept(m)
      <3>3. n \in Nat /\ n <= Len(output) /\ n \in Int
        BY <1>1, <3>2, SMT DEF kept
      <3> HIDE DEF n
      <3>4. output' = SubSeq(output, 1, n)
        BY <3>2 DEF n
      <3>5. n \in 0..Len(output)
        BY <3>3
      <3>6. /\ output' \in Seq(OutputChar)
            /\ Len(output') = n
            /\ \A k \in 1..n : output'[k] = output[k]
        BY <1>1, <3>4, <3>5, FirstPart
      <3>7. TypeOK'
        BY <1>1, <2>1, <3>1, <3>3, <3>6, SMT DEF TypeOK, OutputChar
      <3>8. NoEmptySegment'
        BY <1>1, <3>3, <3>6, SMT DEF NoEmptySegment
      <3>9. KeepsUp'
        BY <1>1, <2>1, <3>1, <3>3, <3>6, SMT DEF KeepsUp
      <3>10. RootReturns'
        <4> SUFFICES ASSUME ParentsEndSegments
                     PROVE  i' > Len(path) \/ path[i'] \in Separators
          BY <2>1, <3>1 DEF RootReturns, ParentsEndSegments
        <4> QED BY <1>1, <2>1, <3>1, SMT DEF ParentsEndSegments
      <3> QED BY <3>7, <3>8, <3>9, <3>10
    <2> QED BY <2>3, <2>4
  <1>4. CASE here
    <2>1. /\ path' = path /\ output' = output /\ result' = result /\ i' = i + 2
          /\ result = "none" /\ i < Len(path) /\ path[i] = "."
      BY <1>4 DEF here, Reading, Pair
    <2>2. TypeOK' /\ NoEmptySegment' /\ KeepsUp'
      BY <1>1, <2>1, SMT DEF TypeOK, NoEmptySegment, KeepsUp
    <2>3. RootReturns'
      BY <1>1, <2>1, SMT DEF RootReturns, ParentsEndSegments, Separators
    <2> QED BY <2>2, <2>3
  <1>5. CASE character
    <2>1. Reading /\ path' = path /\ put(path[i]) /\ path[i] \notin Separators
      BY <1>5 DEF character
    <2>2. path[i] \in Char
      BY <1>1, <2>1, ElementOfSeq, SMT DEF Reading
    <2>3. path[i] \in OutputChar /\ path[i] # "/"
      BY <2>1, <2>2 DEF OutputChar, Separators
    <2>4. /\ TypeOK' /\ NoEmptySegment' /\ KeepsUp'
          /\ result' = "none" => output' # <<>>
          /\ result' \in {"none", "null"}
      BY <2>1, <2>3, PutKeeps
    <2>5. result' = "null" => i' = i /\ output' = output
      BY <2>1 DEF put, Reading
    <2>6. ParentsEndSegments => output # <<>>
      BY <1>1, <2>1, SMT DEF RootReturns, Reading
    <2>7. RootReturns'
      BY <2>1, <2>4, <2>5, <2>6 DEF RootReturns, ParentsEndSegments
    <2> QED BY <2>4, <2>7
  <1>6. CASE finish
    <2>1. /\ path' = path /\ output' = output /\ i' = i /\ result' = "path"
      BY <1>6 DEF finish
    <2> QED
      BY <2>1 DEF TypeOK, NoEmptySegment, KeepsUp, RootReturns,
                  ParentsEndSegments, Results
  <1>7. CASE UNCHANGED vars
    BY <1>7 DEF vars, TypeOK, NoEmptySegment, KeepsUp, RootReturns, ParentsEndSegments
  <1> QED BY <1>2, <1>3, <1>4, <1>5, <1>6, <1>7 DEF Next

\* For every argument the types hold: the index of the input stays in the argument
\* and that of the output at or below MAX_PATH_LENGTH, where the last byte of the
\* buffer is (utils.c:41, 72, 83, 93).  That it does not go below 0 either is true
\* of some arguments only (IndexNotNegative).
THEOREM NormalizerTypeCorrect == Spec => []TypeOK
  <1>1. Inv => TypeOK
    BY DEF Inv
  <1> QED BY <1>1, InvInit, InvNext, PTL DEF Spec

\* For every argument no two separators follow each other in the output, also where
\* ".." has cut it back (utils.c:36-69).
THEOREM NoSegmentIsEmpty == Spec => []NoEmptySegment
  <1>1. Inv => NoEmptySegment
    BY DEF Inv
  <1> QED BY <1>1, InvInit, InvNext, PTL DEF Spec

\* Only arguments of at least MAX_PATH_LENGTH characters are refused with NULL.
THEOREM RefusedOnlyIfLong == Spec => []OnlyLongIsRefused
  <1>1. Inv => OnlyLongIsRefused
    <2> SUFFICES ASSUME Inv, result = "null" PROVE Len(path) >= MaxPath
      BY DEF OnlyLongIsRefused
    <2>1. i \in Nat /\ Len(path) \in Nat /\ MaxPath \in Nat /\ Len(output) \in Nat
      BY PathAssumption, LenProperties, SMT DEF Inv, TypeOK
    <2> QED BY <2>1, SMT DEF Inv, KeepsUp
  <1> QED BY <1>1, InvInit, InvNext, PTL DEF Spec

\* The output index never goes below 0 for arguments whose every ".." ends its
\* segment, however many of them climb past the root.
THEOREM IndexNotNegative == Spec => []IndexStaysInBuffer
  <1>1. Inv => IndexStaysInBuffer
    BY DEF Inv, RootReturns, IndexStaysInBuffer
  <1> QED BY <1>1, InvInit, InvNext, PTL DEF Spec

\* The loop of "parent" stops at one place, and that place is in the buffer, so that
\* the action is defined whenever the output is not empty (utils.c:56-63).
THEOREM ParentStops ==
  ASSUME TypeOK, output # <<>>
  PROVE  \E m \in 0..(Len(output) - 1) :
           StopsAt(m) /\ \A k \in 0..(Len(output) - 1) : StopsAt(k) => k = m
<1>1. output \in Seq(OutputChar) /\ Len(output) \in Nat /\ Len(output) > 0
  BY DEF TypeOK, OutputChar
<1> DEFINE n == Len(output) - 1
           S == {k \in 0..n : k <= 1 \/ output[k] = "/"}
<1>2. n \in Nat /\ S \in SUBSET (0..n) /\ 0 \in S
  BY <1>1
<1>3. \A k \in 0..n : StopsAt(k) <=> k \in S /\ \A j \in (k + 1)..n : j \notin S
  BY <1>1 DEF StopsAt
<1> DEFINE m == Max(S)
<1> HIDE DEF S
<1>4. m \in S /\ \A k \in S : k <= m
  BY <1>2, GreatestNumber
<1> HIDE DEF m
<1>5. m \in 0..n /\ StopsAt(m)
  BY <1>2, <1>3, <1>4
<1>6. ASSUME NEW k \in 0..n, StopsAt(k) PROVE k = m
  <2>1. k \in S /\ k <= m /\ m \notin (k + 1)..n
    BY <1>3, <1>4, <1>6
  <2> QED
    BY <1>2, <1>5, <2>1
<1> QED
  BY <1>5, <1>6

-----------------------------------------------------------------------------
(* The walk through the directories.                                       *)

\* The recursion of Walk is sound: there is a function that satisfies it, and so
\* Walk starts at the root and each place leads on from the one before it.
LEMMA WalkUnfolds ==
  ASSUME NEW p, Len(p) \in Nat
  PROVE  /\ Walk(p)[1] = << <<>> >>
         /\ \A k \in 1..Len(p) :
              Walk(p)[k + 1] = IF p[k] \in Separators THEN Walked(Walk(p)[k], Segment(p, k))
                               ELSE Walk(p)[k]
<1> DEFINE next(d, k) == IF p[k - 1] \in Separators THEN Walked(d, Segment(p, k - 1)) ELSE d
           Def(f, m)  == f = [k \in 1..m |-> IF k = 1 THEN << <<>> >> ELSE next(f[k - 1], k)]
           N          == Len(p) + 1
           Bad        == {m \in 1..N : ~\E f : Def(f, m)}
<1>1. Walk(p) = CHOOSE f : Def(f, N)
  BY DEF Walk
<1> HIDE DEF next
<1>2. \E f : Def(f, 1)
  <2> DEFINE g == [k \in 1..1 |-> << <<>> >>]
  <2>1. Def(g, 1)
    OBVIOUS
  <2> QED
    BY <2>1
<1>3. ASSUME NEW m \in 1..N, m # 1, \E f : Def(f, m - 1) PROVE \E f : Def(f, m)
  <2>1. PICK f : Def(f, m - 1)
    BY <1>3
  <2> DEFINE g == [k \in 1..m |-> IF k = m THEN next(f[m - 1], m) ELSE f[k]]
  <2>2. \A k \in 1..m : g[k] = IF k = 1 THEN << <<>> >> ELSE next(g[k - 1], k)
    <3> SUFFICES ASSUME NEW k \in 1..m
                 PROVE  g[k] = IF k = 1 THEN << <<>> >> ELSE next(g[k - 1], k)
      OBVIOUS
    <3>1. CASE k = m
      <4>1. k - 1 \in 1..m /\ k - 1 # m /\ k # 1
        BY <1>3, <3>1
      <4> QED
        BY <3>1, <4>1
    <3>2. CASE k # m
      <4>1. k \in 1..(m - 1) /\ g[k] = f[k]
        BY <3>2
      <4>2. f[k] = IF k = 1 THEN << <<>> >> ELSE next(f[k - 1], k)
        BY <2>1, <4>1
      <4>3. k # 1 => k - 1 \in 1..m /\ k - 1 # m
        BY <4>1
      <4> QED
        BY <4>1, <4>2, <4>3
    <3> QED
      BY <3>1, <3>2
  <2>3. Def(g, m)
    <3>1. g = [k \in 1..m |-> g[k]]
      OBVIOUS
    <3> HIDE DEF g
    <3> QED
      BY <2>2, <3>1
  <2> QED
    BY <2>3
<1>4. Bad = {}
  <2> SUFFICES ASSUME Bad # {} PROVE FALSE
    OBVIOUS
  <2>1. Bad \in SUBSET Nat
    OBVIOUS
  <2>2. PICK m \in Bad : \A k \in Bad : m <= k
    BY <2>1, LeastNumber
  <2> HIDE DEF Def
  <2>3. m \in 1..N /\ m # 1 /\ m - 1 \in 1..N /\ m - 1 \notin Bad
    BY <1>2, <2>2
  <2> QED
    BY <1>3, <2>2, <2>3
<1>5. Def(Walk(p), N)
  <2> HIDE DEF Def
  <2>1. N \in 1..N
    OBVIOUS
  <2>2. \E f : Def(f, N)
    BY <1>4, <2>1
  <2> QED
    BY <1>1, <2>2
<1>6. \A k \in 1..N : Walk(p)[k] = IF k = 1 THEN << <<>> >> ELSE next(Walk(p)[k - 1], k)
  BY <1>5
<1>7. 1 \in 1..N /\ \A k \in 1..Len(p) : k + 1 \in 1..N /\ k + 1 # 1 /\ (k + 1) - 1 = k
  OBVIOUS
<1>8. Walk(p)[1] = << <<>> >>
  BY <1>6, <1>7
<1>9. ASSUME NEW k \in 1..Len(p)
      PROVE  Walk(p)[k + 1] = IF p[k] \in Separators THEN Walked(Walk(p)[k], Segment(p, k))
                              ELSE Walk(p)[k]
  <2>1. Walk(p)[k + 1] = next(Walk(p)[k], k + 1)
    BY <1>6, <1>7
  <2>2. (k + 1) - 1 = k
    BY <1>7
  <2> QED
    BY <2>1, <2>2 DEF next
<1> QED
  BY <1>8, <1>9

\* A segment begins behind the last separator below the place that it ends at.
LEMMA SegmentPlaces ==
  ASSUME NEW p \in Seq(Char), NEW e \in 1..(Len(p) + 1)
  PROVE  LET from == StartOf(p, e)
             s    == Segment(p, e)
         IN  /\ from \in 1..e /\ (from = 1 \/ p[from - 1] \in Separators)
             /\ \A k \in from..(e - 1) : p[k] \notin Separators
             /\ \A k \in 1..e : /\ k = 1 \/ p[k - 1] \in Separators
                                /\ \A j \in k..(e - 1) : p[j] \notin Separators
                                => from = k
             /\ s \in Seq(Char \ Separators) /\ Len(s) = e - from
             /\ \A k \in 1..(e - from) : s[k] = p[from + k - 1]
<1> DEFINE S    == {k \in 1..e : k = 1 \/ p[k - 1] \in Separators}
           from == Max(S)
           s    == SubSeq(p, from, e - 1)
<1>1. Len(p) \in Nat /\ e \in Nat /\ e >= 1 /\ e <= Len(p) + 1
  BY LenProperties
<1>2. S \in SUBSET (0..e) /\ 1 \in S
  BY <1>1
<1>3. from \in S /\ \A k \in S : k <= from
  BY <1>1, <1>2, GreatestNumber
<1>4. StartOf(p, e) = from /\ Segment(p, e) = s
  BY DEF StartOf, Segment
<1> HIDE DEF from
<1>5. from \in 1..e /\ (from = 1 \/ p[from - 1] \in Separators)
  BY <1>3
<1>6. ASSUME NEW k \in from..(e - 1), p[k] \in Separators PROVE FALSE
  <2>1. k + 1 \in 1..e /\ (k + 1) - 1 = k
    BY <1>1, <1>5
  <2>2. k + 1 \in S
    BY <1>6, <2>1
  <2>3. k + 1 <= from
    BY <1>3, <2>2
  <2> QED
    BY <1>1, <1>5, <2>3
<1>7. ASSUME NEW k \in 1..e, k = 1 \/ p[k - 1] \in Separators,
             \A j \in k..(e - 1) : p[j] \notin Separators
      PROVE  from = k
  <2>1. k <= from
    BY <1>3, <1>7
  <2>2. CASE from # k
    <3>1. from - 1 \in k..(e - 1) /\ from # 1
      BY <1>1, <1>5, <2>1, <2>2
    <3> QED
      BY <1>5, <1>7, <3>1
  <2> QED
    BY <2>2
<1>8. /\ s \in Seq(Char \ Separators) /\ Len(s) = e - from
      /\ \A k \in 1..(e - from) : s[k] = p[from + k - 1]
  <2>1. \A k \in from..(e - 1) : p[k] \in Char \ Separators
    <3> SUFFICES ASSUME NEW k \in from..(e - 1) PROVE p[k] \in Char \ Separators
      OBVIOUS
    <3>1. k \in 1..Len(p)
      BY <1>1, <1>5
    <3> QED
      BY <1>6, <3>1, ElementOfSeq
  <2>2. from \in Int /\ e - 1 \in Int
    BY <1>1, <1>5
  <2>3. /\ s \in Seq(Char \ Separators)
        /\ Len(s) = IF from <= e - 1 THEN (e - 1) - from + 1 ELSE 0
        /\ \A k \in 1..((e - 1) - from + 1) : s[k] = p[from + k - 1]
    BY <2>1, <2>2, SubSeqProperties
  <2>4. (e - 1) - from + 1 = e - from /\ (~(from <= e - 1) => e - from = 0)
    BY <1>1, <1>5
  <2> HIDE DEF s
  <2> QED
    BY <2>3, <2>4
<1> HIDE DEF s
<1> QED
  BY <1>4, <1>5, <1>6, <1>7, <1>8

\* What the walk makes of one more character.
LEMMA NextPlace ==
  ASSUME NEW p \in Seq(Char), NEW k \in 1..Len(p)
  PROVE  /\ p[k] \notin Separators =>
              /\ StartOf(p, k + 1) = StartOf(p, k) /\ Walk(p)[k + 1] = Walk(p)[k]
              /\ Segment(p, k + 1) = Append(Segment(p, k), p[k])
         /\ p[k] \in Separators =>
              /\ StartOf(p, k + 1) = k + 1
              /\ Walk(p)[k + 1] = Walked(Walk(p)[k], Segment(p, k))
<1> DEFINE from == StartOf(p, k)
           s    == Segment(p, k)
           t    == Segment(p, k + 1)
<1>1. Len(p) \in Nat /\ k \in 1..(Len(p) + 1) /\ k + 1 \in 1..(Len(p) + 1)
  BY LenProperties
<1>2. /\ from \in 1..k /\ (from = 1 \/ p[from - 1] \in Separators)
      /\ \A j \in from..(k - 1) : p[j] \notin Separators
      /\ s \in Seq(Char \ Separators) /\ Len(s) = k - from
      /\ \A j \in 1..(k - from) : s[j] = p[from + j - 1]
  BY <1>1, SegmentPlaces
<1>3. /\ \A m \in 1..(k + 1) : /\ m = 1 \/ p[m - 1] \in Separators
                               /\ \A j \in m..((k + 1) - 1) : p[j] \notin Separators
                               => StartOf(p, k + 1) = m
      /\ t \in Seq(Char \ Separators) /\ Len(t) = (k + 1) - StartOf(p, k + 1)
      /\ \A j \in 1..((k + 1) - StartOf(p, k + 1)) : t[j] = p[StartOf(p, k + 1) + j - 1]
  BY <1>1, SegmentPlaces
<1>4. (k + 1) - 1 = k /\ k + 1 \in 1..(k + 1)
  BY <1>1
<1> HIDE DEF from, s, t
<1>5. CASE p[k] \in Separators
  <2>1. StartOf(p, k + 1) = k + 1
    <3>1. \A j \in (k + 1)..((k + 1) - 1) : p[j] \notin Separators
      BY <1>1
    <3> QED
      BY <1>3, <1>4, <1>5, <3>1
  <2> QED
    BY <1>1, <1>5, <2>1, WalkUnfolds DEF s
<1>6. CASE p[k] \notin Separators
  <2>1. StartOf(p, k + 1) = from
    <3>1. ASSUME NEW j \in from..((k + 1) - 1) PROVE p[j] \notin Separators
      <4>1. j = k \/ j \in from..(k - 1)
        BY <1>1, <1>2
      <4> QED
        BY <1>2, <1>6, <4>1
    <3>2. from \in 1..(k + 1)
      BY <1>1, <1>2
    <3> QED
      BY <1>2, <1>3, <3>1, <3>2
  <2>2. p[k] \in Char \ Separators
    BY <1>6, ElementOfSeq
  <2> DEFINE u == Append(s, p[k])
  <2>3. /\ u \in Seq(Char \ Separators) /\ Len(u) = Len(s) + 1
        /\ \A j \in 1..Len(s) : u[j] = s[j]
        /\ u[Len(s) + 1] = p[k]
    BY <1>2, <2>2, AppendProperties
  <2> HIDE DEF u
  <2>4. Len(t) = Len(u)
    BY <1>1, <1>2, <1>3, <2>1, <2>3
  <2>5. ASSUME NEW j \in 1..Len(t) PROVE t[j] = u[j]
    <3>1. t[j] = p[from + j - 1]
      BY <1>1, <1>2, <1>3, <2>1
    <3>2. CASE j \in 1..(k - from)
      BY <1>2, <2>3, <3>1, <3>2
    <3>3. CASE j = (k - from) + 1
      <4>1. from + j - 1 = k
        BY <1>1, <1>2, <3>3
      <4> QED
        BY <1>2, <2>3, <3>1, <3>3, <4>1
    <3> QED
      BY <1>1, <1>2, <2>3, <2>4, <3>2, <3>3
  <2>6. t = u
    BY <1>3, <2>3, <2>4, <2>5, SeqEqual
  <2> QED
    BY <1>1, <1>6, <2>1, <2>6, WalkUnfolds DEF from, t, u, s
<1> QED
  BY <1>5, <1>6

-----------------------------------------------------------------------------
(* The output is where the walk through the directories is.                *)

\* The directories lead from the root down, one name at a time.
Descends(dirs) ==
  /\ dirs \in Seq(Seq(Char)) /\ Len(dirs) >= 1 /\ dirs[1] = <<>>
  /\ \A j \in 2..Len(dirs) : \E s \in Seq(Char \ Separators) :
       s # <<>> /\ dirs[j] = (dirs[j - 1] \o <<"/">>) \o s

\* What ".." leaves of the output below the last of them.
Behind(dirs) ==
  IF Len(dirs) = 1 THEN <<>>
  ELSE IF Len(dirs) = 2 THEN <<"/">> ELSE dirs[Len(dirs) - 1]

\* With place k to be read, out is the last directory of the walk and a "/", and
\* after that what has been read of a name, in which no character before k was read
\* as a pair; or a whole ".." has been read, and its directory is cut off.
AtPlace(k, out) ==
  LET dirs  == Walk(path)[k]
      from  == StartOf(path, k)
      below == dirs[Len(dirs)] \o <<"/">>
  IN  /\ Descends(dirs)
      /\ \/ k = from /\ out = below
         \/ /\ k > from /\ out = below \o Segment(path, k)
            /\ \A j \in from..(k - 1) :
                 path[j] = "." => j = Len(path) \/ path[j + 1] \notin {".", "/"}
         \/ /\ Segment(path, k) = Up /\ out = Behind(dirs)
            /\ k > Len(path) \/ path[k] \in Separators

\* The invariant of the pass, for the arguments that it is meant for.
PassInv ==
  /\ Inv
  /\ result = "none" /\ Ordinary(path) => AtPlace(i, output)
  /\ AgreesWithReference

LEMMA Slash == "/" \in Char /\ <<"/">> \in Seq(Char) /\ Len(<<"/">>) = 1
<1>1. "/" \in Char
  BY DEF Char, Separators
<1> QED
  BY <1>1

\* Every directory of a walk but the root is longer than the root.
LEMMA DirectoryLengths ==
  ASSUME NEW dirs, Descends(dirs)
  PROVE  /\ Len(dirs) \in Nat /\ \A j \in 1..Len(dirs) : dirs[j] \in Seq(Char) /\ Len(dirs[j]) \in Nat
         /\ \A j \in 2..Len(dirs) : Len(dirs[j]) > Len(dirs[j - 1]) + 1
<1>1. Len(dirs) \in Nat /\ \A j \in 1..Len(dirs) : dirs[j] \in Seq(Char) /\ Len(dirs[j]) \in Nat
  <2>1. dirs \in Seq(Seq(Char))
    BY DEF Descends
  <2> QED
    BY <2>1, LenProperties, ElementOfSeq
<1>2. ASSUME NEW j \in 2..Len(dirs) PROVE Len(dirs[j]) > Len(dirs[j - 1]) + 1
  <2>1. PICK s \in Seq(Char \ Separators) :
          s # <<>> /\ dirs[j] = (dirs[j - 1] \o <<"/">>) \o s
    BY DEF Descends
  <2>2. s \in Seq(Char) /\ Len(s) \in Nat /\ Len(s) > 0
    <3>1. s \in Seq(Char)
      BY SeqMonotonic
    <3> QED
      BY <2>1, <3>1, LenProperties, EmptySeq
  <2>3. j - 1 \in 1..Len(dirs)
    BY <1>1
  <2> DEFINE up    == dirs[j - 1]
             below == up \o <<"/">>
  <2>4. up \in Seq(Char) /\ Len(up) \in Nat
    BY <1>1, <2>3
  <2>5. below \in Seq(Char) /\ Len(below) = Len(up) + 1
    BY <2>4, Slash, ConcatProperties
  <2>6. Len(dirs[j]) = Len(below) + Len(s)
    BY <2>1, <2>2, <2>5, ConcatProperties
  <2> QED
    BY <2>2, <2>4, <2>5, <2>6
<1> QED
  BY <1>1, <1>2

\* A walk goes on downwards with a name, and back with "..".
LEMMA WalkDescends ==
  ASSUME NEW dirs, Descends(dirs), NEW s \in Seq(Char \ Separators)
  PROVE  /\ Descends(Walked(dirs, s))
         /\ s \in {<<>>, Here} => Walked(dirs, s) = dirs
         /\ s \notin {<<>>, Here, Up} =>
              /\ Walked(dirs, s)[Len(Walked(dirs, s))] = (dirs[Len(dirs)] \o <<"/">>) \o s
              /\ Walked(dirs, s)[Len(Walked(dirs, s))] # <<>>
         /\ s = Up /\ Len(dirs) = 1 => Walked(dirs, s) = dirs
         /\ s = Up /\ Len(dirs) > 1 =>
              /\ Len(Walked(dirs, s)) = Len(dirs) - 1
              /\ Walked(dirs, s)[Len(dirs) - 1] = dirs[Len(dirs) - 1]
<1> DEFINE n    == Len(dirs)
           last == dirs[n]
           more == (last \o <<"/">>) \o s
           W    == Walked(dirs, s)
<1>1. /\ n \in Nat /\ n >= 1 /\ dirs \in Seq(Seq(Char)) /\ dirs[1] = <<>>
      /\ last \in Seq(Char) /\ Len(last) \in Nat
  <2>1. n \in Nat /\ n >= 1 /\ dirs \in Seq(Seq(Char)) /\ dirs[1] = <<>>
    BY DirectoryLengths DEF Descends
  <2> QED
    BY <2>1, DirectoryLengths
<1>0. n # 1 => /\ n - 1 \in Nat /\ 1 <= n - 1 /\ n > 1
               /\ 1 \in 1..(n - 1) /\ n - 1 \in 1..(n - 1)
  <2>1. n \in Nat /\ n >= 1
    BY <1>1
  <2> HIDE DEF n
  <2> QED
    BY <2>1
<1>2. Here # Up /\ <<>> # Up
  BY DEF Here, Up
<1>3. CASE s \in {<<>>, Here}
  BY <1>2, <1>3 DEF Walked
<1>4. CASE s = Up /\ n = 1
  BY <1>2, <1>4 DEF Walked
<1>5. CASE s = Up /\ n # 1
  <2>1. W = SubSeq(dirs, 1, n - 1)
    BY <1>2, <1>5 DEF Walked, Front
  <2>2. /\ W \in Seq(Seq(Char)) /\ Len(W) = n - 1
        /\ \A j \in 1..(n - 1) : W[j] = dirs[j]
    <3>1. n - 1 \in 0..n
      BY <1>0, <1>1, <1>5
    <3> QED
      BY <1>1, <2>1, <3>1, FirstPart
  <2> HIDE DEF W
  <2>3. ASSUME NEW j \in 2..Len(W)
        PROVE  \E x \in Seq(Char \ Separators) :
                 x # <<>> /\ W[j] = (W[j - 1] \o <<"/">>) \o x
    <3>1. j \in 2..n /\ j \in 1..(n - 1) /\ j - 1 \in 1..(n - 1)
      BY <1>1, <2>2
    <3>2. PICK x \in Seq(Char \ Separators) :
            x # <<>> /\ dirs[j] = (dirs[j - 1] \o <<"/">>) \o x
      BY <3>1 DEF Descends
    <3> QED
      BY <2>2, <3>1, <3>2
  <2>4. Len(W) >= 1 /\ W[1] = <<>> /\ W[n - 1] = dirs[n - 1]
    BY <1>0, <1>1, <1>5, <2>2
  <2>5. Descends(W)
    BY <2>2, <2>3, <2>4 DEF Descends
  <2> QED
    BY <1>2, <1>5, <2>2, <2>4, <2>5 DEF W
<1>6. CASE s \notin {<<>>, Here, Up}
  <2>1. W = Append(dirs, more)
    <3>1. Last(dirs) \o <<"/">> \o s = more
      BY DEF Last
    <3> QED
      BY <1>6, <3>1 DEF Walked
  <2>2. s \in Seq(Char) /\ Len(s) \in Nat /\ Len(s) > 0
    <3>1. s \in Seq(Char)
      BY SeqMonotonic
    <3> QED
      BY <1>6, <3>1, LenProperties, EmptySeq
  <2>3. more \in Seq(Char) /\ Len(more) > 0
    <3> DEFINE below == last \o <<"/">>
    <3>1. below \in Seq(Char) /\ Len(below) = Len(last) + 1
      BY <1>1, Slash, ConcatProperties
    <3>2. below \o s \in Seq(Char) /\ Len(below \o s) = Len(below) + Len(s)
      BY <2>2, <3>1, ConcatProperties
    <3> QED
      BY <1>1, <2>2, <3>1, <3>2
  <2>4. more # <<>>
    BY <2>3, EmptySeq
  <2> HIDE DEF more
  <2>5. /\ W \in Seq(Seq(Char)) /\ Len(W) = n + 1 /\ W[n + 1] = more
        /\ \A j \in 1..n : W[j] = dirs[j]
    BY <1>1, <2>1, <2>3, AppendProperties
  <2> HIDE DEF W
  <2>6. ASSUME NEW j \in 2..Len(W)
        PROVE  \E x \in Seq(Char \ Separators) :
                 x # <<>> /\ W[j] = (W[j - 1] \o <<"/">>) \o x
    <3>1. CASE j = n + 1
      <4>1. j - 1 = n /\ n \in 1..n
        BY <1>1, <3>1
      <4> QED
        BY <1>6, <2>5, <3>1, <4>1 DEF more
    <3>2. CASE j # n + 1
      <4>1. j \in 2..n /\ j \in 1..n /\ j - 1 \in 1..n
        BY <1>1, <2>5, <3>2
      <4>2. PICK x \in Seq(Char \ Separators) :
              x # <<>> /\ dirs[j] = (dirs[j - 1] \o <<"/">>) \o x
        BY <4>1 DEF Descends
      <4> QED
        BY <2>5, <4>1, <4>2
    <3> QED
      BY <3>1, <3>2
  <2>7. Descends(W)
    <3>1. 1 \in 1..n
      BY <1>1
    <3>2. Len(W) >= 1 /\ W[1] = <<>>
      BY <1>1, <2>5, <3>1
    <3> QED
      BY <2>5, <2>6, <3>2 DEF Descends
  <2> QED
    BY <1>6, <2>4, <2>5, <2>7 DEF W, more
<1> QED
  BY <1>3, <1>4, <1>5, <1>6

\* ".." below the last directory cuts the output back to the directory before it.
LEMMA ParentCutsBehind ==
  ASSUME NEW dirs, Descends(dirs), output = dirs[Len(dirs)] \o <<"/">>,
         NEW m \in 0..(Len(output) - 1), StopsAt(m)
  PROVE  SubSeq(output, 1, kept(m)) = Behind(dirs)
<1> DEFINE n    == Len(dirs)
           last == dirs[n]
<1>1. n \in Nat /\ n >= 1 /\ dirs[1] = <<>> /\ last \in Seq(Char) /\ Len(last) \in Nat
  <2>1. n \in Nat /\ n >= 1 /\ dirs[1] = <<>>
    BY DirectoryLengths DEF Descends
  <2> QED
    BY <2>1, DirectoryLengths
<1>2. /\ output \in Seq(Char) /\ Len(output) = Len(last) + 1
      /\ \A k \in 1..Len(last) : output[k] = last[k]
      /\ output[Len(last) + 1] = "/"
  <2>1. /\ output \in Seq(Char) /\ Len(output) = Len(last) + 1
        /\ \A k \in 1..(Len(last) + 1) :
             output[k] = IF k <= Len(last) THEN last[k] ELSE <<"/">>[k - Len(last)]
    BY <1>1, Slash, ConcatProperties
  <2>2. (Len(last) + 1) - Len(last) = 1 /\ Len(last) + 1 \in 1..(Len(last) + 1)
    BY <1>1
  <2> QED
    BY <1>1, <2>1, <2>2
<1>3. m \in 0..Len(last)
  BY <1>1, <1>2
<1>4. CASE n = 1
  <2>1. Len(last) = 0
    BY <1>1, <1>4, EmptySeq
  <2>2. kept(m) = 0
    BY <1>3, <2>1 DEF kept
  <2>3. SubSeq(output, 1, 0) = <<>>
    BY SubSeqEmpty
  <2> QED
    BY <1>4, <2>2, <2>3 DEF Behind
<1>5. CASE n # 1
  <2> DEFINE up == dirs[n - 1]
             c  == Len(up)
  <2>1. n \in 2..n /\ n - 1 \in 1..n
    BY <1>1, <1>5
  <2>2. PICK s \in Seq(Char \ Separators) :
          s # <<>> /\ last = (up \o <<"/">>) \o s
    BY <2>1 DEF Descends
  <2>3. up \in Seq(Char) /\ c \in Nat
    BY <2>1, DirectoryLengths
  <2>4. s \in Seq(Char) /\ Len(s) \in Nat /\ Len(s) > 0
    <3>1. s \in Seq(Char)
      BY SeqMonotonic
    <3> QED
      BY <2>2, <3>1, LenProperties, EmptySeq
  <2> HIDE DEF up
  <2> DEFINE below == up \o <<"/">>
  <2>5. /\ below \in Seq(Char) /\ Len(below) = c + 1
        /\ \A k \in 1..c : below[k] = up[k]
        /\ below[c + 1] = "/"
    <3>1. /\ below \in Seq(Char) /\ Len(below) = c + 1
          /\ \A k \in 1..(c + 1) : below[k] = IF k <= c THEN up[k] ELSE <<"/">>[k - c]
      BY <2>3, Slash, ConcatProperties
    <3>2. (c + 1) - c = 1 /\ c + 1 \in 1..(c + 1)
      BY <2>3
    <3> QED
      BY <2>3, <3>1, <3>2
  <2> HIDE DEF below, last
  <2>6. /\ Len(last) = c + 1 + Len(s)
        /\ \A k \in 1..c : last[k] = up[k]
        /\ last[c + 1] = "/"
        /\ \A k \in (c + 2)..Len(last) : last[k] # "/"
    <3>1. last = below \o s
      BY <2>2 DEF below
    <3>2. /\ Len(last) = Len(below) + Len(s)
          /\ \A k \in 1..(Len(below) + Len(s)) :
               last[k] = IF k <= Len(below) THEN below[k] ELSE s[k - Len(below)]
      BY <2>4, <2>5, <3>1, ConcatProperties
    <3>3. ASSUME NEW k \in (c + 2)..Len(last) PROVE last[k] # "/"
      <4>1. k \in 1..(Len(below) + Len(s)) /\ ~(k <= Len(below)) /\ k - Len(below) \in 1..Len(s)
        BY <2>3, <2>4, <2>5, <3>2
      <4>2. last[k] = s[k - Len(below)]
        BY <3>2, <4>1
      <4>3. s[k - Len(below)] \in Char \ Separators
        BY <4>1, ElementOfSeq
      <4> QED
        BY <4>2, <4>3 DEF Separators
    <3> QED
      BY <2>3, <2>4, <2>5, <3>2, <3>3
  <2>7. m = c + 1
    <3>1. m <= c + 1
      <4> SUFFICES ASSUME m > c + 1 PROVE FALSE
        BY <1>3, <2>3
      <4>1. m \in (c + 2)..Len(last) /\ m \in 1..Len(last) /\ m > 1
        BY <1>1, <1>3, <2>3
      <4> QED
        BY <1>2, <2>6, <4>1 DEF StopsAt
    <3>2. ~(m < c + 1)
      <4> SUFFICES ASSUME m < c + 1 PROVE FALSE
        OBVIOUS
      <4>1. c + 1 \in (m + 1)..(Len(output) - 1) /\ c + 1 \in 1..Len(last)
        BY <1>2, <1>3, <2>3, <2>4, <2>6
      <4> QED
        BY <1>2, <2>6, <4>1 DEF StopsAt
    <3> QED
      BY <1>3, <2>3, <3>1, <3>2
  <2>8. CASE n = 2
    <3>1. c = 0
      BY <1>1, <2>8, EmptySeq DEF up
    <3>2. kept(m) = 1
      BY <2>7, <3>1 DEF kept
    <3>3. SubSeq(output, 1, 1) = <<"/">>
      <4>1. output[1] = "/"
        BY <1>1, <1>2, <2>4, <2>6, <3>1
      <4> DEFINE o == SubSeq(output, 1, 1)
      <4>2. 1 \in 0..Len(output)
        BY <1>1, <1>2
      <4>3. o \in Seq(Char) /\ Len(o) = 1 /\ \A k \in 1..1 : o[k] = output[k]
        BY <1>2, <4>2, FirstPart
      <4> HIDE DEF o
      <4>4. Len(o) = Len(<<"/">>) /\ \A k \in 1..Len(o) : o[k] = <<"/">>[k]
        BY <4>1, <4>3
      <4>5. o = <<"/">>
        BY <4>3, <4>4, Slash, SeqEqual
      <4> QED
        BY <4>5 DEF o
    <3> QED
      BY <2>8, <3>2, <3>3 DEF Behind
  <2>9. CASE n # 2
    <3>1. c > 0
      <4>1. n - 1 \in 2..n /\ (n - 1) - 1 \in 1..n
        <5>1. n \in Nat /\ n >= 1 /\ n # 1 /\ n # 2
          BY <1>1, <1>5, <2>9
        <5> HIDE DEF n
        <5> QED
          BY <5>1
      <4>2. c > Len(dirs[(n - 1) - 1]) + 1 /\ Len(dirs[(n - 1) - 1]) \in Nat
        BY <4>1, DirectoryLengths DEF up
      <4> QED
        BY <2>3, <4>2
    <3>2. kept(m) = c
      BY <2>3, <2>7, <3>1 DEF kept
    <3> DEFINE o == SubSeq(output, 1, c)
    <3> HIDE DEF c
    <3>3. o = up
      <4>1. c \in 0..Len(output)
        BY <1>2, <2>3, <2>4, <2>6 DEF c
      <4>2. /\ o \in Seq(Char) /\ Len(o) = c
            /\ \A k \in 1..c : o[k] = output[k]
        BY <1>2, <4>1, FirstPart
      <4> HIDE DEF o
      <4>3. ASSUME NEW k \in 1..c PROVE output[k] = up[k]
        <5>1. k \in 1..Len(last)
          BY <2>3, <2>4, <2>6 DEF c
        <5> QED
          BY <1>2, <2>6, <5>1 DEF c
      <4>4. Len(o) = Len(up) /\ \A k \in 1..Len(o) : o[k] = up[k]
        BY <4>2, <4>3 DEF c
      <4> QED
        BY <2>3, <4>2, <4>4, SeqEqual
    <3> QED
      BY <1>5, <2>9, <3>2, <3>3 DEF Behind, up
  <2> QED
    BY <2>8, <2>9
<1> QED
  BY <1>4, <1>5

LEMMA Dots ==
  /\ "." \in Char \ Separators /\ "." # "/"
  /\ Len(Here) = 1 /\ Here[1] = "." /\ Len(Up) = 2 /\ Up[1] = "." /\ Up[2] = "."
  /\ Here \in Seq(Char \ Separators) /\ Up \in Seq(Char \ Separators)
<1>1. "." \in Char \ Separators /\ "." # "/"
  BY DEF Char, Separators
<1> QED
  BY <1>1 DEF Here, Up

\* No directory but the root is empty or ends with a separator.
LEMMA DirectoryEnds ==
  ASSUME NEW dirs, Descends(dirs), NEW j \in 2..Len(dirs)
  PROVE  dirs[j] # <<>> /\ dirs[j][Len(dirs[j])] # "/"
<1>1. PICK s \in Seq(Char \ Separators) :
        s # <<>> /\ dirs[j] = (dirs[j - 1] \o <<"/">>) \o s
  BY DEF Descends
<1>2. j \in 1..Len(dirs) /\ j - 1 \in 1..Len(dirs)
  BY DirectoryLengths
<1> DEFINE below == dirs[j - 1] \o <<"/">>
<1>3. below \in Seq(Char) /\ Len(below) \in Nat
  <2>1. dirs[j - 1] \in Seq(Char)
    BY <1>2, DirectoryLengths
  <2> QED
    BY <2>1, Slash, ConcatProperties, LenProperties
<1>4. s \in Seq(Char) /\ Len(s) \in Nat /\ Len(s) > 0 /\ s[Len(s)] # "/"
  <2>1. s \in Seq(Char)
    BY SeqMonotonic
  <2>2. Len(s) \in Nat /\ Len(s) > 0
    BY <1>1, LenProperties, EmptySeq
  <2>3. s[Len(s)] \in Char \ Separators
    BY <2>2, ElementOfSeq
  <2> QED
    BY <2>1, <2>2, <2>3 DEF Separators
<1> DEFINE d == below \o s
<1>5. /\ Len(d) = Len(below) + Len(s)
      /\ \A k \in 1..(Len(below) + Len(s)) :
           d[k] = IF k <= Len(below) THEN below[k] ELSE s[k - Len(below)]
  BY <1>3, <1>4, ConcatProperties
<1>6. dirs[j] = d
  BY <1>1
<1> HIDE DEF d, below
<1>7. Len(d) \in 1..(Len(below) + Len(s)) /\ ~(Len(d) <= Len(below)) /\ Len(d) - Len(below) = Len(s)
  BY <1>3, <1>4, <1>5
<1>8. d[Len(d)] = s[Len(s)]
  BY <1>5, <1>7
<1>9. d # <<>>
  BY <1>7, EmptySeq
<1> QED
  BY <1>4, <1>6, <1>8, <1>9

\* Where a segment ends, the output is the directory that the walk goes on from;
\* at the root it is the root's "/", which a ".." there may have taken; and behind
\* a separator that ends the argument it has that separator.
LEMMA SegmentEnds ==
  ASSUME Inv, Ordinary(path), AtPlace(i, output), i \in Ends(path)
  PROVE  LET s    == Segment(path, i)
             dirs == Walked(Walk(path)[i], s)
             dir  == dirs[Len(dirs)]
         IN  /\ Descends(dirs)
             /\ \/ /\ Len(dirs) = 1
                   /\ output = <<"/">> \/ (output = <<>> /\ i <= Len(path))
                \/ Len(dirs) > 1 /\ s # <<>> /\ output = dir
                \/ s = <<>> /\ i = Len(path) + 1 /\ output = dir \o <<"/">>
<1> DEFINE n    == Len(path)
           s    == Segment(path, i)
           from == StartOf(path, i)
           C    == Walk(path)[i]
           W    == Walked(C, s)
           Ended == \/ /\ Len(W) = 1
                       /\ output = <<"/">> \/ (output = <<>> /\ i <= n)
                    \/ Len(W) > 1 /\ s # <<>> /\ output = W[Len(W)]
                    \/ s = <<>> /\ i = n + 1 /\ output = W[Len(W)] \o <<"/">>
<1> SUFFICES Descends(W) /\ Ended
  OBVIOUS
<1>1. path \in Seq(Char) /\ n \in Nat /\ i \in 1..(n + 1)
  BY LenProperties DEF Inv, TypeOK
<1>2. /\ from \in 1..i /\ s \in Seq(Char \ Separators) /\ Len(s) = i - from
      /\ \A k \in 1..(i - from) : s[k] = path[from + k - 1]
  BY <1>1, SegmentPlaces
<1>3. /\ Descends(C)
      /\ \/ i = from /\ output = C[Len(C)] \o <<"/">>
         \/ /\ i > from /\ output = (C[Len(C)] \o <<"/">>) \o s
            /\ \A j \in from..(i - 1) :
                 path[j] = "." => j = n \/ path[j + 1] \notin {".", "/"}
         \/ s = Up /\ output = Behind(C)
  BY DEF AtPlace
<1>4. /\ s = <<>> => i \in {1, n + 1}
      /\ s = Here => i <= n /\ path[i] = "/"
      /\ s = Up /\ i = n + 1 => Len(C) > 1
  BY DEF Ordinary
<1>5. /\ Descends(W) /\ Len(W) \in Nat /\ Len(W) >= 1 /\ W[1] = <<>>
      /\ Len(C) \in Nat /\ Len(C) >= 1 /\ C[1] = <<>>
  <2>1. Descends(W)
    BY <1>2, <1>3, WalkDescends
  <2> QED
    BY <1>3, <2>1, DirectoryLengths DEF Descends
<1>6. i \in Int /\ from \in Int /\ Len(s) = i - from
  BY <1>1, <1>2
<1> HIDE DEF n, s, from, C, W, Ended
<1>7. CASE i = from /\ output = C[Len(C)] \o <<"/">>
  <2>1. s = <<>>
    BY <1>1, <1>2, <1>7, EmptySeq
  <2>2. W = C
    BY <1>2, <1>3, <2>1, WalkDescends DEF W
  <2>3. CASE i = n + 1
    BY <1>5, <1>7, <2>1, <2>2, <2>3 DEF Ended
  <2>4. CASE i = 1
    <3>1. C = << <<>> >>
      BY <1>1, <2>4, WalkUnfolds DEF C
    <3>2. Len(C) = 1
      BY <3>1
    <3>3. output = <<"/">>
      BY <1>5, <1>7, <3>2, Slash, ConcatEmptySeq
    <3> QED
      BY <1>5, <2>2, <3>2, <3>3 DEF Ended
  <2> QED
    BY <1>4, <2>1, <2>3, <2>4
<1>8. CASE /\ i > from /\ output = (C[Len(C)] \o <<"/">>) \o s
           /\ \A j \in from..(i - 1) :
                path[j] = "." => j = n \/ path[j + 1] \notin {".", "/"}
  <2>1. s # <<>>
    BY <1>1, <1>2, <1>8, EmptySeq
  <2>2. s # Here
    <3> SUFFICES ASSUME s = Here PROVE FALSE
      OBVIOUS
    <3>1. from = i - 1 /\ s[1] = "."
      <4>1. Len(s) = 1 /\ s[1] = "."
        BY Dots
      <4>2. i - from = 1 /\ i \in Int /\ from \in Int
        BY <1>6, <4>1
      <4> QED
        BY <4>1, <4>2
    <3>2. 1 \in 1..(i - from) /\ from + 1 - 1 = i - 1 /\ i - 1 \in from..(i - 1)
      BY <1>1, <1>2, <3>1
    <3>3. path[i - 1] = "." /\ (i - 1) + 1 = i
      BY <1>1, <1>2, <3>1, <3>2
    <3> QED
      BY <1>1, <1>4, <1>8, <3>2, <3>3
  <2>3. s # Up
    <3> SUFFICES ASSUME s = Up PROVE FALSE
      OBVIOUS
    <3>1. i = from + 2 /\ s[1] = "." /\ s[2] = "."
      <4>1. Len(s) = 2 /\ s[1] = "." /\ s[2] = "."
        BY Dots
      <4>2. i - from = 2 /\ i \in Int /\ from \in Int
        BY <1>6, <4>1
      <4> QED
        BY <4>1, <4>2
    <3>2. /\ 1 \in 1..(i - from) /\ from + 1 - 1 = from /\ from \in from..(i - 1)
          /\ 2 \in 1..(i - from) /\ from + 2 - 1 = from + 1 /\ from # n
      BY <1>1, <1>2, <3>1
    <3>3. path[from] = "." /\ path[from + 1] = "."
      BY <1>2, <3>1, <3>2
    <3> QED
      BY <1>8, <3>2, <3>3
  <2>4. W[Len(W)] = output /\ W[Len(W)] # <<>>
    BY <1>2, <1>3, <1>8, <2>1, <2>2, <2>3, WalkDescends DEF W
  <2>5. Len(W) > 1
    BY <1>5, <2>4
  <2> QED
    BY <1>5, <2>1, <2>4, <2>5 DEF Ended
<1>9. CASE s = Up /\ output = Behind(C)
  <2>1. s # <<>>
    BY <1>9, Dots, EmptySeq
  <2>2. CASE Len(C) = 1
    <3>1. W = C /\ output = <<>>
      BY <1>2, <1>3, <1>9, <2>2, WalkDescends DEF W, Behind
    <3>2. i <= n
      BY <1>1, <1>4, <1>9, <2>2
    <3> QED
      BY <1>5, <2>2, <3>1, <3>2 DEF Ended
  <2>3. CASE Len(C) = 2
    <3>1. Len(C) > 1
      BY <2>3
    <3>2. Len(W) = Len(C) - 1
      BY <1>2, <1>3, <1>9, <3>1, WalkDescends DEF W
    <3>3. Len(W) = 1 /\ output = <<"/">>
      BY <1>9, <2>3, <3>2 DEF Behind
    <3> QED
      BY <1>5, <3>3 DEF Ended
  <2>4. CASE Len(C) > 2
    <3>1. Len(C) > 1
      BY <1>5, <2>4
    <3>2. Len(W) = Len(C) - 1 /\ W[Len(C) - 1] = C[Len(C) - 1]
      BY <1>2, <1>3, <1>9, <3>1, WalkDescends DEF W
    <3>3. Len(W) > 1 /\ output = W[Len(W)]
      <4>1. Len(C) # 1 /\ Len(C) # 2 /\ Len(W) > 1
        BY <1>5, <2>4, <3>2
      <4> QED
        BY <1>9, <3>2, <4>1 DEF Behind
    <3> QED
      BY <1>5, <2>1, <3>3 DEF Ended
  <2>5. Len(C) = 1 \/ Len(C) = 2 \/ Len(C) > 2
    <3>1. \A c \in Nat : c >= 1 => c = 1 \/ c = 2 \/ c > 2
      OBVIOUS
    <3> QED
      BY <1>5, <3>1
  <2> QED
    BY <2>2, <2>3, <2>4, <2>5
<1> QED
  BY <1>3, <1>5, <1>7, <1>8, <1>9

\* A separator: the output is at the beginning of the next segment.
LEMMA SeparatorKeepsPlace ==
  ASSUME Inv, Ordinary(path), AtPlace(i, output), separator, result' = "none"
  PROVE  AtPlace(i', output')
<1> DEFINE n == Len(path)
           s == Segment(path, i)
           W == Walked(Walk(path)[i], s)
           d == W[Len(W)]
<1>1. /\ path \in Seq(Char) /\ n \in Nat /\ i \in 1..n /\ path[i] \in Separators
      /\ i \in Ends(path)
  BY LenProperties DEF Inv, TypeOK, separator, Reading, Ends
<1>2. /\ Descends(W)
      /\ \/ Len(W) = 1 /\ (output = <<"/">> \/ output = <<>>)
         \/ Len(W) > 1 /\ output = d
  <2>1. i # n + 1
    BY <1>1
  <2> HIDE DEF n
  <2> QED
    BY <1>1, <2>1, SegmentEnds DEF n
<1>3. StartOf(path, i + 1) = i + 1 /\ Walk(path)[i + 1] = W
  BY <1>1, NextPlace
<1>4. /\ i' = i + 1
      /\ OpensSegment => output' = Append(output, "/")
      /\ ~OpensSegment => output' = <<"/">>
  BY DEF separator, put
<1> HIDE DEF W, d
<1>5. Len(W) \in Nat /\ Len(W) >= 1 /\ W[1] = <<>> /\ d \in Seq(Char)
  <2>1. Len(W) \in Nat /\ Len(W) >= 1 /\ W[1] = <<>>
    BY <1>2, DirectoryLengths DEF Descends
  <2> QED
    BY <1>2, <2>1, DirectoryLengths DEF d
<1>6. output' = d \o <<"/">>
  <2>1. CASE Len(W) = 1 /\ (output = <<"/">> \/ output = <<>>)
    <3>1. d = <<>>
      BY <1>5, <2>1 DEF d
    <3>2. d \o <<"/">> = <<"/">>
      BY <3>1, Slash, ConcatEmptySeq
    <3>3. CASE output = <<"/">>
      <4>1. ~OpensSegment
        BY <3>3 DEF OpensSegment
      <4> QED
        BY <1>4, <3>2, <4>1
    <3>4. CASE output = <<>>
      <4>1. OpensSegment
        BY <3>4 DEF OpensSegment
      <4>2. Append(<<>>, "/") = <<"/">>
        OBVIOUS
      <4> QED
        BY <1>4, <3>2, <3>4, <4>1, <4>2
    <3> QED
      BY <2>1, <3>3, <3>4
  <2>2. CASE Len(W) > 1 /\ output = d
    <3>1. Len(W) \in 2..Len(W)
      BY <1>5, <2>2
    <3>2. d # <<>> /\ d[Len(d)] # "/"
      BY <1>2, <3>1, DirectoryEnds DEF d
    <3>3. OpensSegment
      BY <2>2, <3>2 DEF OpensSegment
    <3> QED
      BY <1>4, <1>5, <2>2, <3>3, Slash, AppendIsConcat
  <2> QED
    BY <1>2, <2>1, <2>2
<1>7. AtPlace(i + 1, output')
  BY <1>2, <1>3, <1>6 DEF AtPlace, d
<1> QED
  BY <1>4, <1>7

\* A character of a name.
LEMMA CharacterKeepsPlace ==
  ASSUME Inv, AtPlace(i, output), character, result' = "none"
  PROVE  AtPlace(i', output')
<1> DEFINE n     == Len(path)
           from  == StartOf(path, i)
           s     == Segment(path, i)
           C     == Walk(path)[i]
           below == C[Len(C)] \o <<"/">>
<1>1. /\ path \in Seq(Char) /\ n \in Nat /\ i \in 1..n /\ path[i] \notin Separators
      /\ path[i] \in Char /\ i \in 1..(n + 1)
  <2>1. path \in Seq(Char) /\ n \in Nat /\ i \in 1..n /\ path[i] \notin Separators
    BY LenProperties DEF Inv, TypeOK, character, Reading
  <2> QED
    BY <2>1, ElementOfSeq
<1>2. /\ from \in 1..i /\ s \in Seq(Char \ Separators) /\ Len(s) = i - from
  BY <1>1, SegmentPlaces
<1>3. /\ StartOf(path, i + 1) = from /\ Walk(path)[i + 1] = C
      /\ Segment(path, i + 1) = Append(s, path[i])
  BY <1>1, NextPlace
<1>4. i' = i + 1 /\ output' = Append(output, path[i])
  BY DEF character, put
<1>5. path[i] = "." => i = n \/ path[i + 1] \notin {".", "/"}
  BY <1>1 DEF character, Pair
<1>6. /\ Descends(C)
      /\ \/ i = from /\ output = below
         \/ /\ i > from /\ output = below \o s
            /\ \A j \in from..(i - 1) :
                 path[j] = "." => j = n \/ path[j + 1] \notin {".", "/"}
  <2>1. ~(i > n \/ path[i] \in Separators)
    BY <1>1
  <2> QED
    BY <2>1 DEF AtPlace
<1>7. below \in Seq(Char) /\ s \in Seq(Char)
  <2>1. C[Len(C)] \in Seq(Char)
    <3>1. Len(C) \in 1..Len(C)
      BY <1>6, DirectoryLengths DEF Descends
    <3> QED
      BY <1>6, <3>1, DirectoryLengths
  <2>2. s \in Seq(Char)
    BY <1>2, SeqMonotonic
  <2> QED
    BY <2>1, <2>2, Slash, ConcatProperties
<1> HIDE DEF from, s, C
<1>8. output = below \o s
  <2>1. CASE i = from
    <3>1. s = <<>>
      BY <1>2, <2>1, EmptySeq
    <3>2. output = below
      BY <1>2, <1>6, <2>1
    <3> HIDE DEF below
    <3> QED
      BY <1>7, <3>1, <3>2, ConcatEmptySeq
  <2> QED
    BY <1>6, <2>1
<1>9. \A j \in from..((i + 1) - 1) :
        path[j] = "." => j = n \/ path[j + 1] \notin {".", "/"}
  <2> SUFFICES ASSUME NEW j \in from..((i + 1) - 1)
               PROVE  path[j] = "." => j = n \/ path[j + 1] \notin {".", "/"}
    OBVIOUS
  <2>1. j = i \/ (i > from /\ j \in from..(i - 1))
    BY <1>1, <1>2
  <2>2. CASE j = i
    BY <1>5, <2>2
  <2>3. CASE i > from /\ j \in from..(i - 1)
    BY <1>2, <1>6, <2>3
  <2> QED
    BY <2>1, <2>2, <2>3
<1>10. output' = below \o Append(s, path[i])
  <2> HIDE DEF below
  <2>1. <<path[i]>> \in Seq(Char)
    BY <1>1
  <2>2. below \o s \in Seq(Char)
    BY <1>7, ConcatProperties
  <2>3. output' = (below \o s) \o <<path[i]>>
    BY <1>1, <1>4, <1>8, <2>2, AppendIsConcat
  <2>4. Append(s, path[i]) = s \o <<path[i]>>
    BY <1>1, <1>7, AppendIsConcat
  <2> QED
    BY <1>7, <2>1, <2>3, <2>4, ConcatAssociative
<1>11. i + 1 > from
  BY <1>1, <1>2
<1>12. AtPlace(i + 1, output')
  BY <1>3, <1>6, <1>9, <1>10, <1>11 DEF AtPlace, from, C, s
<1> QED
  BY <1>4, <1>12

\* "..": it is a whole segment, and cuts the output back.
LEMMA ParentKeepsPlace ==
  ASSUME Inv, Ordinary(path), AtPlace(i, output), parent
  PROVE  AtPlace(i', output') /\ result' = result
<1> DEFINE n    == Len(path)
           from == StartOf(path, i)
           C    == Walk(path)[i]
<1>1. /\ path \in Seq(Char) /\ n \in Nat /\ i \in 1..n /\ i + 1 \in 1..n
      /\ i \in 1..(n + 1) /\ path[i] = "." /\ path[i + 1] = "."
      /\ path[i] \notin Separators /\ path[i + 1] \notin Separators
  <2>1. path \in Seq(Char) /\ n \in Nat /\ i \in 1..n /\ i < n /\ path[i] = "." /\ path[i + 1] = "."
    BY LenProperties DEF Inv, TypeOK, parent, Reading, Pair
  <2> QED
    BY <2>1, Dots
<1>2. /\ from \in 1..i /\ (from = 1 \/ path[from - 1] \in Separators)
      /\ \A k \in from..(i - 1) : path[k] \notin Separators
  BY <1>1, SegmentPlaces
<1>3. /\ Descends(C)
      /\ \/ i = from /\ output = C[Len(C)] \o <<"/">>
         \/ i > from
  <2>1. ~(i > n \/ path[i] \in Separators)
    BY <1>1
  <2> QED
    BY <2>1 DEF AtPlace
<1>4. /\ Walk(path)[(i + 1) + 1] = C /\ StartOf(path, (i + 1) + 1) = from
  BY <1>1, NextPlace
<1>5. (i + 1) + 1 = i + 2 /\ i + 2 \in 1..(n + 1)
  BY <1>1
<1> HIDE DEF from, C
<1> DEFINE Later == {e \in (i + 2)..(n + 1) : e > n \/ path[e] \in Separators}
<1>6. PICK e \in Later : \A k \in Later : e <= k
  <2>1. Later \in SUBSET Nat /\ n + 1 \in Later
    BY <1>1, <1>5
  <2> HIDE DEF Later
  <2> QED
    BY <2>1, LeastNumber
<1>7. e \in (i + 2)..(n + 1) /\ e \in 1..(n + 1) /\ e \in Ends(path)
  BY <1>1, <1>6 DEF Ends
<1>8. ASSUME NEW k \in from..(e - 1) PROVE path[k] \notin Separators
  <2>1. CASE k < i + 2
    <3>1. k \in from..(i - 1) \/ k = i \/ k = i + 1
      BY <1>1, <1>2, <2>1
    <3> QED
      BY <1>1, <1>2, <3>1
  <2>2. CASE k >= i + 2
    <3>1. k \in (i + 2)..(n + 1) /\ ~(e <= k)
      BY <1>1, <1>2, <1>7, <2>2
    <3> QED
      BY <1>6, <3>1
  <2> QED
    BY <1>1, <1>2, <2>1, <2>2
<1> DEFINE s == Segment(path, e)
<1>9. /\ s \in Seq(Char \ Separators) /\ Len(s) = e - from
      /\ \A k \in 1..(e - from) : s[k] = path[from + k - 1]
  <2>1. from \in 1..e
    BY <1>1, <1>2, <1>7
  <2>2. StartOf(path, e) = from
    BY <1>1, <1>2, <1>7, <1>8, <2>1, SegmentPlaces
  <2> QED
    BY <1>1, <1>7, <2>2, SegmentPlaces
<1>10. s \notin {<<>>, Here, Up} => \A k \in 1..(Len(s) - 1) : s[k] # "." \/ s[k + 1] # "."
  BY <1>7 DEF Ordinary
<1> HIDE DEF s, Later
<1> DEFINE k == i - from + 1
<1>11. /\ k \in 1..(e - from) /\ k + 1 \in 1..(e - from) /\ k \in 1..(Len(s) - 1)
       /\ from + k - 1 = i /\ from + (k + 1) - 1 = i + 1 /\ Len(s) >= 2
  <2>1. i \in Int /\ from \in Int /\ e \in Int /\ from <= i /\ e >= i + 2 /\ Len(s) = e - from
    BY <1>1, <1>2, <1>7, <1>9
  <2> QED
    BY <2>1
<1> HIDE DEF k
<1>12. s[k] = "." /\ s[k + 1] = "."
  BY <1>1, <1>9, <1>11
<1>13. s = Up
  <2>1. s # <<>> /\ s # Here
    <3>1. Len(s) \in Nat
      BY <1>9, LenProperties
    <3>2. \A l \in Nat : l >= 2 => l # 0 /\ l # 1
      OBVIOUS
    <3>3. Len(s) # 0 /\ Len(s) # 1
      BY <1>11, <3>1, <3>2
    <3> QED
      BY <3>3, Dots, EmptySeq
  <2> QED
    BY <1>10, <1>11, <1>12, <2>1
<1>14. i = from /\ e = i + 2
  <2>1. e - from = 2
    BY <1>9, <1>13, Dots
  <2>2. i \in Int /\ from \in Int /\ e \in Int /\ from <= i /\ e >= i + 2
    BY <1>1, <1>2, <1>7
  <2> QED
    BY <2>1, <2>2
<1>15. output = C[Len(C)] \o <<"/">>
  <2>1. ~(i > from)
    BY <1>1, <1>14
  <2> QED
    BY <1>3, <2>1
<1>16. output # <<>>
  <2>1. C[Len(C)] \in Seq(Char) /\ Len(C[Len(C)]) \in Nat
    <3>1. Len(C) \in 1..Len(C)
      BY <1>3, DirectoryLengths DEF Descends
    <3> QED
      BY <1>3, <3>1, DirectoryLengths
  <2>2. Len(output) = Len(C[Len(C)]) + 1
    BY <1>15, <2>1, Slash, ConcatProperties
  <2> QED
    BY <2>1, <2>2, EmptySeq
<1>17. i' = i + 2 /\ result' = result
  BY <1>16 DEF parent, past_parent
<1>18. PICK m \in 0..(Len(output) - 1) : StopsAt(m) /\ output' = SubSeq(output, 1, kept(m))
  BY <1>16, Zenon DEF parent
<1>19. output' = Behind(C)
  BY <1>3, <1>15, <1>18, ParentCutsBehind
<1>20. i + 2 > n \/ path[i + 2] \in Separators
  BY <1>6, <1>14 DEF Later
<1>21. AtPlace(i + 2, output')
  BY <1>3, <1>4, <1>5, <1>13, <1>14, <1>19, <1>20 DEF AtPlace, C, s
<1> QED
  BY <1>17, <1>21

\* ".": it is a whole segment, and is passed over with its "/".
LEMMA HereKeepsPlace ==
  ASSUME Inv, Ordinary(path), AtPlace(i, output), here
  PROVE  AtPlace(i', output') /\ result' = result
<1> DEFINE n    == Len(path)
           from == StartOf(path, i)
           C    == Walk(path)[i]
           e    == i + 1
           s    == Segment(path, e)
<1>1. /\ path \in Seq(Char) /\ n \in Nat /\ i \in 1..n /\ e \in 1..n
      /\ i \in 1..(n + 1) /\ e \in 1..(n + 1) /\ path[i] = "." /\ path[e] = "/"
      /\ path[i] \notin Separators /\ path[e] \in Separators /\ e \in Ends(path)
      /\ i' = i + 2 /\ output' = output /\ result' = result
  <2>1. /\ path \in Seq(Char) /\ n \in Nat /\ i \in 1..n /\ i < n /\ path[i] = "." /\ path[e] = "/"
        /\ i' = i + 2 /\ output' = output /\ result' = result
    BY LenProperties DEF Inv, TypeOK, here, Reading, Pair
  <2>2. "/" \in Separators
    BY DEF Separators
  <2> QED
    BY <2>1, <2>2, Dots DEF Ends
<1>2. from \in 1..i
  BY <1>1, SegmentPlaces
<1>3. /\ Walk(path)[e] = C /\ StartOf(path, e) = from
      /\ Walk(path)[e + 1] = Walked(C, s) /\ StartOf(path, e + 1) = e + 1
  <2> HIDE DEF e
  <2>1. Walk(path)[e + 1] = Walked(Walk(path)[e], Segment(path, e)) /\ StartOf(path, e + 1) = e + 1
    BY <1>1, NextPlace
  <2>2. Walk(path)[i + 1] = C /\ StartOf(path, i + 1) = from
    BY <1>1, NextPlace
  <2> QED
    BY <2>1, <2>2 DEF e
<1>4. /\ s \in Seq(Char \ Separators) /\ Len(s) = e - from
      /\ \A k \in 1..(e - from) : s[k] = path[from + k - 1]
  <2> HIDE DEF e, from
  <2>1. /\ s \in Seq(Char \ Separators) /\ Len(s) = e - StartOf(path, e)
        /\ \A k \in 1..(e - StartOf(path, e)) : s[k] = path[StartOf(path, e) + k - 1]
    BY <1>1, SegmentPlaces
  <2>2. StartOf(path, e) = from
    BY <1>3
  <2> HIDE DEF s
  <2> QED
    BY <2>1, <2>2
<1>5. /\ Descends(C)
      /\ \/ i = from /\ output = C[Len(C)] \o <<"/">>
         \/ /\ i > from
            /\ \A j \in from..(i - 1) :
                 path[j] = "." => j = n \/ path[j + 1] \notin {".", "/"}
  <2>1. ~(i > n \/ path[i] \in Separators)
    BY <1>1
  <2> QED
    BY <2>1 DEF AtPlace
<1>6. s \notin {<<>>, Here, Up} => s[Len(s)] # "."
  BY <1>1 DEF Ordinary
<1> HIDE DEF from, C, s
<1>7. /\ Len(s) \in 1..(e - from) /\ from + Len(s) - 1 = i /\ Len(s) = (i - from) + 1
      /\ Len(s) >= 1
  <2>1. i \in Int /\ from \in Int /\ from <= i /\ Len(s) = (i + 1) - from
    BY <1>1, <1>2, <1>4
  <2> QED
    BY <2>1
<1>8. s[Len(s)] = "."
  BY <1>1, <1>4, <1>7
<1>9. i = from
  <2> SUFFICES ASSUME i > from PROVE FALSE
    BY <1>5
  <2>1. Len(s) >= 2
    BY <1>1, <1>2, <1>7
  <2>2. s = Up
    BY <1>6, <1>8, <2>1, Dots, EmptySeq
  <2>3. (i - from) + 1 = 2
    BY <1>7, <2>2, Dots
  <2>4. i = from + 1 /\ from \in from..(i - 1) /\ from # n
    BY <1>1, <1>2, <2>3
  <2>5. path[from] = "."
    <3>1. 1 \in 1..(e - from) /\ from + 1 - 1 = from
      BY <1>2, <2>4
    <3>2. s[1] = path[from]
      BY <1>4, <3>1
    <3> QED
      BY <2>2, <3>2, Dots
  <2> QED
    BY <1>1, <1>5, <2>4, <2>5
<1>10. s = Here
  <2>1. Len(s) = 1
    BY <1>1, <1>7, <1>9
  <2>2. s[1] = "."
    BY <1>8, <2>1
  <2>3. \A k \in 1..Len(s) : s[k] = Here[k]
    BY <2>1, <2>2, Dots
  <2> QED
    BY <1>4, <2>1, <2>3, Dots, SeqEqual
<1>11. Walk(path)[i + 2] = C /\ StartOf(path, i + 2) = i + 2
  <2>1. Walked(C, s) = C
    BY <1>4, <1>5, <1>10, WalkDescends
  <2>2. e + 1 = i + 2
    BY <1>1
  <2> QED
    BY <1>3, <2>1, <2>2
<1>12. output = C[Len(C)] \o <<"/">>
  <2>1. ~(i > from)
    BY <1>1, <1>9
  <2> QED
    BY <1>5, <2>1
<1>13. AtPlace(i + 2, output)
  BY <1>5, <1>11, <1>12 DEF AtPlace
<1> QED
  BY <1>1, <1>13

\* At the end of the argument the output is the reference.
LEMMA FinishAgrees ==
  ASSUME Inv, Ordinary(path), AtPlace(i, output), finish
  PROVE  output' = Reference(path) /\ path' = path
<1> DEFINE n == Len(path)
           s == Segment(path, i)
           W == Walked(Walk(path)[i], s)
           d == W[Len(W)]
<1>1. /\ path \in Seq(Char) /\ n \in Nat /\ i = n + 1 /\ i \in Ends(path)
      /\ output' = output /\ path' = path
  BY LenProperties DEF Inv, TypeOK, finish, Ends
<1>2. /\ Descends(W)
      /\ \/ Len(W) = 1 /\ output = <<"/">>
         \/ Len(W) > 1 /\ s # <<>> /\ output = d
         \/ s = <<>> /\ output = d \o <<"/">>
  <2>1. ~(i <= n)
    BY <1>1
  <2> HIDE DEF n
  <2> QED
    BY <1>1, <2>1, SegmentEnds DEF n
<1>3. Reference(path) = IF d = <<>> \/ s = <<>> THEN Append(d, "/") ELSE d
  BY <1>1 DEF Reference, Last
<1> HIDE DEF W, d, s
<1>4. Len(W) \in Nat /\ Len(W) >= 1 /\ W[1] = <<>> /\ d \in Seq(Char)
  <2>1. Len(W) \in Nat /\ Len(W) >= 1 /\ W[1] = <<>>
    BY <1>2, DirectoryLengths DEF Descends
  <2> QED
    BY <1>2, <2>1, DirectoryLengths DEF d
<1>5. Append(d, "/") = d \o <<"/">>
  BY <1>4, Slash, AppendIsConcat
<1>6. CASE Len(W) = 1 /\ output = <<"/">>
  <2>1. d = <<>>
    BY <1>4, <1>6 DEF d
  <2>2. d \o <<"/">> = <<"/">>
    BY <2>1, Slash, ConcatEmptySeq
  <2> QED
    BY <1>1, <1>3, <1>5, <1>6, <2>1, <2>2
<1>7. CASE Len(W) > 1 /\ s # <<>> /\ output = d
  <2>1. Len(W) \in 2..Len(W)
    BY <1>4, <1>7
  <2>2. d # <<>>
    BY <1>2, <2>1, DirectoryEnds DEF d
  <2> QED
    BY <1>1, <1>3, <1>7, <2>2
<1>8. CASE s = <<>> /\ output = d \o <<"/">>
  BY <1>1, <1>3, <1>5, <1>8
<1> QED
  BY <1>2, <1>6, <1>7, <1>8

LEMMA PassStart == Init => PassInv
<1> SUFFICES ASSUME Init PROVE PassInv
  OBVIOUS
<1>1. i = 1 /\ output = <<"/">> /\ result = "none" /\ Inv
  BY InvInit DEF Init
<1>2. path \in Seq(Char) /\ Len(path) \in Nat /\ 1 \in 1..(Len(path) + 1)
  BY <1>1, LenProperties DEF Inv, TypeOK
<1> DEFINE C == Walk(path)[1]
<1>3. C = << <<>> >>
  BY <1>2, WalkUnfolds
<1> HIDE DEF C
<1>4. Len(C) = 1 /\ C[1] = <<>>
  BY <1>3
<1>5. <<>> \in Seq(Char) /\ <<>> \o <<"/">> = <<"/">>
  BY Slash, ConcatEmptySeq, EmptySeq
<1>6. Descends(C)
  <2>1. C \in Seq(Seq(Char))
    BY <1>3, <1>5
  <2>2. 2..Len(C) = {}
    BY <1>4
  <2> QED
    BY <1>4, <2>1, <2>2 DEF Descends
<1>7. StartOf(path, 1) = 1
  <2>1. StartOf(path, 1) \in 1..1
    BY <1>2, SegmentPlaces
  <2> QED
    BY <2>1
<1>8. AtPlace(1, output)
  BY <1>1, <1>4, <1>5, <1>6, <1>7 DEF AtPlace, C
<1> QED
  BY <1>1, <1>8 DEF PassInv, AgreesWithReference

\* The place that the primed output is at, in terms of the argument, which stays.
LEMMA PlaceStays ==
  ASSUME path' = path, AtPlace(i', output')
  PROVE  AtPlace(i, output)'
BY DEF AtPlace

LEMMA PassStep == PassInv /\ [Next]_vars => PassInv'
<1> SUFFICES ASSUME PassInv, [Next]_vars PROVE PassInv'
  OBVIOUS
<1>1. /\ Inv /\ Inv' /\ AgreesWithReference
      /\ result = "none" /\ Ordinary(path) => AtPlace(i, output)
  BY InvNext DEF PassInv
<1> DEFINE Goal == /\ path' = path
                   /\ result' = "none" /\ Ordinary(path) => AtPlace(i', output')
                   /\ result' = "path" /\ Ordinary(path) => output' = Reference(path)
<1>2. SUFFICES Goal
  <2>1. ASSUME Goal PROVE PassInv'
    <3>1. Ordinary(path)' <=> Ordinary(path)
      BY <2>1
    <3>2. (result = "none" /\ Ordinary(path) => AtPlace(i, output))'
      BY <2>1, <3>1, PlaceStays
    <3>3. AgreesWithReference'
      BY <2>1, <3>1 DEF AgreesWithReference
    <3> QED
      BY <1>1, <3>2, <3>3 DEF PassInv
  <2> QED
    BY <2>1
<1>3. CASE separator
  <2>1. result = "none" /\ path' = path /\ result' \in {"none", "null"}
    BY <1>3 DEF separator, Reading, put
  <2> QED
    BY <1>1, <1>3, <2>1, SeparatorKeepsPlace
<1>4. CASE parent
  <2>1. result = "none" /\ path' = path /\ result' \in {"none", "undefined"}
    BY <1>4 DEF parent, Reading
  <2> QED
    BY <1>1, <1>4, <2>1, ParentKeepsPlace
<1>5. CASE here
  <2>1. result = "none" /\ path' = path /\ result' = "none"
    BY <1>5 DEF here, Reading
  <2> QED
    BY <1>1, <1>5, <2>1, HereKeepsPlace
<1>6. CASE character
  <2>1. result = "none" /\ path' = path /\ result' \in {"none", "null"}
    BY <1>6 DEF character, Reading, put
  <2> QED
    BY <1>1, <1>6, <2>1, CharacterKeepsPlace
<1>7. CASE finish
  <2>1. result = "none" /\ path' = path /\ result' = "path"
    BY <1>7 DEF finish
  <2> QED
    BY <1>1, <1>7, <2>1, FinishAgrees
<1>8. CASE UNCHANGED vars
  BY <1>1, <1>8 DEF vars, AgreesWithReference
<1> QED
  BY <1>3, <1>4, <1>5, <1>6, <1>7, <1>8 DEF Next

\* For every ordinary argument, of whatever length and with however many ".." in
\* it, the path that the pass returns is the one its segments lead to (utils.c:36-94).
THEOREM NormalizesAsReference == Spec => []AgreesWithReference
<1>1. PassInv => AgreesWithReference
  BY DEF PassInv
<1> QED
  BY PassStart, PassStep, <1>1, PTL DEF Spec
=============================================================================
