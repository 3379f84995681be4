----------------------------- MODULE TextProofs -----------------------------
(***************************************************************************)
(* What the functions that work on queries, headers and file names do for  *)
(* every argument and every size of their buffers.                         *)
(***************************************************************************)
EXTENDS PathProofs, QueryParams, ResponseHeader, CandidatePaths, FiniteSetTheorems

-----------------------------------------------------------------------------
(* parse_get_url: the room in the array of parameters.                     *)

ArrayInv ==
  /\ \E P : params \in Seq(P)
  /\ slots \in Nat
  /\ Len(params) <= slots

\* Another element is never written behind the slots that the array has.
LEMMA PushFits ==
  ASSUME ArrayInv, NEW param, utarray_push_back(param)
  PROVE  ArrayInv'
<1>1. PICK P : params \in Seq(P)
  BY DEF ArrayInv
<1> DEFINE Q == P \cup {param}
<1>2. params \in Seq(Q) /\ param \in Q
  BY <1>1, SeqMonotonic
<1>3. params' \in Seq(Q) /\ Len(params') = Len(params) + 1 /\ Len(params) \in Nat
  BY <1>2, AppendProperties, LenProperties DEF utarray_push_back
<1>4. slots' = utarray_reserve(Len(params), slots)
  BY DEF utarray_push_back
<1>5. slots' \in Nat /\ Len(params) + 1 <= slots'
  BY <1>3, <1>4 DEF utarray_reserve, ArrayInv
<1> QED
  BY <1>3, <1>5 DEF ArrayInv

\* However many fields a query has, utarray_reserve has made room for each pair
\* before utarray_push_back writes it.
THEOREM SlotsAlwaysSuffice == QuerySpec => []SlotsSuffice
<1>1. QueryInit => ArrayInv
  <2> SUFFICES ASSUME QueryInit PROVE ArrayInv
    OBVIOUS
  <2>1. params = <<>> /\ slots = 0
    BY DEF QueryInit
  <2> QED
    BY <2>1, EmptySeq DEF ArrayInv
<1>2. ArrayInv /\ [QueryNext]_queryVars => ArrayInv'
  <2> SUFFICES ASSUME ArrayInv, [QueryNext]_queryVars PROVE ArrayInv'
    OBVIOUS
  <2>1. ASSUME NEW param, utarray_push_back(param) PROVE ArrayInv'
    BY <2>1, PushFits
  <2>2. CASE UNCHANGED <<params, slots>>
    BY <2>2 DEF ArrayInv
  <2> QED
    BY <2>1, <2>2 DEF QueryNext, parse_get_url, queryVars
<1>3. ArrayInv => SlotsSuffice
  BY DEF ArrayInv, SlotsSuffice
<1> QED
  BY <1>1, <1>2, <1>3, PTL DEF QuerySpec

-----------------------------------------------------------------------------
(* parse_get_url: two tokenizers in one buffer.                            *)

\* The characters of the buffer.
Mark == STRING \cup {"NUL"}

\* What strtok_r returns in the copy s from p on, where the pieces of the query's
\* places lo to hi are looked for: the next piece, ended with a NUL, or none.
PieceFound(t, s, p, lo, hi, d) ==
  LET B == Begins(query, lo, hi, d)
  IN  \/ /\ t = [token |-> 0, saved |-> hi + 1, buf |-> s]
         /\ \A q \in B : q < p
      \/ \E a \in B, u \in 1..hi :
           /\ p <= a /\ a <= u /\ u = EndOf(query, a, hi, d)
           /\ u = hi \/ query[u + 1] = d
           /\ t = [token |-> a, saved |-> IF u = hi THEN hi + 1 ELSE u + 2,
                   buf |-> [s EXCEPT ![u + 1] = "NUL"]]
           /\ \A q \in B : q < p \/ q = a \/ q >= t.saved

\* It does so in a copy that still has the query's characters from p to hi and a
\* NUL behind them.
LEMMA NextPiece ==
  ASSUME query \in Seq(STRING \ {"NUL"}),
         NEW d \in {"&", "="}, NEW lo \in Nat \ {0}, NEW hi \in 0..Len(query),
         NEW s \in Seq(Mark), Len(s) = Len(query) + 1, s[hi + 1] = "NUL",
         NEW p \in lo..(hi + 1), \A k \in p..hi : s[k] = query[k],
         p = lo \/ p = hi + 1 \/ query[p - 1] = d
  PROVE  PieceFound(strtok_r(s, p, d), s, p, lo, hi, d)
<1> DEFINE n == Len(query)
           t == strtok_r(s, p, d)
           B == Begins(query, lo, hi, d)
           From == {k \in p..Len(s) : s[k] \notin {d}}
<1>1. /\ n \in Nat /\ hi \in 0..n /\ p \in Nat \ {0} /\ p <= hi + 1 /\ lo <= p
      /\ hi + 1 \in p..Len(s)
      /\ \A k \in 1..n : query[k] # "NUL"
      /\ d # "NUL"
  <2>1. n \in Nat /\ \A k \in 1..n : query[k] \in STRING \ {"NUL"}
    BY LenProperties, ElementOfSeq
  <2> QED
    BY <2>1
<1>2. From \in SUBSET Nat /\ hi + 1 \in From
  BY <1>1
<1> DEFINE a == Min(From)
<1>3. /\ a \in p..(hi + 1) /\ s[a] # d
      /\ \A k \in p..(a - 1) : s[k] = d
  <2>1. a \in From /\ \A k \in From : a <= k
    BY <1>2, LeastIsMin
  <2> HIDE DEF a
  <2>2. a \in p..(hi + 1) /\ s[a] # d
    BY <1>1, <1>2, <2>1
  <2>3. ASSUME NEW k \in p..(a - 1) PROVE s[k] = d
    <3>1. k \in p..Len(s) /\ ~(a <= k)
      BY <1>1, <2>2
    <3> QED
      BY <2>1, <3>1
  <2> QED
    BY <2>2, <2>3
<1>4. NextNotIn(s, p, {d}) = a
  BY DEF NextNotIn
<1> HIDE DEF From, a
<1>5. \A q \in B : q \in lo..hi /\ query[q] # d /\ (q = lo \/ query[q - 1] = d)
  BY DEF Begins
<1>6. \A q \in B : q < p \/ q >= a
  <2> SUFFICES ASSUME NEW q \in B, q >= p, q < a PROVE FALSE
    BY <1>1, <1>3, <1>5
  <2>1. q \in p..hi /\ q \in p..(a - 1)
    BY <1>1, <1>3, <1>5
  <2> QED
    BY <1>3, <1>5, <2>1
<1>7. CASE a = hi + 1
  <2>1. t = [token |-> 0, saved |-> hi + 1, buf |-> s]
    BY <1>4, <1>7 DEF strtok_r
  <2>2. \A q \in B : q < p
    BY <1>1, <1>5, <1>6, <1>7
  <2> QED
    BY <2>1, <2>2 DEF PieceFound
<1>8. CASE a # hi + 1
  <2>1. a \in p..hi /\ a \in 1..n /\ s[a] = query[a] /\ s[a] # "NUL"
    BY <1>1, <1>3, <1>8
  <2>2. a \in B
    <3>1. a \in lo..hi /\ query[a] # d
      BY <1>1, <1>3, <2>1
    <3>2. CASE a = p
      BY <1>1, <1>8, <3>1, <3>2 DEF Begins
    <3>3. CASE a # p
      <4>1. a - 1 \in p..(a - 1) /\ a - 1 \in p..hi
        BY <1>1, <2>1, <3>3
      <4>2. query[a - 1] = d
        BY <1>3, <4>1
      <4> QED
        BY <3>1, <4>2 DEF Begins
    <3> QED
      BY <3>2, <3>3
  <2> DEFINE Until == {k \in a..Len(s) : s[k] \in {d, "NUL"}}
             v == Min(Until)
  <2>3. Until \in SUBSET Nat /\ hi + 1 \in Until
    BY <1>1, <2>1
  <2>4. v \in Until /\ \A k \in Until : v <= k
    BY <2>3, LeastIsMin
  <2>5. NextIn(s, a, {d, "NUL"}) = v
    BY DEF NextIn
  <2> HIDE DEF v
  <2>6. v \in (a + 1)..(hi + 1) /\ s[v] \in {d, "NUL"}
    BY <1>1, <1>3, <2>1, <2>3, <2>4
  <2>7. \A k \in a..(v - 1) : k \in p..hi /\ query[k] # d
    <3> SUFFICES ASSUME NEW k \in a..(v - 1) PROVE k \in p..hi /\ query[k] # d
      OBVIOUS
    <3>1. k \in a..Len(s) /\ ~(v <= k) /\ k \in p..hi
      BY <1>1, <2>1, <2>6
    <3>2. s[k] \notin {d, "NUL"}
      BY <2>4, <3>1
    <3> QED
      BY <3>1, <3>2
  <2>8. s[v] = "NUL" <=> v = hi + 1
    <3>1. CASE v = hi + 1
      BY <3>1
    <3>2. CASE v # hi + 1
      <4>1. v \in p..hi /\ v \in 1..n
        BY <1>1, <2>1, <2>6, <3>2
      <4> QED
        BY <1>1, <3>2, <4>1
    <3> QED
      BY <3>1, <3>2
  <2> DEFINE u == v - 1
  <2>9. u \in 1..hi /\ a <= u /\ p <= a /\ u + 1 = v
    BY <1>1, <2>1, <2>6
  <2>10. u = hi \/ query[u + 1] = d
    <3> SUFFICES ASSUME v # hi + 1 PROVE query[v] = d
      BY <2>6, <2>9
    <3>1. v \in p..hi
      BY <1>1, <2>1, <2>6
    <3> QED
      BY <2>6, <2>8, <3>1
  <2>11. u = EndOf(query, a, hi, d)
    <3> DEFINE E == {e \in a..hi : e = hi \/ query[e + 1] = d}
    <3>1. E \in SUBSET Nat /\ u \in E
      BY <1>1, <2>1, <2>9, <2>10
    <3>2. ASSUME NEW e \in E PROVE u <= e
      <4> SUFFICES ASSUME e < u PROVE FALSE
        BY <2>9, <3>1
      <4>1. e + 1 \in a..(v - 1) /\ e # hi
        BY <2>1, <2>9
      <4> QED
        BY <2>7, <4>1
    <3> HIDE DEF E, u
    <3>3. Min(E) = u
      BY <3>1, <3>2, LeastIsMin
    <3> QED
      BY <3>3 DEF EndOf, E
  <2>12. t = [token |-> a, saved |-> IF u = hi THEN hi + 1 ELSE u + 2,
              buf |-> [s EXCEPT ![u + 1] = "NUL"]]
    <3>1. t = [token |-> a, saved |-> IF s[v] = "NUL" THEN v ELSE v + 1,
               buf |-> [s EXCEPT ![v] = "NUL"]]
      BY <1>4, <2>1, <2>5 DEF strtok_r
    <3>2. (IF s[v] = "NUL" THEN v ELSE v + 1) = IF u = hi THEN hi + 1 ELSE u + 2
      BY <2>6, <2>8, <2>9
    <3> HIDE DEF t
    <3> QED
      BY <2>9, <3>1, <3>2
  <2>13. ASSUME NEW q \in B PROVE q < p \/ q = a \/ q >= t.saved
    <3> SUFFICES ASSUME q > a, q < t.saved PROVE FALSE
      BY <1>1, <1>3, <1>5, <1>6, <2>1, <2>9, <2>12
    <3>1. q \in lo..hi /\ q # lo
      BY <1>1, <1>5, <2>1
    <3>2. query[q] # d /\ query[q - 1] = d
      BY <1>5, <3>1
    <3>3. q <= v
      BY <2>6, <2>9, <2>12, <3>1
    <3>4. q - 1 \in a..(v - 1)
      BY <2>1, <2>6, <3>1, <3>3
    <3> QED
      BY <2>7, <3>2, <3>4
  <2> HIDE DEF t, B, u
  <2> QED
    BY <2>2, <2>9, <2>10, <2>11, <2>12, <2>13 DEF t, B, PieceFound
<1> QED
  BY <1>7, <1>8

\* A string of the query's length.
IsCopy(buf) ==
  /\ buf \in Seq(Mark)
  /\ Len(buf) = Len(query) + 1
  /\ buf[Len(query) + 1] = "NUL"

\* The cursor of strtok_r in the buffer buf stands at the field f: the field is as
\* in the query and has its NUL, what is behind saved is not cut yet, and every
\* other field is before f or from saved on.
AtField(f, saved, buf) ==
  /\ f \in Fields
  /\ LET n == Len(query)
         e == FieldEnd(f)
     IN  /\ e \in f..n
         /\ buf[e + 1] = "NUL"
         /\ \A k \in f..e : buf[k] = query[k]
         /\ saved = IF e = n THEN n + 1 ELSE e + 2
         /\ e = n \/ query[e + 1] = "&"
         /\ \A k \in saved..n : buf[k] = query[k]
  /\ \A q \in Fields : q < f \/ q = f \/ q >= saved

\* A NUL in place of a character of a copy leaves a copy.
LEMMA CopyIsCut ==
  ASSUME query \in Seq(STRING \ {"NUL"}), NEW s, IsCopy(s), NEW u \in 1..Len(query)
  PROVE  /\ IsCopy([s EXCEPT ![u + 1] = "NUL"])
         /\ \A k \in 1..(Len(query) + 1) :
              [s EXCEPT ![u + 1] = "NUL"][k] = IF k = u + 1 THEN "NUL" ELSE s[k]
<1>1. Len(query) \in Nat
  BY LenProperties
<1>2. u + 1 \in 1..Len(s) /\ "NUL" \in Mark /\ s \in Seq(Mark) /\ Len(s) = Len(query) + 1
  BY <1>1 DEF IsCopy, Mark
<1>3. /\ [s EXCEPT ![u + 1] = "NUL"] \in Seq(Mark)
      /\ Len([s EXCEPT ![u + 1] = "NUL"]) = Len(s)
      /\ \A k \in 1..Len(s) : [s EXCEPT ![u + 1] = "NUL"][k] = IF k = u + 1 THEN "NUL" ELSE s[k]
  BY <1>2, ExceptSeq
<1> QED
  BY <1>1, <1>2, <1>3 DEF IsCopy

\* The outer tokenizer, in a copy that is not cut from p on, goes to the next field.
LEMMA NextField ==
  ASSUME query \in Seq(STRING \ {"NUL"}), NEW s, IsCopy(s),
         NEW p \in 1..(Len(query) + 1), \A k \in p..Len(query) : s[k] = query[k],
         p = 1 \/ p = Len(query) + 1 \/ query[p - 1] = "&"
  PROVE  LET t == strtok_r(s, p, "&")
         IN  /\ IsCopy(t.buf)
             /\ \/ t.token = 0 /\ \A q \in Fields : q < p
                \/ /\ t.token # 0 /\ p <= t.token
                   /\ AtField(t.token, t.saved, t.buf)
                   /\ \A q \in Fields : q < p \/ q >= t.token
<1> DEFINE n == Len(query)
           t == strtok_r(s, p, "&")
<1>1. n \in Nat /\ 1 \in Nat \ {0} /\ n \in 0..n /\ "&" \in {"&", "="}
  BY LenProperties
<1>2. s \in Seq(Mark) /\ Len(s) = n + 1 /\ s[n + 1] = "NUL"
  BY DEF IsCopy
<1>3. \A f : FieldEnd(f) = EndOf(query, f, n, "&")
  BY DEF FieldEnd
<1> HIDE DEF t
<1>4. \/ /\ t = [token |-> 0, saved |-> n + 1, buf |-> s]
         /\ \A q \in Fields : q < p
      \/ \E a \in Fields, u \in 1..n :
           /\ p <= a /\ a <= u /\ u = FieldEnd(a)
           /\ u = n \/ query[u + 1] = "&"
           /\ t = [token |-> a, saved |-> IF u = n THEN n + 1 ELSE u + 2,
                   buf |-> [s EXCEPT ![u + 1] = "NUL"]]
           /\ \A q \in Fields : q < p \/ q = a \/ q >= t.saved
  <2>1. PieceFound(t, s, p, 1, n, "&")
    BY <1>1, <1>2, NextPiece DEF t
  <2> QED
    BY <1>3, <2>1 DEF PieceFound, Fields
<1>5. \A q \in Fields : q \in 1..n
  BY DEF Fields, Begins
<1>6. CASE /\ t = [token |-> 0, saved |-> n + 1, buf |-> s]
           /\ \A q \in Fields : q < p
  BY <1>6 DEF t
<1>7. ASSUME NEW a \in Fields, NEW u \in 1..n,
             p <= a, a <= u, u = FieldEnd(a),
             u = n \/ query[u + 1] = "&",
             t = [token |-> a, saved |-> IF u = n THEN n + 1 ELSE u + 2,
                  buf |-> [s EXCEPT ![u + 1] = "NUL"]],
             \A q \in Fields : q < p \/ q = a \/ q >= t.saved
      PROVE  /\ IsCopy(t.buf) /\ t.token # 0 /\ p <= t.token
             /\ AtField(t.token, t.saved, t.buf)
             /\ \A q \in Fields : q < p \/ q >= t.token
  <2>1. /\ IsCopy(t.buf)
        /\ \A k \in 1..(n + 1) : t.buf[k] = IF k = u + 1 THEN "NUL" ELSE s[k]
    BY <1>7, CopyIsCut
  <2>2. t.token = a /\ a \in 1..n /\ t.saved = IF u = n THEN n + 1 ELSE u + 2
    BY <1>5, <1>7
  <2>3. t.buf[u + 1] = "NUL"
    BY <1>1, <2>1
  <2>4. \A k \in a..u : t.buf[k] = query[k]
    <3> SUFFICES ASSUME NEW k \in a..u PROVE t.buf[k] = query[k]
      OBVIOUS
    <3>1. k \in 1..(n + 1) /\ k # u + 1 /\ k \in p..n
      BY <1>1, <1>7, <2>2
    <3> QED
      BY <2>1, <3>1
  <2>5. \A k \in t.saved..n : t.buf[k] = query[k]
    <3> SUFFICES ASSUME NEW k \in t.saved..n PROVE t.buf[k] = query[k]
      OBVIOUS
    <3>1. k \in 1..(n + 1) /\ k # u + 1 /\ k \in p..n
      BY <1>1, <1>7, <2>2
    <3> QED
      BY <2>1, <3>1
  <2>6. u \in a..n
    BY <1>1, <1>7, <2>2
  <2>7. t.saved >= a
    BY <1>1, <2>2, <2>6
  <2>8. \A q \in Fields : (q < a \/ q = a \/ q >= t.saved) /\ (q < p \/ q >= a)
    BY <1>1, <1>5, <1>7, <2>2, <2>7
  <2>9. AtField(a, t.saved, t.buf)
    BY <1>7, <2>2, <2>3, <2>4, <2>5, <2>6, <2>8 DEF AtField
  <2> QED
    BY <1>1, <1>7, <2>1, <2>2, <2>8, <2>9
<1> QED
  BY <1>4, <1>6, <1>7 DEF t

\* A piece that ends with its NUL is a C string with the query's text.
LEMMA PieceIsText ==
  ASSUME query \in Seq(STRING \ {"NUL"}), NEW s, IsCopy(s),
         NEW a \in 1..Len(query), NEW u \in a..Len(query),
         \A k \in a..u : s[k] = query[k], s[u + 1] = "NUL"
  PROVE  CString(s, a) = SubSeq(query, a, u)
<1> DEFINE n == Len(query)
           K == {k \in a..Len(s) : s[k] \in {"NUL"}}
<1>1. n \in Nat /\ Len(s) = n + 1 /\ \A k \in 1..n : query[k] \in STRING \ {"NUL"}
  BY LenProperties, ElementOfSeq DEF IsCopy
<1>2. K \in SUBSET Nat /\ u + 1 \in K
  BY <1>1
<1>3. \A k \in K : u + 1 <= k
  <2> SUFFICES ASSUME NEW k \in K, k < u + 1 PROVE FALSE
    BY <1>1, <1>2
  <2>1. k \in a..u /\ k \in 1..n
    BY <1>1
  <2> QED
    BY <1>1, <2>1
<1> HIDE DEF K
<1>4. Min(K) = u + 1
  BY <1>2, <1>3, LeastIsMin
<1>5. NextIn(s, a, {"NUL"}) - 1 = u
  BY <1>4 DEF NextIn, K
<1>6. \A k \in a..u : query[k] \in Mark /\ s[k] \in Mark
  BY <1>1 DEF Mark
<1> DEFINE x == SubSeq(s, a, u)
           y == SubSeq(query, a, u)
<1>7. a \in Int /\ u \in Int /\ a <= u
  BY <1>1
<1>8. /\ x \in Seq(Mark) /\ Len(x) = u - a + 1
      /\ \A k \in 1..(u - a + 1) : x[k] = s[a + k - 1]
  BY <1>6, <1>7, SubSeqProperties
<1>9. /\ y \in Seq(Mark) /\ Len(y) = u - a + 1
      /\ \A k \in 1..(u - a + 1) : y[k] = query[a + k - 1]
  BY <1>6, <1>7, SubSeqProperties
<1>10. \A k \in 1..(u - a + 1) : a + k - 1 \in a..u
  BY <1>7
<1> HIDE DEF x, y
<1>11. \A k \in 1..Len(x) : x[k] = y[k]
  BY <1>8, <1>9, <1>10
<1>12. x = y
  BY <1>8, <1>9, <1>11, SeqEqual
<1> QED
  BY <1>5, <1>12 DEF CString, x, y

\* The inner tokenizer, called twice in a field: it finds the two first parts if
\* there are so many, and touches nothing outside the field and its NUL.
LEMMA PairIsRead ==
  ASSUME query \in Seq(STRING \ {"NUL"}), NEW s, IsCopy(s), NEW f, NEW saved,
         AtField(f, saved, s)
  PROVE  LET name  == strtok_r(s, f, "=")
             value == strtok_r(name.buf, name.saved, "=")
         IN  /\ IsCopy(value.buf)
             /\ \A k \in saved..Len(query) : value.buf[k] = query[k]
             /\ name.token # 0 /\ value.token # 0 <=> f \in Pairs
             /\ f \in Pairs =>
                  /\ CString(value.buf, name.token) = Text(f, Name(f))
                  /\ CString(value.buf, value.token) = Text(f, Value(f))
<1> DEFINE n     == Len(query)
           e     == FieldEnd(f)
           name  == strtok_r(s, f, "=")
           value == strtok_r(name.buf, name.saved, "=")
           P     == Parts(f)
<1>1. /\ n \in Nat /\ f \in Fields /\ f \in 1..n /\ e \in f..n /\ s[e + 1] = "NUL"
      /\ \A k \in f..e : s[k] = query[k]
      /\ saved = IF e = n THEN n + 1 ELSE e + 2
      /\ \A k \in saved..n : s[k] = query[k]
  <2>1. n \in Nat
    BY LenProperties
  <2> QED
    BY <2>1 DEF AtField, Fields, Begins
<1>2. s \in Seq(Mark) /\ Len(s) = n + 1
  BY DEF IsCopy
<1>3. /\ P = Begins(query, f, e, "=") /\ \A q \in P : q \in f..e
      /\ f \in Pairs <=> \E p, q \in P : p < q
      /\ \A p : Text(f, p) = SubSeq(query, p, EndOf(query, p, e, "="))
  BY <1>1 DEF Parts, Begins, Pairs, Text
<1>4. Name(f) = Min(P) /\ Value(f) = Min(P \ {Name(f)})
  BY DEF Name, Value
<1>5. "=" \in {"&", "="} /\ f \in Nat \ {0} /\ e \in 0..n /\ f \in f..(e + 1)
  BY <1>1
<1> HIDE DEF e, P, n, name, value
<1>6. PieceFound(name, s, f, f, e, "=")
  BY <1>1, <1>2, <1>5, NextPiece DEF n, name
<1>7. CASE name = [token |-> 0, saved |-> e + 1, buf |-> s] /\ \A q \in P : q < f
  <2>1. e + 1 \in f..(e + 1) /\ \A k \in (e + 1)..e : s[k] = query[k]
    BY <1>1
  <2>2. PieceFound(strtok_r(s, e + 1, "="), s, e + 1, f, e, "=")
    BY <1>1, <1>2, <1>5, <2>1, NextPiece DEF n
  <2>3. PieceFound(value, s, e + 1, f, e, "=")
    BY <1>7, <2>2 DEF value
  <2>4. P = {}
    BY <1>1, <1>3, <1>7
  <2>5. value.buf = s
    BY <1>3, <2>3, <2>4 DEF PieceFound
  <2> QED
    BY <1>1, <1>3, <1>7, <2>4, <2>5 DEF n, name, value
<1>8. ASSUME NEW a \in P, NEW u \in 1..e, f <= a, a <= u, u = EndOf(query, a, e, "="),
             u = e \/ query[u + 1] = "=",
             name = [token |-> a, saved |-> IF u = e THEN e + 1 ELSE u + 2,
                     buf |-> [s EXCEPT ![u + 1] = "NUL"]],
             \A q \in P : q < f \/ q = a \/ q >= name.saved
      PROVE  /\ IsCopy(value.buf)
             /\ \A k \in saved..n : value.buf[k] = query[k]
             /\ name.token # 0 /\ value.token # 0 <=> f \in Pairs
             /\ f \in Pairs =>
                  /\ CString(value.buf, name.token) = Text(f, Name(f))
                  /\ CString(value.buf, value.token) = Text(f, Value(f))
  <2> DEFINE m == name.saved
             s1 == name.buf
  <2>1. name.token = a /\ m = (IF u = e THEN e + 1 ELSE u + 2) /\ s1 = [s EXCEPT ![u + 1] = "NUL"]
    BY <1>8
  <2>2. a \in f..e /\ a \in 1..n /\ u \in a..e /\ u \in 1..n /\ m \in f..(e + 1) /\ m > a
    BY <1>1, <1>3, <1>8, <2>1
  <2>3. /\ IsCopy(s1)
        /\ \A k \in 1..(n + 1) : s1[k] = IF k = u + 1 THEN "NUL" ELSE s[k]
    BY <2>1, <2>2, CopyIsCut DEF n
  <2>4. Name(f) = a
    <3>1. \A q \in P : q \in Nat /\ (q = a \/ q >= m)
      BY <1>1, <1>3, <1>8
    <3> HIDE DEF m
    <3>2. a \in P /\ P \in SUBSET Nat /\ \A q \in P : a <= q
      BY <1>1, <2>2, <3>1
    <3> QED
      BY <1>4, <3>2, LeastIsMin
  <2> HIDE DEF m, s1
  <2>5. /\ s1 \in Seq(Mark) /\ Len(s1) = n + 1 /\ s1[e + 1] = "NUL"
        /\ \A k \in m..e : s1[k] = query[k]
        /\ m = f \/ m = e + 1 \/ query[m - 1] = "="
    <3>1. s1 \in Seq(Mark) /\ Len(s1) = n + 1
      BY <2>3 DEF IsCopy, n
    <3>2. e + 1 \in 1..(n + 1) /\ s1[e + 1] = "NUL"
      BY <1>1, <2>3
    <3>3. ASSUME NEW k \in m..e PROVE s1[k] = query[k]
      <4>1. k \in 1..(n + 1) /\ k # u + 1 /\ k \in f..e
        BY <1>1, <2>1, <2>2
      <4> QED
        BY <1>1, <2>3, <4>1
    <3>4. m = e + 1 \/ query[m - 1] = "="
      BY <1>1, <1>8, <2>1, <2>2
    <3> QED
      BY <3>1, <3>2, <3>3, <3>4
  <2>6. PieceFound(strtok_r(s1, m, "="), s1, m, f, e, "=")
    BY <1>5, <2>2, <2>5, NextPiece DEF n
  <2>7. PieceFound(value, s1, m, f, e, "=")
    BY <2>6 DEF value, m, s1
  <2>8. \A q \in P : q = a \/ q >= m
    BY <1>1, <1>3, <1>8 DEF m
  <2>9. \A k \in saved..n : k \in 1..(n + 1) /\ k > e + 1 /\ s1[k] = query[k]
    <3> SUFFICES ASSUME NEW k \in saved..n
                 PROVE  k \in 1..(n + 1) /\ k > e + 1 /\ s1[k] = query[k]
      OBVIOUS
    <3>1. k \in 1..(n + 1) /\ k > e + 1 /\ k # u + 1
      BY <1>1, <2>2
    <3> QED
      BY <1>1, <2>3, <3>1
  <2>10. CASE value = [token |-> 0, saved |-> e + 1, buf |-> s1] /\ \A q \in P : q < m
    <3>1. \A q \in P : q = a
      BY <1>1, <1>3, <2>2, <2>8, <2>10
    <3>2. f \notin Pairs
      BY <1>3, <2>2, <3>1
    <3> QED
      BY <2>3, <2>9, <2>10, <3>2
  <2>11. ASSUME NEW b \in P, NEW v \in 1..e, m <= b, b <= v, v = EndOf(query, b, e, "="),
                value = [token |-> b, saved |-> IF v = e THEN e + 1 ELSE v + 2,
                         buf |-> [s1 EXCEPT ![v + 1] = "NUL"]],
                \A q \in P : q < m \/ q = b \/ q >= value.saved
         PROVE  /\ IsCopy(value.buf)
                /\ \A k \in saved..n : value.buf[k] = query[k]
                /\ value.token # 0 /\ f \in Pairs
                /\ CString(value.buf, a) = Text(f, Name(f))
                /\ CString(value.buf, value.token) = Text(f, Value(f))
    <3>1. b \in m..e /\ b \in 1..n /\ v \in b..e /\ v \in 1..n /\ b > u + 1 /\ b > a
      BY <1>1, <1>3, <2>1, <2>2, <2>11
    <3>2. /\ value.token = b /\ value.buf = [s1 EXCEPT ![v + 1] = "NUL"]
          /\ value.saved = IF v = e THEN e + 1 ELSE v + 2
      BY <2>11
    <3>3. /\ IsCopy(value.buf)
          /\ \A k \in 1..(n + 1) : value.buf[k] = IF k = v + 1 THEN "NUL" ELSE s1[k]
      BY <2>3, <3>1, <3>2, CopyIsCut DEF n
    <3>4. Value(f) = b
      <4>1. value.saved > b
        BY <1>1, <3>1, <3>2
      <4>2. \A q \in P : q \in Nat /\ (q = a \/ q >= m)
        BY <1>1, <1>3, <2>8
      <4>3. \A q \in P \ {a} : q \in Nat /\ b <= q
        BY <1>1, <2>2, <2>11, <3>1, <4>1, <4>2
      <4>4. b \in P \ {a} /\ P \ {a} \in SUBSET Nat
        BY <2>11, <3>1, <4>3
      <4> QED
        BY <1>4, <2>4, <4>3, <4>4, LeastIsMin
    <3>5. f \in Pairs
      BY <1>3, <1>8, <2>11, <3>1
    <3>6. \A k \in saved..n : value.buf[k] = query[k]
      BY <1>1, <2>9, <3>1, <3>3
    <3>7. CString(value.buf, a) = SubSeq(query, a, u)
      <4>1. \A k \in a..u : value.buf[k] = query[k]
        <5> SUFFICES ASSUME NEW k \in a..u PROVE value.buf[k] = query[k]
          OBVIOUS
        <5>1. k \in 1..(n + 1) /\ k # v + 1 /\ k # u + 1 /\ k \in f..e
          BY <1>1, <2>2, <3>1
        <5> QED
          BY <1>1, <2>3, <3>3, <5>1
      <4>2. value.buf[u + 1] = "NUL"
        <5>1. u + 1 \in 1..(n + 1)
          BY <1>1, <2>2
        <5> QED
          BY <2>3, <3>3, <5>1
      <4>3. u \in a..n
        BY <1>1, <2>2
      <4> QED
        BY <2>2, <3>3, <4>1, <4>2, <4>3, PieceIsText DEF n
    <3>8. CString(value.buf, b) = SubSeq(query, b, v)
      <4>1. \A k \in b..v : value.buf[k] = query[k]
        <5> SUFFICES ASSUME NEW k \in b..v PROVE value.buf[k] = query[k]
          OBVIOUS
        <5>1. k \in 1..(n + 1) /\ k # v + 1 /\ k # u + 1 /\ k \in f..e
          BY <1>1, <2>2, <3>1
        <5> QED
          BY <1>1, <2>3, <3>3, <5>1
      <4>2. value.buf[v + 1] = "NUL"
        <5>1. v + 1 \in 1..(n + 1)
          BY <1>1, <3>1
        <5> QED
          BY <3>3, <5>1
      <4>3. v \in b..n
        BY <1>1, <3>1
      <4> QED
        BY <3>1, <3>3, <4>1, <4>2, <4>3, PieceIsText DEF n
    <3>9. value.token # 0
      BY <3>1, <3>2
    <3> QED
      BY <1>3, <1>8, <2>4, <2>11, <3>2, <3>3, <3>4, <3>5, <3>6, <3>7, <3>8, <3>9
  <2>12. a # 0
    BY <2>2
  <2>13. CASE \E b \in P, v \in 1..e :
                /\ m <= b /\ b <= v /\ v = EndOf(query, b, e, "=")
                /\ value = [token |-> b, saved |-> IF v = e THEN e + 1 ELSE v + 2,
                            buf |-> [s1 EXCEPT ![v + 1] = "NUL"]]
                /\ \A q \in P : q < m \/ q = b \/ q >= value.saved
    BY <2>1, <2>11, <2>12, <2>13
  <2> QED
    BY <1>3, <2>7, <2>10, <2>13 DEF PieceFound
<1> QED
  BY <1>3, <1>6, <1>7, <1>8 DEF PieceFound, n, name, value

\* Between two turns of the loop: the copy is whole behind the cursor, the field at
\* hand is not cut inside, and the pairs of the fields before it are in the array.
QueryInv ==
  /\ query \in Seq(STRING \ {"NUL"})
  /\ \E P : params \in Seq(P)
  /\ IsCopy(url_copy)
  /\ token # 0 => AtField(token, saveptr, url_copy)
  /\ ParamsAgree

\* The pairs are finitely many, and each has a place in the order of the fields.
LEMMA PairsAreFinite ==
  ASSUME query \in Seq(STRING \ {"NUL"}), NEW S \in SUBSET Pairs
  PROVE  /\ S \in SUBSET (1..Len(query)) /\ IsFiniteSet(S) /\ Cardinality(S) \in Nat
         /\ \A f \in S : Cardinality({g \in S : g <= f}) \in 1..Cardinality(S)
<1>1. Len(query) \in Nat
  BY LenProperties
<1>2. S \in SUBSET (1..Len(query))
  BY DEF Pairs, Fields, Begins
<1>3. IsFiniteSet(S) /\ Cardinality(S) \in Nat
  <2>1. IsFiniteSet(1..Len(query))
    BY <1>1, FS_Interval
  <2> QED
    BY <1>2, <2>1, FS_Subset, FS_CardinalityType
<1>4. ASSUME NEW f \in S PROVE Cardinality({g \in S : g <= f}) \in 1..Cardinality(S)
  <2> DEFINE T == {g \in S : g <= f}
  <2>1. f \in T /\ T \in SUBSET S
    BY <1>1, <1>2
  <2> HIDE DEF T
  <2>2. IsFiniteSet(T) /\ Cardinality(T) <= Cardinality(S) /\ Cardinality(T) \in Nat
    BY <1>3, <2>1, FS_Subset, FS_CardinalityType
  <2>3. Cardinality(T) # 0
    BY <2>1, <2>2, FS_EmptySet
  <2>4. Cardinality(T) \in 1..Cardinality(S)
    BY <1>3, <2>2, <2>3
  <2> QED
    BY <2>4 DEF T
<1> QED
  BY <1>2, <1>3, <1>4

\* The pairs of the fields before tok, all of them when tok is 0, are in the array ps.
PairsUpTo(tok) == {f \in Pairs : tok = 0 \/ f < tok}
Collected(ps, tok) ==
  /\ Len(ps) = Cardinality(PairsUpTo(tok))
  /\ \A f \in PairsUpTo(tok) :
       ps[Cardinality({g \in Pairs : g <= f})] = <<Text(f, Name(f)), Text(f, Value(f))>>

\* When the cursor goes from the field f to the next one, or to the end, only the
\* pair of f may be missing.
LEMMA OneMorePair ==
  ASSUME query \in Seq(STRING \ {"NUL"}),
         NEW ps, \E P : ps \in Seq(P),
         NEW f \in Fields, Collected(ps, f),
         NEW next, next = 0 \/ next \in Fields,
         \A q \in Fields : q <= f \/ (next # 0 /\ q >= next), next # 0 => next > f
  PROVE  /\ f \notin Pairs => Collected(ps, next)
         /\ f \in Pairs =>
              Collected(Append(ps, <<Text(f, Name(f)), Text(f, Value(f))>>), next)
<1> DEFINE S == PairsUpTo(f)
           T == PairsUpTo(next)
           pair(g) == <<Text(g, Name(g)), Text(g, Value(g))>>
           rank(g) == Cardinality({h \in Pairs : h <= g})
<1>1. f \in Nat \ {0} /\ \A q \in Fields : q \in Nat
  BY DEF Fields, Begins
<1>2. Pairs \in SUBSET Fields
  BY DEF Pairs
<1>3. S \in SUBSET Pairs /\ T \in SUBSET Pairs
  BY DEF PairsUpTo
<1>4. \A g \in Pairs : g \in Nat /\ (g \in T <=> g <= f) /\ (g \in S <=> g < f)
  <2> SUFFICES ASSUME NEW g \in Pairs
               PROVE  g \in Nat /\ (g \in T <=> g <= f) /\ (g \in S <=> g < f)
    OBVIOUS
  <2>1. g \in Nat /\ g \in Fields /\ (next = 0 \/ next \in Nat)
    BY <1>1, <1>2
  <2>2. g \in S <=> g < f
    BY <1>1, <2>1 DEF PairsUpTo
  <2>3. g \in T <=> next = 0 \/ g < next
    BY DEF PairsUpTo
  <2>4. g <= f \/ (next # 0 /\ g >= next)
    BY <2>1
  <2> HIDE DEF S, T
  <2> QED
    BY <1>1, <2>1, <2>2, <2>3, <2>4
<1> HIDE DEF S, T
<1>5. CASE f \notin Pairs
  <2>1. S = T
    <3>1. \A g \in Pairs : g \in S <=> g \in T
      BY <1>1, <1>4, <1>5
    <3> QED
      BY <1>3, <3>1
  <2> QED
    BY <1>5, <2>1 DEF Collected, S, T
<1>6. CASE f \in Pairs
  <2>1. T = S \cup {f} /\ f \notin S
    <3>1. \A g \in Pairs : g \in T <=> (g \in S \/ g = f)
      BY <1>1, <1>4
    <3>2. f \notin S
      BY <1>1, <1>4, <1>6
    <3> QED
      BY <1>3, <1>6, <3>1, <3>2
  <2>2. IsFiniteSet(S) /\ Cardinality(S) \in Nat
    BY <1>3, PairsAreFinite
  <2>3. Cardinality(T) = Cardinality(S) + 1
    BY <2>1, <2>2, FS_AddElement
  <2>4. rank(f) = Cardinality(T)
    <3>1. {h \in Pairs : h <= f} = T
      BY <1>3, <1>4
    <3> QED
      BY <3>1
  <2>5. ASSUME NEW g \in S PROVE rank(g) \in 1..Cardinality(S)
    <3>1. {h \in Pairs : h <= g} = {h \in S : h <= g}
      BY <1>1, <1>3, <1>4
    <3> QED
      BY <1>3, <3>1, PairsAreFinite
  <2> HIDE DEF pair, rank
  <2>6. Len(ps) = Cardinality(S) /\ \A g \in S : ps[rank(g)] = pair(g)
    BY DEF Collected, S, pair, rank
  <2> DEFINE more == Append(ps, pair(f))
  <2>7. /\ Len(more) = Len(ps) + 1
        /\ \A k \in 1..Len(ps) : more[k] = ps[k]
        /\ more[Len(ps) + 1] = pair(f)
    <3>1. PICK P : ps \in Seq(P)
      OBVIOUS
    <3> DEFINE Q == P \cup {pair(f)}
    <3>2. ps \in Seq(Q) /\ pair(f) \in Q
      BY <3>1, SeqMonotonic
    <3> HIDE DEF Q
    <3> QED
      BY <3>2, AppendProperties
  <2> HIDE DEF more
  <2>8. Len(more) = Cardinality(T)
    BY <2>3, <2>6, <2>7
  <2>9. \A g \in T : more[rank(g)] = pair(g)
    BY <2>1, <2>3, <2>4, <2>5, <2>6, <2>7
  <2> QED
    BY <1>6, <2>8, <2>9 DEF Collected, T, pair, rank, more
<1> QED
  BY <1>5, <1>6

LEMMA AgreeIsCollected == ParamsAgree <=> Collected(params, token)
<1>1. PairsRead = PairsUpTo(token)
  BY DEF PairsRead, PairsUpTo
<1> QED
  BY <1>1 DEF ParamsAgree, Collected

LEMMA QueryStart == QueryInit => QueryInv
<1> SUFFICES ASSUME QueryInit PROVE QueryInv
  OBVIOUS
<1> DEFINE n == Len(query)
           s == Append(query, "NUL")
           t == strtok_r(s, 1, "&")
<1>1. query \in Seq(STRING \ {"NUL"}) /\ n \in Nat
  <2>1. query \in Seq(STRING \ {"NUL"})
    BY QueriesAssumption DEF QueryInit
  <2> QED
    BY <2>1, LenProperties
<1>2. IsCopy(s) /\ \A k \in 1..n : s[k] = query[k]
  <2>1. query \in Seq(Mark) /\ "NUL" \in Mark
    BY <1>1, SeqMonotonic DEF Mark
  <2> QED
    BY <2>1, AppendProperties DEF IsCopy
<1>3. url_copy = t.buf /\ token = t.token /\ saveptr = t.saved /\ params = <<>>
  BY DEF QueryInit
<1>4. 1 \in 1..(n + 1)
  BY <1>1
<1> HIDE DEF s
<1>5. /\ IsCopy(t.buf)
      /\ \/ t.token = 0 /\ \A q \in Fields : q < 1
         \/ /\ t.token # 0 /\ 1 <= t.token
            /\ AtField(t.token, t.saved, t.buf)
            /\ \A q \in Fields : q < 1 \/ q >= t.token
  BY <1>1, <1>2, <1>4, NextField
<1> HIDE DEF t
<1>6. IsCopy(url_copy) /\ (token # 0 => AtField(token, saveptr, url_copy))
  BY <1>3, <1>5
<1>7. PairsUpTo(token) = {}
  <2>1. \A q \in Pairs : q \in Fields /\ q \in Nat /\ q >= 1
    BY <1>1 DEF Pairs, Fields, Begins
  <2>2. token = 0 \/ (token \in Nat /\ \A q \in Fields : q < 1 \/ q >= token)
    <3>1. token # 0 => token \in Fields
      BY <1>6 DEF AtField
    <3>2. token # 0 => token \in Nat
      BY <1>1, <3>1 DEF Fields, Begins
    <3> QED
      BY <1>3, <1>5, <3>2
  <2>3. token = 0 => Pairs = {}
    BY <1>3, <1>5, <2>1
  <2>4. token # 0 => \A q \in Pairs : ~(q < token)
    BY <2>1, <2>2
  <2> QED
    BY <2>3, <2>4 DEF PairsUpTo
<1>8. Collected(params, token)
  <2>1. Len(params) = 0
    BY <1>3, EmptySeq
  <2> QED
    BY <1>7, <2>1, FS_EmptySet DEF Collected
<1>9. \E P : params \in Seq(P)
  BY <1>3, EmptySeq
<1> QED
  BY <1>1, <1>6, <1>8, <1>9, AgreeIsCollected DEF QueryInv

LEMMA QueryTurn == ASSUME QueryInv, parse_get_url PROVE QueryInv'
<1> DEFINE n     == Len(query)
           f     == token
           name  == strtok_r(url_copy, f, "=")
           value == strtok_r(name.buf, name.saved, "=")
           field == strtok_r(value.buf, saveptr, "&")
           pair  == <<Text(f, Name(f)), Text(f, Value(f))>>
<1>1. /\ query \in Seq(STRING \ {"NUL"}) /\ n \in Nat
      /\ IsCopy(url_copy) /\ AtField(f, saveptr, url_copy)
      /\ \E P : params \in Seq(P)
      /\ Collected(params, f)
  <2>1. query \in Seq(STRING \ {"NUL"}) /\ token # 0
    BY DEF QueryInv, parse_get_url
  <2> QED
    BY <2>1, LenProperties, AgreeIsCollected DEF QueryInv
<1>2. /\ url_copy' = field.buf /\ token' = field.token /\ saveptr' = field.saved
      /\ IF name.token # 0 /\ value.token # 0
         THEN params' = Append(params, <<CString(value.buf, name.token),
                                         CString(value.buf, value.token)>>)
         ELSE params' = params
      /\ query' = query
  BY DEF parse_get_url, utarray_push_back, resumed
<1>3. /\ IsCopy(value.buf)
      /\ \A k \in saveptr..n : value.buf[k] = query[k]
      /\ name.token # 0 /\ value.token # 0 <=> f \in Pairs
      /\ f \in Pairs =>
           /\ CString(value.buf, name.token) = Text(f, Name(f))
           /\ CString(value.buf, value.token) = Text(f, Value(f))
  BY <1>1, PairIsRead
<1> HIDE DEF name, value
<1>4. /\ f \in Fields /\ f \in 1..n /\ saveptr \in 1..(n + 1) /\ saveptr > f
      /\ saveptr = 1 \/ saveptr = n + 1 \/ query[saveptr - 1] = "&"
      /\ \A q \in Fields : q \in 1..n /\ (q < f \/ q = f \/ q >= saveptr)
  BY <1>1 DEF AtField, Fields, Begins
<1>5. /\ IsCopy(field.buf)
      /\ \/ field.token = 0 /\ \A q \in Fields : q < saveptr
         \/ /\ field.token # 0 /\ saveptr <= field.token
            /\ AtField(field.token, field.saved, field.buf)
            /\ \A q \in Fields : q < saveptr \/ q >= field.token
  BY <1>1, <1>3, <1>4, NextField
<1> DEFINE next == field.token
<1> HIDE DEF field
<1>6. /\ next = 0 \/ next \in Fields
      /\ \A q \in Fields : q <= f \/ (next # 0 /\ q >= next)
      /\ next # 0 => next > f
  <2>1. next = 0 \/ next \in Fields
    BY <1>5 DEF AtField
  <2>2. next = 0 \/ next \in 1..n
    BY <1>4, <2>1
  <2> QED
    BY <1>1, <1>4, <1>5, <2>1, <2>2
<1> HIDE DEF f, next
<1>7. /\ f \notin Pairs => Collected(params, next)
      /\ f \in Pairs => Collected(Append(params, pair), next)
  BY <1>1, <1>4, <1>6, OneMorePair
<1>8. Collected(params', token')
  BY <1>2, <1>3, <1>7 DEF next
<1>9. ParamsAgree'
  <2>1. ParamsAgree' <=> Collected(params, token)'
    BY AgreeIsCollected, PTL
  <2>2. Collected(params, token)'
    BY <1>2, <1>8 DEF Collected, PairsUpTo, Pairs, Fields, Text, Name, Value, Parts, FieldEnd
  <2> QED
    BY <2>1, <2>2
<1>10. IsCopy(url_copy)'
  BY <1>2, <1>5 DEF IsCopy
<1>11. (token # 0 => AtField(token, saveptr, url_copy))'
  BY <1>2, <1>5 DEF AtField, Fields, FieldEnd
<1>12. \E P : params' \in Seq(P)
  <2>1. PICK P : params \in Seq(P)
    BY <1>1
  <2> DEFINE new == <<CString(value.buf, name.token), CString(value.buf, value.token)>>
             Q   == P \cup {new}
  <2>2. params \in Seq(Q) /\ new \in Q
    BY <2>1, SeqMonotonic
  <2> HIDE DEF new, Q
  <2>3. Append(params, new) \in Seq(Q)
    BY <2>2, AppendProperties
  <2> QED
    BY <1>1, <1>2, <2>3 DEF new
<1> QED
  BY <1>1, <1>2, <1>9, <1>10, <1>11, <1>12 DEF QueryInv

\* Whatever the query, after every turn of the loop the array holds exactly the
\* pairs of the fields before the cursor, each in its place and with its own name
\* and value, and those of the whole query at the end: the inner tokenizer, which
\* cuts the same copy, never disturbs the outer one.
THEOREM PairsAreExact == QuerySpec => []ParamsAgree
<1>1. QueryInv /\ [QueryNext]_queryVars => QueryInv'
  <2> SUFFICES ASSUME QueryInv, [QueryNext]_queryVars PROVE QueryInv'
    OBVIOUS
  <2>1. CASE parse_get_url
    BY <2>1, QueryTurn
  <2>2. CASE UNCHANGED queryVars
    <3>1. /\ query' = query /\ url_copy' = url_copy /\ token' = token
          /\ saveptr' = saveptr /\ params' = params
      BY <2>2 DEF queryVars
    <3>2. ParamsAgree'
      BY <3>1 DEF QueryInv, ParamsAgree, PairsRead, Pairs, Fields, Text, Name, Value,
                  Parts, FieldEnd
    <3>3. IsCopy(url_copy)'
      BY <3>1 DEF QueryInv, IsCopy
    <3>4. (token # 0 => AtField(token, saveptr, url_copy))'
      BY <3>1 DEF QueryInv, AtField, Fields, FieldEnd
    <3> QED
      BY <3>1, <3>2, <3>3, <3>4 DEF QueryInv
  <2> QED
    BY <2>1, <2>2 DEF QueryNext
<1>2. QueryInv => ParamsAgree
  BY DEF QueryInv
<1> QED
  BY QueryStart, <1>1, <1>2, PTL DEF QuerySpec

-----------------------------------------------------------------------------
(* make_response_header.                                                   *)

\* What a response is about, and how little has been printed before each part: the
\* last column is what len has lost, more than was printed.
Announced ==
  /\ status \in {200, 404, 500}
  /\ mime \in DOMAIN mime_types
  /\ digits \in 1..19

PrintedAtMost(p, most, lost) == part = p => cnt <= most /\ len >= sizeof_buf - lost

HeaderInv ==
  /\ Announced
  /\ part \in {"status", "type", "length", "end", "done"}
  /\ cnt \in Nat /\ len \in Int
  /\ written = cnt
  /\ PrintedAtMost("status", 0, 0)
  /\ PrintedAtMost("type", 79, 79)
  /\ PrintedAtMost("length", 159, 238)
  /\ PrintedAtMost("end", 196, 434)
  /\ PrintedAtMost("done", 198, 632)

\* Every file has a type from the table or the type for unknown data.
LEMMA TypeIsShort == \A p : match_mime_type(p) \in DOMAIN mime_types
<1> SUFFICES ASSUME NEW p PROVE match_mime_type(p) \in DOMAIN mime_types
  OBVIOUS
<1>1. "XXXYYY" \in DOMAIN mime_types
  BY DEF mime_types
<1> QED
  BY <1>1 DEF match_mime_type

LEMMA PartLengths ==
  /\ \A m \in DOMAIN mime_types : mime_types[m] \in 0..64
  /\ \A code \in {200, 404, 500} : status_string(code) \in 0..64
<1>1. \A m \in DOMAIN mime_types : mime_types[m] \in 0..64
  BY DEF mime_types
<1>2. \A code \in {200, 404, 500} : status_string(code) \in 0..64
  BY DEF status_string
<1> QED
  BY <1>1, <1>2

\* The header of every response, for every file, fits the 2048 characters although
\* len shrinks faster than the room does: what is copied has all been written.
THEOREM HeadersAreWhole == HeaderSpec => []HeaderWhole
<1>1. HeaderInit => HeaderInv
  <2> SUFFICES ASSUME HeaderInit PROVE HeaderInv
    OBVIOUS
  <2>1. Announced
    BY TypeIsShort DEF HeaderInit, Announced
  <2> QED
    BY <2>1 DEF HeaderInit, HeaderInv, PrintedAtMost, sizeof_buf
<1>2. HeaderInv /\ [HeaderNext]_headerVars => HeaderInv'
  <2> SUFFICES ASSUME HeaderInv, [HeaderNext]_headerVars PROVE HeaderInv'
    OBVIOUS
  <2>1. /\ status_string(status) \in 0..64
        /\ mime_types[mime] \in 0..64
        /\ digits \in 1..19
        /\ cnt \in Nat /\ len \in Int
    BY PartLengths DEF HeaderInv, Announced
  <2>2. CASE make_header_status
    <3> DEFINE k == 9 + 3 + 1 + status_string(status) + 2
    <3>1. k \in 0..79
      <4>1. \A m \in {9}, n \in 0..64 : m + 3 + 1 + n + 2 \in 0..79
        OBVIOUS
      <4> QED
        BY <2>1, <4>1
    <3>2. part = "status"
      BY <2>2 DEF make_header_status
    <3>3. cnt = 0 /\ len >= sizeof_buf - 0
      BY <3>2 DEF HeaderInv, PrintedAtMost, sizeof_buf
    <3>4. /\ part' = "type" /\ cnt' = cnt + k /\ len' = len - cnt'
          /\ len > k => written' = written + k
          /\ UNCHANGED <<status, mime, digits>>
      BY <2>1, <2>2, <3>1 DEF make_header_status, snprintf
    <3> HIDE DEF k
    <3> QED
      BY <3>1, <3>2, <3>3, <3>4 DEF HeaderInv, Announced, PrintedAtMost, sizeof_buf
  <2>3. CASE make_header_content_type
    <3> DEFINE k == 14 + mime_types[mime] + 2
    <3>1. k \in 0..80
      <4>1. \A m \in {14}, n \in 0..64 : m + n + 2 \in 0..80
        OBVIOUS
      <4> QED
        BY <2>1, <4>1
    <3>2. part = "type"
      BY <2>3 DEF make_header_content_type
    <3>3. cnt <= 79 /\ len >= sizeof_buf - 79
      BY <3>2 DEF HeaderInv, PrintedAtMost, sizeof_buf
    <3>4. /\ part' = "length" /\ cnt' = cnt + k /\ len' = len - cnt'
          /\ len > k => written' = written + k
          /\ UNCHANGED <<status, mime, digits>>
      BY <2>1, <2>3, <3>1 DEF make_header_content_type, snprintf
    <3> HIDE DEF k
    <3> QED
      BY <3>1, <3>2, <3>3, <3>4 DEF HeaderInv, Announced, PrintedAtMost, sizeof_buf
  <2>4. CASE make_header_content_length
    <3> DEFINE k == 16 + digits + 2
    <3>1. k \in 0..37
      BY <2>1
    <3>2. part = "length"
      BY <2>4 DEF make_header_content_length
    <3>3. cnt <= 159 /\ len >= sizeof_buf - 238
      BY <3>2 DEF HeaderInv, PrintedAtMost, sizeof_buf
    <3>4. /\ part' = "end" /\ cnt' = cnt + k /\ len' = len - cnt'
          /\ len > k => written' = written + k
          /\ UNCHANGED <<status, mime, digits>>
      BY <2>1, <2>4, <3>1 DEF make_header_content_length, snprintf
    <3> HIDE DEF k
    <3> QED
      BY <3>1, <3>2, <3>3, <3>4 DEF HeaderInv, Announced, PrintedAtMost, sizeof_buf
  <2>5. CASE make_response_header
    <3> DEFINE k == 2
    <3>1. k \in 0..2
      BY <2>1
    <3>2. part = "end"
      BY <2>5 DEF make_response_header
    <3>3. cnt <= 196 /\ len >= sizeof_buf - 434
      BY <3>2 DEF HeaderInv, PrintedAtMost, sizeof_buf
    <3>4. /\ part' = "done" /\ cnt' = cnt + k /\ len' = len - cnt'
          /\ len > k => written' = written + k
          /\ UNCHANGED <<status, mime, digits>>
      BY <2>1, <2>5, <3>1 DEF make_response_header, snprintf
    <3> HIDE DEF k
    <3> QED
      BY <3>1, <3>2, <3>3, <3>4 DEF HeaderInv, Announced, PrintedAtMost, sizeof_buf
  <2>6. CASE UNCHANGED headerVars
    BY <2>6 DEF headerVars, HeaderInv, Announced, PrintedAtMost
  <2> QED
    BY <2>2, <2>3, <2>4, <2>5, <2>6 DEF HeaderNext
<1>3. HeaderInv => HeaderWhole
  BY DEF HeaderInv, PrintedAtMost, HeaderWhole, sizeof_buf
<1> QED
  BY <1>1, <1>2, <1>3, PTL DEF HeaderSpec

-----------------------------------------------------------------------------
(* match_mime_type.                                                        *)

\* strrchr finds the last place, if there is one.
LEMMA LastPlace ==
  ASSUME NEW p \in Seq(STRING), NEW x
  PROVE  LET d == strrchr(p, x)
         IN  /\ d \in 0..Len(p)
             /\ d # 0 => p[d] = x
             /\ \A k \in 1..Len(p) : p[k] = x => k <= d
<1> DEFINE S == {k \in DOMAIN p : p[k] = x} \cup {0}
<1>1. DOMAIN p = 1..Len(p) /\ Len(p) \in Nat
  BY LenProperties
<1>2. S \in SUBSET (0..Len(p)) /\ S # {}
  BY <1>1
<1>3. Max(S) \in S /\ \A k \in S : k <= Max(S)
  BY <1>1, <1>2, GreatestNumber
<1>4. strrchr(p, x) = Max(S)
  BY DEF strrchr
<1> QED
  BY <1>1, <1>2, <1>3, <1>4

\* The name of the file ends in an extension of the table.
OwnExtension(p) ==
  LET slashes == {k \in DOMAIN p : p[k] = "/"}
      name    == {k \in DOMAIN p : \A s \in slashes : s < k}
  IN  \E k \in name : /\ k = Len(p) /\ k - 1 \in name
                      /\ p[k - 1] = "." /\ p[k] \in DOMAIN mime_types

\* The extension that match_mime_type finds after the last "." of the path is that
\* of the file's own name: no entry of the table is a "." or a "/", so neither
\* comes after that "." when it finds one.
LEMMA MimeOfName ==
  ASSUME NEW p \in Seq(STRING)
  PROVE  match_mime_type(p) = IF OwnExtension(p) THEN Last(p) ELSE "XXXYYY"
<1> DEFINE dot == strrchr(p, ".")
           n   == Len(p)
           ext == SubSeq(p, dot + 1, n)
           Found == dot # 0 /\ Len(ext) = 1 /\ ext[1] \in DOMAIN mime_types
<1>1. n \in Nat /\ DOMAIN p = 1..n /\ Last(p) = p[n]
  BY LenProperties DEF Last
<1>2. /\ dot \in 0..n
      /\ dot # 0 => p[dot] = "."
      /\ \A k \in 1..n : p[k] = "." => k <= dot
  BY LastPlace
<1>3. "." \notin DOMAIN mime_types /\ "/" \notin DOMAIN mime_types
  BY DEF mime_types
<1>4. match_mime_type(p) = IF Found THEN ext[1] ELSE "XXXYYY"
  BY DEF match_mime_type
<1> HIDE DEF dot
<1>5. /\ Len(ext) = n - dot
      /\ \A k \in 1..(n - dot) : ext[k] = p[dot + k]
  <2>1. n \in Nat /\ dot \in 0..n
    BY <1>1, <1>2
  <2>3. /\ Len(ext) = IF dot + 1 <= n THEN n - (dot + 1) + 1 ELSE 0
        /\ \A k \in 1..(n - (dot + 1) + 1) : ext[k] = p[(dot + 1) + k - 1]
    BY <2>1, SubSeqProperties
  <2>4. ASSUME NEW a \in Nat, NEW b \in 0..a
        PROVE  /\ a - (b + 1) + 1 = a - b
               /\ (IF b + 1 <= a THEN a - b ELSE 0) = a - b
               /\ \A k \in Nat : (b + 1) + k - 1 = b + k
    OBVIOUS
  <2> QED
    BY <2>1, <2>3, <2>4
<1> HIDE DEF ext, n
<1>6. ASSUME Found PROVE OwnExtension(p) /\ ext[1] = Last(p)
  <2>0. dot \in 1..n /\ n - dot = 1
    <3>1. n \in Nat /\ dot \in 0..n
      BY <1>1, <1>2
    <3>2. dot # 0 /\ n - dot = 1
      BY <1>5, <1>6
    <3> QED
      BY <3>1, <3>2
  <2>1. dot = n - 1 /\ n >= 2 /\ p[n - 1] = "." /\ ext[1] = p[n]
    <3>1. dot = n - 1 /\ n >= 2
      BY <1>1, <2>0
    <3>2. ext[1] = p[dot + 1]
      BY <1>5, <2>0
    <3> QED
      BY <1>1, <1>2, <3>1, <3>2
  <2>2. p[n] \in DOMAIN mime_types
    BY <1>6, <2>1
  <2>3. \A s \in 1..n : p[s] = "/" => s < n - 1
    <3> SUFFICES ASSUME NEW s \in 1..n, p[s] = "/", ~(s < n - 1) PROVE FALSE
      OBVIOUS
    <3>1. s = n - 1 \/ s = n
      BY <1>1
    <3>2. "/" # "."
      OBVIOUS
    <3> QED
      BY <1>3, <2>1, <2>2, <3>1, <3>2
  <2>4. n \in 1..n /\ n - 1 \in 1..n
    BY <1>1, <2>1
  <2>5. \A s \in 1..n : p[s] = "/" => s < n
    BY <1>1, <2>3
  <2> QED
    BY <1>1, <2>1, <2>2, <2>3, <2>4, <2>5 DEF OwnExtension, n
<1>7. ASSUME OwnExtension(p) PROVE Found
  <2>1. n - 1 \in 1..n /\ p[n - 1] = "." /\ p[n] \in DOMAIN mime_types /\ n \in 1..n
    BY <1>1, <1>7 DEF OwnExtension, n
  <2>2. dot # n
    BY <1>1, <1>2, <1>3, <2>1
  <2>3. dot = n - 1
    BY <1>1, <1>2, <2>1, <2>2
  <2> QED
    BY <1>1, <1>5, <2>1, <2>3
<1> QED
  BY <1>4, <1>6, <1>7

\* The content type is that of the file's own extension, for every path.
MimeInv == status = 200 => file \in Seq(STRING) /\ mime = match_mime_type(file)

\* The header names the type that belongs to the name of the file found, whatever
\* dots and slashes the path has (match_mime_type).
THEOREM TypeIsByName == HeaderSpec => []MimeByName
<1>1. HeaderInit => MimeInv
  BY FilesAssumption DEF HeaderInit, MimeInv
<1>2. MimeInv /\ [HeaderNext]_headerVars => MimeInv'
  <2> SUFFICES ASSUME MimeInv, [HeaderNext]_headerVars PROVE MimeInv'
    OBVIOUS
  <2>1. UNCHANGED <<file, status, mime>>
    BY DEF HeaderNext, headerVars, make_header_status, make_header_content_type,
           make_header_content_length, make_response_header, snprintf
  <2> QED
    BY <2>1 DEF MimeInv
<1>3. MimeInv => MimeByName
  <2> SUFFICES ASSUME MimeInv, status = 200 PROVE MimeByName
    BY DEF MimeByName
  <2>1. mime = IF OwnExtension(file) THEN Last(file) ELSE "XXXYYY"
    BY MimeOfName DEF MimeInv
  <2> QED
    BY <2>1, Zenon DEF MimeByName, OwnExtension
<1> QED
  BY <1>1, <1>2, <1>3, PTL DEF HeaderSpec

-----------------------------------------------------------------------------
(* The paths of one request (CandidatePaths).                              *)

\* What paths are made of.
Token == STRING \cup {"/"}

LEMMA CandidateTokens ==
  /\ Urls \subseteq Seq(Token)
  /\ Root \in Seq(Token)
  /\ Defaults \in Seq(Seq(Token) \ {<<>>}) \ {<<>>}
  /\ PathBuffer \in Nat \ {0}
<1>1. Seq(STRING) \subseteq Seq(Token)
  BY SeqMonotonic DEF Token
<1>2. Seq(Seq(STRING) \ {<<>>}) \subseteq Seq(Seq(Token) \ {<<>>})
  <2>1. Seq(STRING) \ {<<>>} \subseteq Seq(Token) \ {<<>>}
    BY <1>1
  <2> QED
    BY <2>1, SeqMonotonic
<1> QED
  BY <1>1, <1>2, CandidateAssumption

LEMMA PrefixByPlaces ==
  ASSUME NEW s \in Seq(Token), NEW t \in Seq(Token),
         Len(s) <= Len(t), \A k \in 1..Len(s) : s[k] = t[k]
  PROVE  IsPrefix(s, t)
<1> DEFINE u == SubSeq(t, 1, Len(s))
<1>1. /\ Len(s) \in Nat /\ Len(t) \in Nat
      /\ \A k \in 1..Len(t) : t[k] \in Token
  BY LenProperties, ElementOfSeq
<1>2. \A k \in 1..Len(s) : t[k] \in Token
  BY <1>1
<1>3. /\ u \in Seq(Token)
      /\ Len(u) = IF 1 <= Len(s) THEN Len(s) - 1 + 1 ELSE 0
      /\ \A k \in 1..(Len(s) - 1 + 1) : u[k] = t[1 + k - 1]
  BY <1>1, <1>2, SubSeqProperties
<1>4. \A n \in Nat : n - 1 + 1 = n /\ 1 + n - 1 = n /\ (IF 1 <= n THEN n - 1 + 1 ELSE 0) = n
  OBVIOUS
<1> HIDE DEF u
<1>5. Len(u) = Len(s) /\ \A k \in 1..Len(s) : u[k] = t[k]
  BY <1>1, <1>3, <1>4
<1>6. u = s
  BY <1>3, <1>5, SeqEqual
<1>7. SubSeq(s, 1, Len(s)) = s
  BY SubSeqFull
<1> QED
  BY <1>6, <1>7 DEF IsPrefix, u

\* What snprintf leaves of a path: its first PathBuffer - 1 places.
LEMMA CutPlaces ==
  ASSUME NEW p \in Seq(Token)
  PROVE  /\ cut(p) \in Seq(Token)
         /\ Len(cut(p)) = IF Len(p) < PathBuffer THEN Len(p) ELSE PathBuffer - 1
         /\ \A k \in 1..Len(cut(p)) : cut(p)[k] = p[k]
<1> DEFINE m == IF Len(p) < PathBuffer THEN Len(p) ELSE PathBuffer - 1
<1>1. Len(p) \in Nat /\ PathBuffer \in Nat \ {0} /\ \A k \in 1..Len(p) : p[k] \in Token
  BY LenProperties, ElementOfSeq, CandidateTokens
<1>2. m \in Nat /\ m <= Len(p) /\ m <= PathBuffer - 1 /\ m \in {Len(p), PathBuffer - 1}
  BY <1>1
<1>3. Min({Len(p), PathBuffer - 1}) = m
  BY <1>1, <1>2 DEF Min
<1>4. cut(p) = SubSeq(p, 1, m)
  BY <1>3 DEF cut
<1> HIDE DEF m
<1>5. \A k \in 1..m : p[k] \in Token
  BY <1>1, <1>2
<1>6. /\ cut(p) \in Seq(Token)
      /\ Len(cut(p)) = IF 1 <= m THEN m - 1 + 1 ELSE 0
      /\ \A k \in 1..(m - 1 + 1) : cut(p)[k] = p[1 + k - 1]
  BY <1>2, <1>4, <1>5, SubSeqProperties
<1>7. \A n \in Nat : n - 1 + 1 = n /\ 1 + n - 1 = n /\ (IF 1 <= n THEN n - 1 + 1 ELSE 0) = n
  OBVIOUS
<1>8. Len(cut(p)) = m /\ \A k \in 1..m : cut(p)[k] = p[k]
  BY <1>2, <1>6, <1>7
<1> QED
  BY <1>6, <1>8 DEF m

LEMMA CutWhole ==
  ASSUME NEW p \in Seq(Token), Len(p) < PathBuffer
  PROVE  cut(p) = p
BY CutPlaces, SeqEqual

\* Below a named URL both functions build the same name: the directory that was
\* found, one "/" and the default file (check_path_async, check_default_files_async).
LEMMA DefaultBelowDirectory ==
  ASSUME NEW u \in Seq(Token), Named(u), NEW n \in Nat, n < Len(Defaults)
  PROVE  LET found == Root \o u
             dir   == IF Last(found) = "/" THEN found ELSE Append(found, "/")
         IN  /\ found \in Seq(Token)
             /\ dir \in Seq(Token)
             /\ Defaults[n + 1] \in Seq(Token)
             /\ Len(Defaults[n + 1]) >= 1
             /\ default_path(found, found, n) = dir \o Defaults[n + 1]
             /\ default_path(u, found, n) = dir \o Defaults[n + 1]
<1> DEFINE found == Root \o u
           dir   == IF Last(found) = "/" THEN found ELSE Append(found, "/")
<1>1. /\ Root \in Seq(Token) /\ Len(Root) \in Nat /\ Len(u) \in Nat /\ Len(u) >= 1
      /\ Len(u) > 1 \/ Last(u) = "/"
  <2>1. CASE Len(u) > 1
    BY <2>1, CandidateTokens, LenProperties
  <2>2. CASE u = <<"/">>
    <3>1. Len(u) = 1 /\ Last(u) = "/"
      BY <2>2 DEF Last
    <3> QED
      BY <3>1, CandidateTokens, LenProperties
  <2> QED
    BY <2>1, <2>2 DEF Named
<1>2. /\ found \in Seq(Token) /\ Len(found) = Len(Root) + Len(u)
      /\ \A k \in 1..(Len(Root) + Len(u)) :
            found[k] = IF k <= Len(Root) THEN Root[k] ELSE u[k - Len(Root)]
  BY <1>1, ConcatProperties
<1>3. found[Len(Root) + Len(u)] = u[(Len(Root) + Len(u)) - Len(Root)]
  BY <1>1, <1>2
<1>4. \A a, b \in Nat : (a + b) - a = b
  OBVIOUS
<1>5. Last(found) = Last(u)
  BY <1>1, <1>2, <1>3, <1>4 DEF Last
<1>6. Defaults[n + 1] \in Seq(Token) /\ Len(Defaults[n + 1]) >= 1
  <2>1. Defaults \in Seq(Seq(Token) \ {<<>>}) /\ Len(Defaults) \in Nat
    BY CandidateTokens, LenProperties
  <2>2. n + 1 \in 1..Len(Defaults)
    BY <2>1
  <2>3. Defaults[n + 1] \in Seq(Token) \ {<<>>}
    BY <2>1, <2>2, ElementOfSeq
  <2> QED
    BY <2>3, EmptySeq, LenProperties
<1> HIDE DEF found
<1>7. Append(found, "/") = found \o <<"/">> /\ Append(found, "/") \in Seq(Token)
  <2>1. "/" \in Token
    BY DEF Token
  <2> QED
    BY <1>2, <2>1, AppendIsConcat, AppendProperties
<1>8. CASE Last(found) = "/"
  <2>1. Last(u) = "/"
    BY <1>5, <1>8
  <2>2. /\ default_path(found, found, n) = found \o Defaults[n + 1]
        /\ default_path(u, found, n) = found \o Defaults[n + 1]
    BY <1>8, <2>1 DEF default_path
  <2> QED
    BY <1>2, <1>6, <1>8, <2>2 DEF found
<1>9. CASE Last(found) # "/"
  <2>1. Last(u) # "/" /\ Len(u) > 1
    BY <1>1, <1>5, <1>9
  <2>2. Len(found) > 1
    BY <1>1, <1>2, <2>1
  <2>3. /\ default_path(found, found, n) = (found \o <<"/">>) \o Defaults[n + 1]
        /\ default_path(u, found, n) = (found \o <<"/">>) \o Defaults[n + 1]
    BY <1>9, <2>1, <2>2 DEF default_path
  <2> QED
    BY <1>2, <1>6, <1>7, <1>9, <2>3 DEF found
<1> QED
  BY <1>8, <1>9

\* The invariant knows the path that was asked for while its answer is awaited:
\* the one that was found, or that of the next default file.  Without the former
\* nothing relates the first default file, built from the path, to the URL.
CandidateInv ==
  /\ url \in Urls
  /\ tries \in Nat
  /\ step = "check_path_async" =>
       /\ asked = Root \o url
       /\ Len(asked) < PathBuffer
  /\ step = "check_default_files_async" /\ Named(url) =>
       /\ tries < Len(Defaults)
       /\ asked = cut(FoundDirectory \o Defaults[tries + 1])
       /\ tries > 0 => asked = FoundDirectory \o Defaults[tries + 1]

LEMMA CandidateStep == CandidateInv /\ [CandidateNext]_candidateVars => CandidateInv'
<1> SUFFICES ASSUME CandidateInv, [CandidateNext]_candidateVars PROVE CandidateInv'
  OBVIOUS
<1>1. url \in Seq(Token) /\ Root \o url \in Seq(Token) /\ Len(Root \o url) \in Nat
  <2>1. url \in Seq(Token) /\ Root \in Seq(Token)
    BY CandidateTokens DEF CandidateInv
  <2>2. Root \o url \in Seq(Token)
    BY <2>1, ConcatProperties
  <2> QED
    BY <2>1, <2>2, LenProperties
<1>2. Len(Defaults) \in Nat /\ Len(Defaults) >= 1
  BY CandidateTokens, EmptySeq, LenProperties
<1>3. ASSUME NEW n \in Nat, n < Len(Defaults), Named(url)
      PROVE  /\ default_path(Root \o url, Root \o url, n) = FoundDirectory \o Defaults[n + 1]
             /\ default_path(url, Root \o url, n) = FoundDirectory \o Defaults[n + 1]
  BY <1>1, <1>3, DefaultBelowDirectory DEF FoundDirectory
<1>4. CASE process_request
  <2>1. CASE Len(Root \o url) >= PathBuffer
    BY <1>4, <2>1 DEF process_request, answer, CandidateInv
  <2>2. CASE ~(Len(Root \o url) >= PathBuffer)
    <3>1. PathBuffer \in Nat
      BY CandidateTokens
    <3>2. Len(Root \o url) < PathBuffer
      BY <1>1, <2>2, <3>1
    <3>3. cut(Root \o url) = Root \o url
      BY <1>1, <3>2, CutWhole
    <3> QED
      BY <1>4, <2>2, <3>2, <3>3 DEF process_request, uv_fs_stat, CandidateInv
  <2> QED
    BY <2>1, <2>2
<1>5. CASE check_path_async
  <2>1. CASE answer("404") \/ answer("200")
    BY <2>1 DEF answer, CandidateInv
  <2>2. CASE tries' = 0 /\ uv_fs_stat(default_path(asked, asked, 0), "check_default_files_async")
    <3>1. asked = Root \o url
      BY <1>5 DEF check_path_async, CandidateInv
    <3>2. /\ url' = url /\ tries' = 0 /\ step' = "check_default_files_async"
          /\ asked' = cut(default_path(Root \o url, Root \o url, 0))
      BY <2>2, <3>1 DEF uv_fs_stat
    <3>3. FoundDirectory' = FoundDirectory /\ Named(url)' = Named(url)
      BY <3>2 DEF FoundDirectory, Named
    <3>4. Named(url) => asked' = cut(FoundDirectory \o Defaults[0 + 1])
      <4>1. 0 \in Nat /\ 0 < Len(Defaults)
        BY <1>2
      <4>2. Named(url) =>
              default_path(Root \o url, Root \o url, 0) = FoundDirectory \o Defaults[0 + 1]
        BY <1>3, <4>1
      <4> QED
        BY <3>2, <4>2
    <3> QED
      BY <1>2, <3>2, <3>3, <3>4 DEF CandidateInv
  <2> QED
    BY <1>5, <2>1, <2>2 DEF check_path_async
<1>6. CASE check_default_files_async
  <2>1. CASE answer("200")
    BY <2>1 DEF answer, CandidateInv
  <2> DEFINE p == default_path(url, Root \o url, tries + 1)
  <2>2. CASE /\ tries' = tries + 1
             /\ IF tries + 1 >= Len(Defaults)
                THEN step' = "404" /\ UNCHANGED <<url, asked>>
                ELSE IF Len(p) >= PathBuffer
                     THEN step' = "500" /\ UNCHANGED <<url, asked>>
                     ELSE uv_fs_stat(p, "check_default_files_async")
    <3>1. tries \in Nat /\ tries' = tries + 1 /\ url' = url /\ tries' \in Nat
      BY <2>2 DEF CandidateInv, uv_fs_stat
    <3>2. CASE step' = "404" \/ step' = "500"
      BY <3>1, <3>2 DEF CandidateInv
    <3>3. CASE ~(tries + 1 >= Len(Defaults)) /\ ~(Len(p) >= PathBuffer)
      <4>1. asked' = cut(p) /\ step' = "check_default_files_async"
        BY <2>2, <3>3 DEF uv_fs_stat
      <4>2. tries' < Len(Defaults) /\ tries' > 0
        BY <1>2, <3>1, <3>3
      <4>3. ASSUME Named(url) PROVE p = FoundDirectory \o Defaults[tries' + 1] /\ asked' = p
        <5>1. p = FoundDirectory \o Defaults[tries' + 1]
          BY <1>3, <3>1, <4>2, <4>3
        <5>2. p \in Seq(Token)
          <6>1. /\ FoundDirectory \in Seq(Token) /\ Defaults[tries' + 1] \in Seq(Token)
            BY <1>1, <3>1, <4>2, <4>3, DefaultBelowDirectory DEF FoundDirectory
          <6> QED
            BY <5>1, <6>1, ConcatProperties
        <5>3. Len(p) < PathBuffer
          <6>1. Len(p) \in Nat /\ PathBuffer \in Nat
            BY <5>2, LenProperties, CandidateTokens
          <6> QED
            BY <3>3, <6>1
        <5> QED
          BY <4>1, <5>1, <5>2, <5>3, CutWhole
      <4>4. FoundDirectory' = FoundDirectory /\ Named(url)' = Named(url)
        BY <3>1 DEF FoundDirectory, Named
      <4> HIDE DEF p
      <4> QED
        BY <3>1, <4>1, <4>2, <4>3, <4>4 DEF CandidateInv
    <3> QED
      BY <2>2, <3>2, <3>3
  <2> QED
    BY <1>6, <2>1, <2>2 DEF check_default_files_async
<1>7. CASE UNCHANGED candidateVars
  BY <1>7 DEF candidateVars, CandidateInv, FoundDirectory, Named
<1> QED
  BY <1>4, <1>5, <1>6, <1>7 DEF CandidateNext

\* Below a directory every default file that is asked for has the directory's path
\* and one "/" before its name, whichever of the two functions has built the name.
THEOREM DefaultsStayInDirectory == CandidateSpec => []DefaultsInDirectory
<1>1. CandidateInit => CandidateInv
  BY DEF CandidateInit, CandidateInv
<1>2. CandidateInv => DefaultsInDirectory
  <2> DEFINE dir == FoundDirectory
             d   == Defaults[tries + 1]
             p   == dir \o d
  <2> SUFFICES ASSUME CandidateInv, step = "check_default_files_async", Named(url),
                      Len(dir) < PathBuffer - 1
               PROVE  /\ IsStrictPrefix(dir, asked)
                      /\ IsPrefix(asked, p)
                      /\ tries > 0 => asked = p
    BY DEF DefaultsInDirectory
  <2>1. tries \in Nat /\ tries < Len(Defaults) /\ asked = cut(p) /\ (tries > 0 => asked = p)
    BY DEF CandidateInv
  <2>2. url \in Seq(Token)
    BY CandidateTokens DEF CandidateInv
  <2>3. dir \in Seq(Token) /\ d \in Seq(Token) /\ Len(d) >= 1
    BY <2>1, <2>2, DefaultBelowDirectory DEF FoundDirectory
  <2>4. Len(dir) \in Nat /\ Len(d) \in Nat /\ PathBuffer \in Nat
    BY <2>3, LenProperties, CandidateTokens
  <2> HIDE DEF dir, d
  <2>5. /\ p \in Seq(Token) /\ Len(p) = Len(dir) + Len(d)
        /\ \A k \in 1..(Len(dir) + Len(d)) :
              p[k] = IF k <= Len(dir) THEN dir[k] ELSE d[k - Len(dir)]
    BY <2>3, ConcatProperties
  <2> HIDE DEF p
  <2>6. /\ asked \in Seq(Token)
        /\ Len(asked) = IF Len(p) < PathBuffer THEN Len(p) ELSE PathBuffer - 1
        /\ \A k \in 1..Len(asked) : asked[k] = p[k]
    BY <2>1, <2>5, CutPlaces
  <2>7. Len(dir) < Len(asked) /\ Len(asked) <= Len(p) /\ Len(asked) \in Nat
    BY <2>3, <2>4, <2>5, <2>6
  <2>8. \A k \in 1..Len(dir) : dir[k] = asked[k]
    BY <2>4, <2>5, <2>6, <2>7
  <2>9. IsPrefix(dir, asked) /\ IsPrefix(asked, p)
    BY <2>3, <2>4, <2>5, <2>6, <2>7, <2>8, PrefixByPlaces
  <2>10. dir # asked
    BY <2>4, <2>7
  <2> QED
    BY <2>1, <2>9, <2>10 DEF IsStrictPrefix
<1> QED
  BY <1>1, <1>2, CandidateStep, PTL DEF CandidateSpec
=============================================================================
