----------------------------- MODULE QueryParams -----------------------------
(***************************************************************************)
(* parse_get_url (src/src/webserver.c): the query is split at "&" by       *)
(* strtok_r and each field at "=" by strtok, in one copy of it; the pairs  *)
(* go to a UT_array.  A step is one turn of the loop.                      *)
(*                                                                         *)
(* A C string is a sequence that ends with "NUL", a pointer into it an     *)
(* index, and 0 the null pointer.                                          *)
(***************************************************************************)
EXTENDS Naturals, SequencesExt

CONSTANT Queries  \* the strings after the "?" of a URL

ASSUME QueriesAssumption == Queries \subseteq Seq(STRING \ {"NUL"})

VARIABLES
  query,     \* the argument
  url_copy,  \* the copy that the tokenizers cut
  token,     \* the field at hand
  saveptr,   \* where strtok_r goes on
  params,    \* the pairs pushed so far: the UT_array's elements below i
  slots      \* the UT_array's n, for how many it has room

queryVars == <<query, url_copy, token, saveptr, params, slots>>

\* The first place from p on where s has, or has not, one of the characters X.
NextIn(s, p, X)    == Min({k \in p..Len(s) : s[k] \in X})
NextNotIn(s, p, X) == Min({k \in p..Len(s) : s[k] \notin X})

CString(s, p) == SubSeq(s, p, NextIn(s, p, {"NUL"}) - 1)

\* glibc's strtok_r: skips delimiters, ends the token with a NUL, and leaves
\* saved behind it.  strtok is the same with a saved of its own.
strtok_r(s, p, delim) ==
  LET from  == NextNotIn(s, p, {delim})
      until == NextIn(s, from, {delim, "NUL"})
  IN  IF s[from] = "NUL"
      THEN [token |-> 0, saved |-> from, buf |-> s]
      ELSE [token |-> from,
            saved |-> IF s[until] = "NUL" THEN until ELSE until + 1,
            buf   |-> [s EXCEPT ![until] = "NUL"]]

\* The operators whose names end in _mutant are mistakes that the checked
\* properties must notice; no action uses them.
resumed_mutant(outer, inner) == inner
utarray_reserve_mutant(i, n) == IF i > n THEN 2 * n ELSE IF n = 0 THEN 8 ELSE n

QueryInit ==
  /\ query \in Queries
  /\ LET t == strtok_r(Append(query, "NUL"), 1, "&")
     IN  url_copy = t.buf /\ token = t.token /\ saveptr = t.saved
  /\ params = <<>>
  /\ slots = 0

\* Room for one more element after i of them: the while loop turns at most once.
utarray_reserve(i, n) == IF i + 1 > n THEN (IF n = 0 THEN 8 ELSE 2 * n) ELSE n

utarray_push_back(param) ==
  /\ slots' = utarray_reserve(Len(params), slots)
  /\ params' = Append(params, param)

\* The outer loop goes on from its own saveptr.
resumed(outer, inner) == outer

parse_get_url ==
  /\ token # 0
  /\ LET name  == strtok_r(url_copy, token, "=")
         value == strtok_r(name.buf, name.saved, "=")
         field == strtok_r(value.buf, resumed(saveptr, value.saved), "&")
     IN  /\ IF name.token # 0 /\ value.token # 0
            THEN utarray_push_back(<<CString(value.buf, name.token),
                                     CString(value.buf, value.token)>>)
            ELSE UNCHANGED <<params, slots>>
         /\ url_copy' = field.buf
         /\ token' = field.token
         /\ saveptr' = field.saved
  /\ UNCHANGED query

QueryNext == parse_get_url

QuerySpec == QueryInit /\ [][QueryNext]_queryVars

-----------------------------------------------------------------------------
(* Properties.                                                             *)

\* The places from lo to hi where a piece of s begins that delim does not cut, and
\* the place where the piece that begins at p ends.
Begins(s, lo, hi, delim) ==
  {p \in lo..hi : s[p] # delim /\ (p = lo \/ s[p - 1] = delim)}
EndOf(s, p, hi, delim) == Min({e \in p..hi : e = hi \/ s[e + 1] = delim})

\* The fields of the query and the parts of a field, by where they begin.
Fields      == Begins(query, 1, Len(query), "&")
FieldEnd(f) == EndOf(query, f, Len(query), "&")
Parts(f)    == Begins(query, f, FieldEnd(f), "=")
Text(f, p)  == SubSeq(query, p, EndOf(query, p, FieldEnd(f), "="))

\* The fields that are pairs: those of at least two parts, of which the first two count.
Pairs     == {f \in Fields : \E p, q \in Parts(f) : p < q}
Name(f)   == Min(Parts(f))
Value(f)  == Min(Parts(f) \ {Name(f)})
PairsRead == {f \in Pairs : token = 0 \/ f < token}

\* At every turn of the loop the array has the pairs of the fields before the one at
\* hand, each at the place of its field, and when the loop is over those of the whole
\* query: neither tokenizer has disturbed the other, although both cut the same copy.
ParamsAgree ==
  /\ Len(params) = Cardinality(PairsRead)
  /\ \A f \in PairsRead :
       params[Cardinality({g \in Pairs : g <= f})] = <<Text(f, Name(f)), Text(f, Value(f))>>

\* Every pair was written into a slot that utarray_reserve had made room for.
SlotsSuffice == Len(params) <= slots
=============================================================================
