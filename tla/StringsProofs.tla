--------------------------- MODULE StringsProofs ---------------------------
(***************************************************************************)
(* What Strings promises, for all texts, lists and delimiters.  A text and *)
(* a list agree when the text, with one more delimiter at its end, can be  *)
(* cut into slices, each a member of the list followed by the delimiter.   *)
(* The loops of split and join extend such cuts by a slice at a time, so   *)
(* nothing has to be said about what a whole loop computes.  That a split  *)
(* made again is the same needs more: its cuts are where the delimiter     *)
(* first occurs, and there is only one first.                              *)
(***************************************************************************)
EXTENDS Strings, SequenceTheorems, FiniteSetTheorems, WellFoundedInduction, TLAPS

\* The cuts c take u up to e into the members of l, each with a delimiter.
Slices(c, u, l, e) ==
  /\ c \in [1..Len(l) + 1 -> 1..Len(u) + 1]
  /\ c[1] = 1 /\ c[Len(l) + 1] = e
  /\ \A i \in 1..Len(l) : c[i] <= c[i + 1] /\ SubSeq(u, c[i], c[i + 1] - 1) = l[i] \o delimiter

Ended(t) == t \o delimiter

\* The text t is the list l with delimiters in between.
Agree(t, l) ==
  IF l = << >> THEN t = << >>
  ELSE \E c : Slices(c, Ended(t), l, Len(Ended(t)) + 1)

\* Between calls the loops are at their beginning.
IdleOK == call = "none" => pos = 1 /\ pieces = << >> /\ s = << >>

\* What split has done so far.
SplitSoFar == call = "split" => \E c : Slices(c, text, pieces, pos)

\* What join has: its string is sliced, it ends with the delimiter, and it is
\* the beginning of a text that agrees with the list.
JoinSoFar ==
  call = "join" =>
    /\ \E c : Slices(c, s, SubSeq(list, 1, pos - 1), Len(s) + 1)
    /\ pos > 1 => \E t \in Seq(Chars) : s = Ended(t)
    /\ agree # "no" =>
         \A c : Slices(c, Ended(text), list, Len(Ended(text)) + 1)
                  => s = SubSeq(Ended(text), 1, c[pos] - 1)

\* A list that can come back, and how far it has.
Reversible ==
  /\ delimiter # << >> /\ Borderless
  /\ list # << >> /\ \A i \in DOMAIN list : Clean(list[i])

BackSoFar ==
  call = "split" /\ Reversible =>
    \A c : Slices(c, Ended(text), list, Len(Ended(text)) + 1)
            => \E k \in 1..Len(list) : pos = c[k] /\ pieces = SubSeq(list, 1, k - 1)

AgreeOK == agree # "no" => Agree(text, list)

IInv == TypeOK /\ IdleOK /\ SplitSoFar /\ JoinSoFar /\ BackSoFar /\ AgreeOK

-----------------------------------------------------------------------------
(* Types. *)

LEMMA DelimiterType == TypeOK => delimiter \in Seq(Chars)
BY CharsAssumption DEF TypeOK

\* A part of a text is a text.
LEMMA PartType ==
  ASSUME NEW S, NEW t \in Seq(S), NEW i \in Int, NEW j \in Int, 1 <= i, j <= Len(t)
  PROVE  SubSeq(t, i, j) \in Seq(S) /\ Len(SubSeq(t, i, j)) = IF i <= j THEN j - i + 1 ELSE 0
<1>1. \A k \in i..j : t[k] \in S
  BY ElementOfSeq, LenProperties
<1> QED
  BY <1>1, SubSeqProperties

LEMMA PartElements ==
  ASSUME NEW S, NEW t \in Seq(S), NEW i \in Int, NEW j \in Int, 1 <= i, j <= Len(t)
  PROVE  \A x \in 1..j - i + 1 : SubSeq(t, i, j)[x] = t[i + x - 1]
<1>1. \A k \in i..j : t[k] \in S
  BY ElementOfSeq, LenProperties
<1> QED
  BY <1>1, SubSeqProperties

LEMMA TrimType == TypeOK => trim(text) \in Seq(Chars)
<1> SUFFICES ASSUME TypeOK PROVE trim(text) \in Seq(Chars)
  OBVIOUS
<1>1. ASSUME NEW n \in Nat, NEW A \in SUBSET (1..n)
      PROVE  Cardinality(A) \in 0..n
  <2>1. IsFiniteSet(1..n) /\ Cardinality(1..n) = n
    BY FS_Interval
  <2>2. Cardinality(A) \in Nat /\ Cardinality(A) <= n
    BY <2>1, FS_Subset, FS_CardinalityType
  <2> QED
    BY <2>2
<1>2. ASSUME NEW t \in Seq(Chars)
      PROVE  ltrim(t) \in Seq(Chars) /\ rtrim(t) \in Seq(Chars)
  <2>1. Len(t) \in Nat
    BY LenProperties
  <2>2. \A k \in 0..Len(t) : SubSeq(t, 1 + k, Len(t)) \in Seq(Chars) /\ SubSeq(t, 1, Len(t) - k) \in Seq(Chars)
    <3> TAKE k \in 0..Len(t)
    <3>1. SubSeq(t, 1 + k, Len(t)) \in Seq(Chars)
      BY <2>1, PartType
    <3>2. SubSeq(t, 1, Len(t) - k) \in Seq(Chars)
      BY <2>1, PartType
    <3> QED
      BY <3>1, <3>2
  <2>3. Cardinality({i \in 1..Len(t) : \A j \in 1..i : t[j] \in Space}) \in 0..Len(t)
    BY <1>1, <2>1
  <2>4. Cardinality({i \in 1..Len(t) : \A j \in i..Len(t) : t[j] \in Space}) \in 0..Len(t)
    BY <1>1, <2>1
  <2> QED
    BY <2>2, <2>3, <2>4 DEF ltrim, rtrim
<1> QED
  BY <1>2 DEF TypeOK, trim

LEMMA InitType == Init => TypeOK
<1> SUFFICES ASSUME Init PROVE TypeOK
  OBVIOUS
<1>1. << >> \in Seq(Chars) /\ << >> \in Seq(Seq(Chars)) /\ Len(<< >>) = 0
  BY EmptySeq
<1>2. text \in Seq(Chars) /\ list \in Seq(Seq(Chars))
  BY <1>1, CharsAssumption DEF Init
<1>3. pos \in 1..(IF call = "join" THEN Len(list) ELSE Len(text)) + 1
  BY <1>2, LenProperties DEF Init
<1> QED
  BY <1>1, <1>2, <1>3 DEF Init, TypeOK

\* What a function returns has the right type when its parts have.
LEMMA ReturnType ==
  ASSUME TypeOK, NEW t \in Seq(Chars), NEW l \in Seq(Seq(Chars)),
         NEW a \in {"no", "split", "joined"}, Return(t, l, a)
  PROVE  TypeOK' /\ IdleOK'
<1>1. << >> \in Seq(Chars) /\ << >> \in Seq(Seq(Chars)) /\ Len(t) \in Nat
  BY EmptySeq, LenProperties
<1>2. pos' \in 1..(IF call' = "join" THEN Len(list') ELSE Len(text')) + 1
  BY <1>1 DEF Return
<1> QED
  BY <1>1, <1>2 DEF Return, TypeOK, IdleOK

\* The places of an occurrence.
LEMMA OccursType ==
  ASSUME TypeOK, NEW i \in pos..Len(text), Found(i), call # "join"
  PROVE  /\ Len(delimiter) \in Nat /\ Len(text) \in Nat /\ pos \in Nat \ {0}
         /\ i + Len(delimiter) - 1 <= Len(text)
         /\ SubSeq(text, pos, i - 1) \in Seq(Chars)
         /\ Len(SubSeq(text, pos, i - 1)) = i - pos
         /\ SubSeq(text, i, i + Len(delimiter) - 1) = delimiter
<1>1. Len(delimiter) \in Nat /\ Len(text) \in Nat
  BY DelimiterType, LenProperties DEF TypeOK
<1>2. pos \in 1..Len(text) + 1 /\ text \in Seq(Chars)
  BY DEF TypeOK
<1>3. i + Len(delimiter) - 1 <= Len(text) /\ SubSeq(text, i, i + Len(delimiter) - 1) = delimiter
  BY DEF Found, OccursIn
<1>4. SubSeq(text, pos, i - 1) \in Seq(Chars) /\ Len(SubSeq(text, pos, i - 1)) = i - pos
  BY <1>1, <1>2, PartType
<1> QED
  BY <1>1, <1>2, <1>3, <1>4

\* What follows the last occurrence.
LEMMA RestType ==
  ASSUME TypeOK, call # "join"
  PROVE  Rest \in Seq(Chars)
<1>1. pos \in 1..Len(text) + 1 /\ text \in Seq(Chars) /\ Len(text) \in Nat
  BY LenProperties DEF TypeOK
<1> QED
  BY <1>1, PartType DEF Rest

LEMMA NextType == TypeOK /\ IdleOK /\ [Next]_vars => TypeOK' /\ IdleOK'
<1> SUFFICES ASSUME TypeOK, IdleOK, [Next]_vars PROVE TypeOK' /\ IdleOK'
  OBVIOUS
<1>a. /\ << >> \in Seq(Chars) /\ << >> \in Seq(Seq(Chars))
      /\ text \in Seq(Chars) /\ list \in Seq(Seq(Chars)) /\ new \in Seq(Chars) /\ s \in Seq(Chars)
      /\ pieces \in Seq(Seq(Chars))
      /\ Len(text) \in Nat /\ Len(list) \in Nat /\ Len(s) \in Nat
  BY EmptySeq, LenProperties DEF TypeOK
<1>b. delimiter \in Seq(Chars) /\ Len(delimiter) \in Nat
  BY DelimiterType, LenProperties
<1>c. Delimiters \subseteq Seq(Chars) /\ News \subseteq Seq(Chars)
  BY CharsAssumption
<1>1. CASE \E p \in {"all", "nonempty"} : Split(p)
  BY <1>1, <1>a DEF Split, Call, program, loop, TypeOK, IdleOK
<1>2. CASE SplitNothing
  <2>1. <<text>> \in Seq(Seq(Chars))
    BY <1>a
  <2> QED
    BY <1>2, <2>1, <1>a, ReturnType DEF SplitNothing
<1>3. CASE SplitPiece
  <2>1. PICK i \in pos..Len(text) :
          Found(i) /\ pieces' = Append(pieces, SubSeq(text, pos, i - 1)) /\ pos' = i + Len(delimiter)
    BY <1>3 DEF SplitPiece
  <2>2. call = "split" /\ delimiter # << >> /\ UNCHANGED <<program, delimiter, call, pred, new, s>>
    BY <1>3 DEF SplitPiece
  <2>a. /\ i + Len(delimiter) - 1 <= Len(text) /\ pos \in Nat \ {0}
        /\ SubSeq(text, pos, i - 1) \in Seq(Chars)
    BY <2>1, <2>2, OccursType
  <2>3. pieces' \in Seq(Seq(Chars)) /\ pos' \in 1..Len(text) + 1
    BY <2>1, <2>a, <1>a, <1>b, AppendProperties
  <2> QED
    BY <2>2, <2>3 DEF TypeOK, IdleOK, program
<1>4. CASE SplitRest
  <2>1. Append(pieces, Rest) \in Seq(Seq(Chars))
    BY <1>4, <1>a, RestType, AppendProperties DEF SplitRest
  <2> QED
    BY <1>4, <2>1, <1>a, ReturnType DEF SplitRest
<1>5. CASE Join
  BY <1>5, <1>a DEF Join, Call, program, loop, TypeOK, IdleOK
<1>6. CASE JoinPiece
  <2>1. pos \in 1..Len(list) /\ call = "join"
    BY <1>6, <1>a DEF JoinPiece, TypeOK
  <2>2. list[pos] \in Seq(Chars)
    BY <2>1, <1>a, ElementOfSeq
  <2>3. s' \in Seq(Chars)
    BY <1>6, <2>2, <1>a, <1>b, ConcatProperties DEF JoinPiece
  <2>4. pos' \in 1..Len(list) + 1
    BY <1>6, <2>1, <1>a DEF JoinPiece
  <2> QED
    BY <1>6, <2>3, <2>4 DEF JoinPiece, TypeOK, IdleOK, program
<1>7. CASE JoinEnds
  <2>1. s # << >> => SubSeq(s, 1, Len(s) - Len(delimiter)) \in Seq(Chars)
    BY <1>a, <1>b, PartType
  <2> QED
    BY <1>7, <2>1, <1>a, ReturnType DEF JoinEnds
<1>8. CASE \E n \in News : Replace(n)
  BY <1>8, <1>a, <1>c DEF Replace, Call, program, loop, TypeOK, IdleOK
<1>9. CASE ReplaceNothing
  BY <1>9, <1>a, ReturnType DEF ReplaceNothing
<1>10. CASE ReplaceFound
  <2>1. PICK i \in pos..Len(text) :
          Found(i) /\ s' = s \o SubSeq(text, pos, i - 1) \o new /\ pos' = i + Len(delimiter)
    BY <1>10 DEF ReplaceFound
  <2>2. call = "replace" /\ UNCHANGED <<program, delimiter, call, pred, new, pieces>>
    BY <1>10 DEF ReplaceFound
  <2>a. /\ i + Len(delimiter) - 1 <= Len(text) /\ pos \in Nat \ {0}
        /\ SubSeq(text, pos, i - 1) \in Seq(Chars)
    BY <2>1, <2>2, OccursType
  <2>b. s \o SubSeq(text, pos, i - 1) \in Seq(Chars)
    BY <2>a, <1>a, ConcatProperties
  <2>3. s' \in Seq(Chars) /\ pos' \in 1..Len(text) + 1
    BY <2>1, <2>a, <2>b, <1>a, <1>b, ConcatProperties
  <2> QED
    BY <2>2, <2>3 DEF TypeOK, IdleOK, program
<1>11. CASE ReplaceRest
  <2>1. s \o Rest \in Seq(Chars)
    BY <1>11, <1>a, RestType, ConcatProperties DEF ReplaceRest
  <2> QED
    BY <1>11, <2>1, <1>a, ReturnType DEF ReplaceRest
<1>12. CASE Trim
  BY <1>12, <1>a, TrimType, ReturnType DEF Trim, TypeOK
<1>13. CASE UNCHANGED vars
  BY <1>13 DEF vars, program, loop, TypeOK, IdleOK
<1> QED
  BY <1>1, <1>2, <1>3, <1>4, <1>5, <1>6, <1>7, <1>8, <1>9, <1>10, <1>11, <1>12, <1>13 DEF Next

-----------------------------------------------------------------------------
(* Slices. *)

\* A text and its continuation have the same parts.
LEMMA SamePart ==
  ASSUME NEW u \in Seq(Chars), NEW v \in Seq(Chars), Len(u) <= Len(v),
         \A x \in 1..Len(u) : u[x] = v[x],
         NEW i \in Int, NEW j \in Int, 1 <= i, j <= Len(u)
  PROVE  SubSeq(u, i, j) = SubSeq(v, i, j)
<1>1. Len(u) \in Nat /\ Len(v) \in Nat
  BY LenProperties
<1>2. /\ SubSeq(u, i, j) \in Seq(Chars) /\ SubSeq(v, i, j) \in Seq(Chars)
      /\ Len(SubSeq(u, i, j)) = Len(SubSeq(v, i, j))
      /\ Len(SubSeq(u, i, j)) = IF i <= j THEN j - i + 1 ELSE 0
  BY <1>1, PartType
<1>3. /\ \A k \in i..j : u[k] \in Chars
      /\ \A k \in i..j : v[k] \in Chars
  BY <1>1, ElementOfSeq
<1>4. \A k \in 1..j - i + 1 : SubSeq(u, i, j)[k] = u[i + k - 1] /\ SubSeq(v, i, j)[k] = v[i + k - 1]
  BY <1>3, SubSeqProperties
<1>5. \A k \in 1..Len(SubSeq(u, i, j)) : SubSeq(u, i, j)[k] = SubSeq(v, i, j)[k]
  <2> TAKE k \in 1..Len(SubSeq(u, i, j))
  <2>1. k \in 1..j - i + 1 /\ i + k - 1 \in 1..Len(u)
    BY <1>1, <1>2
  <2>2. u[i + k - 1] = v[i + k - 1]
    BY <2>1
  <2> QED
    BY <2>1, <2>2, <1>4
<1> QED
  BY <1>2, <1>5, SeqEqual

\* Nothing is no slice.
LEMMA NoSlice ==
  ASSUME NEW u \in Seq(Chars)
  PROVE  \E c : Slices(c, u, << >>, 1)
<1> DEFINE c == [i \in 1..1 |-> 1]
<1>1. Len(u) \in Nat /\ Len(<< >>) = 0
  BY LenProperties, EmptySeq
<1>2. Slices(c, u, << >>, 1)
  BY <1>1 DEF Slices
<1> QED
  BY <1>2

\* Behind the slices c of u, which v continues, there is one more: that of w.
OneMore(u, v, l, c, e, w, f) ==
  /\ u \in Seq(Chars) /\ v \in Seq(Chars) /\ Len(u) <= Len(v)
  /\ \A x \in 1..Len(u) : u[x] = v[x]
  /\ l \in Seq(Seq(Chars)) /\ w \in Seq(Chars)
  /\ e \in 1..Len(u) + 1 /\ Slices(c, u, l, e)
  /\ f \in e..Len(v) + 1 /\ SubSeq(v, e, f - 1) = w \o delimiter

LEMMA OneMoreSlice ==
  ASSUME NEW u, NEW v, NEW l, NEW c, NEW e, NEW w, NEW f, OneMore(u, v, l, c, e, w, f)
  PROVE  \E b : Slices(b, v, Append(l, w), f)
<1>0. /\ u \in Seq(Chars) /\ v \in Seq(Chars) /\ Len(u) <= Len(v)
      /\ \A x \in 1..Len(u) : u[x] = v[x]
      /\ l \in Seq(Seq(Chars)) /\ w \in Seq(Chars)
      /\ e \in 1..Len(u) + 1 /\ Slices(c, u, l, e)
      /\ f \in e..Len(v) + 1 /\ SubSeq(v, e, f - 1) = w \o delimiter
  BY DEF OneMore
<1> DEFINE b == [i \in 1..Len(l) + 2 |-> IF i = Len(l) + 2 THEN f ELSE c[i]]
<1>1. Len(u) \in Nat /\ Len(v) \in Nat /\ Len(l) \in Nat
  BY <1>0, LenProperties
<1>2. /\ Len(Append(l, w)) = Len(l) + 1
      /\ \A i \in 1..Len(l) : Append(l, w)[i] = l[i]
      /\ Append(l, w)[Len(l) + 1] = w
  BY <1>0, AppendProperties
<1>3. /\ c \in [1..Len(l) + 1 -> 1..Len(u) + 1] /\ c[1] = 1 /\ c[Len(l) + 1] = e
      /\ \A i \in 1..Len(l) : c[i] <= c[i + 1] /\ SubSeq(u, c[i], c[i + 1] - 1) = l[i] \o delimiter
  BY <1>0 DEF Slices
<1>4. b \in [1..Len(Append(l, w)) + 1 -> 1..Len(v) + 1]
  BY <1>0, <1>1, <1>2, <1>3
<1>5. b[1] = 1 /\ b[Len(Append(l, w)) + 1] = f
  BY <1>0, <1>1, <1>2, <1>3
<1>6. ASSUME NEW i \in 1..Len(Append(l, w))
      PROVE  b[i] <= b[i + 1] /\ SubSeq(v, b[i], b[i + 1] - 1) = Append(l, w)[i] \o delimiter
  <2>0. /\ \A k \in 1..Len(l) + 1 : b[k] = c[k]
        /\ b[Len(l) + 2] = f /\ c[Len(l) + 1] = e /\ i \in 1..Len(l) + 1
    BY <1>0, <1>1, <1>2, <1>3
  <2> HIDE DEF b
  <2>1. CASE i \in 1..Len(l)
    <3>a. i \in 1..Len(l) + 1 /\ i + 1 \in 1..Len(l) + 1
      BY <1>0, <2>1, <1>1
    <3>1. b[i] = c[i] /\ b[i + 1] = c[i + 1] /\ c[i] \in 1..Len(u) + 1 /\ c[i + 1] \in 1..Len(u) + 1
      BY <1>0, <3>a, <2>0, <1>3
    <3>2. SubSeq(v, c[i], c[i + 1] - 1) = SubSeq(u, c[i], c[i + 1] - 1)
      <4>a. Len(u) \in Nat
        BY <1>1
      <4>b. c[i] \in 1..Len(u) + 1 /\ c[i + 1] \in 1..Len(u) + 1
        BY <3>1
      <4>1. c[i] \in Int /\ c[i + 1] - 1 \in Int /\ 1 <= c[i] /\ c[i + 1] - 1 <= Len(u)
        BY <4>a, <4>b
      <4> QED
        BY <1>0, <4>1, SamePart
    <3> QED
      BY <1>0, <2>1, <3>1, <3>2, <1>2, <1>3
  <2>2. CASE i = Len(l) + 1
    <3>1. b[i] = e /\ b[i + 1] = f /\ e <= f
      <4>1. i \in 1..Len(l) + 1 /\ i + 1 = Len(l) + 2
        BY <1>0, <2>2, <1>1
      <4>2. b[i + 1] = f
        BY <1>0, <4>1, <2>0
      <4>3. b[i] = c[i] /\ c[i] = e
        BY <1>0, <4>1, <2>2, <2>0
      <4> QED
        BY <1>0, <4>2, <4>3, <1>1
    <3> QED
      BY <1>0, <2>2, <3>1, <1>2
  <2>3. i \in 1..Len(l) \/ i = Len(l) + 1
    BY <1>0, <1>1, <1>2
  <2> QED
    BY <2>1, <2>2, <2>3, Zenon
<1>7. Slices(b, v, Append(l, w), f)
  BY <1>0, <1>4, <1>5, <1>6 DEF Slices
<1> QED
  BY <1>0, <1>7

\* A part that a text is continued with.
LEMMA Continued ==
  ASSUME NEW u \in Seq(Chars), NEW w \in Seq(Chars)
  PROVE  /\ u \o w \in Seq(Chars) /\ Len(u \o w) = Len(u) + Len(w)
         /\ Len(u) \in Nat /\ Len(w) \in Nat
         /\ \A x \in 1..Len(u) : u[x] = (u \o w)[x]
         /\ SubSeq(u \o w, Len(u) + 1, Len(u) + Len(w)) = w
         /\ SubSeq(u \o w, 1, Len(u)) = u
<1>1. /\ u \o w \in Seq(Chars) /\ Len(u \o w) = Len(u) + Len(w)
      /\ Len(u) \in Nat /\ Len(w) \in Nat
  BY ConcatProperties, LenProperties
<1>2. \A x \in 1..Len(u) + Len(w) : (u \o w)[x] = IF x <= Len(u) THEN u[x] ELSE w[x - Len(u)]
  BY ConcatProperties
<1>3. \A x \in 1..Len(u) : u[x] = (u \o w)[x]
  BY <1>1, <1>2
<1>4. SubSeq(u \o w, Len(u) + 1, Len(u) + Len(w)) = w
  <2> DEFINE z == SubSeq(u \o w, Len(u) + 1, Len(u) + Len(w))
  <2>1. z \in Seq(Chars) /\ Len(z) = Len(w)
    BY <1>1, PartType
  <2>2. \A k \in Len(u) + 1..Len(u) + Len(w) : (u \o w)[k] \in Chars
    BY <1>1, ElementOfSeq
  <2>3. \A k \in 1..Len(u) + Len(w) - (Len(u) + 1) + 1 : z[k] = (u \o w)[Len(u) + 1 + k - 1]
    BY <1>1, <2>2, SubSeqProperties
  <2>4. \A k \in 1..Len(z) : z[k] = w[k]
    BY <1>1, <1>2, <2>1, <2>3
  <2> QED
    BY <2>1, <2>4, SeqEqual
<1>5. SubSeq(u \o w, 1, Len(u)) = u
  BY <1>1, <1>3, SamePart, SubSeqFull
<1> QED
  BY <1>1, <1>3, <1>4, <1>5

-----------------------------------------------------------------------------
(* The loops of split and join. *)

LEMMA EndedType ==
  ASSUME TypeOK, NEW t \in Seq(Chars)
  PROVE  /\ Ended(t) \in Seq(Chars) /\ Len(Ended(t)) = Len(t) + Len(delimiter)
         /\ Len(t) \in Nat /\ Len(delimiter) \in Nat
         /\ \A x \in 1..Len(t) : t[x] = Ended(t)[x]
         /\ SubSeq(Ended(t), 1, Len(t)) = t
         /\ SubSeq(Ended(t), Len(t) + 1, Len(t) + Len(delimiter)) = delimiter
BY DelimiterType, Continued DEF Ended

\* What is split is cut at the occurrences.
LEMMA PieceSliced ==
  ASSUME TypeOK, SplitSoFar, SplitPiece
  PROVE  SplitSoFar'
<1>1. PICK i \in pos..Len(text) :
        Found(i) /\ pieces' = Append(pieces, SubSeq(text, pos, i - 1)) /\ pos' = i + Len(delimiter)
  BY DEF SplitPiece
<1>2. call = "split" /\ text' = text /\ delimiter' = delimiter
  BY DEF SplitPiece, program
<1>3. /\ Len(delimiter) \in Nat /\ Len(text) \in Nat /\ pos \in Nat \ {0}
      /\ i + Len(delimiter) - 1 <= Len(text)
      /\ SubSeq(text, pos, i - 1) \in Seq(Chars)
      /\ SubSeq(text, i, i + Len(delimiter) - 1) = delimiter
  BY <1>1, <1>2, OccursType
<1>4. PICK c : Slices(c, text, pieces, pos)
  BY <1>2 DEF SplitSoFar
<1>5. text \in Seq(Chars) /\ pieces \in Seq(Seq(Chars)) /\ pos \in 1..Len(text) + 1
  BY <1>2 DEF TypeOK
<1>6. SubSeq(text, pos, i + Len(delimiter) - 1) = SubSeq(text, pos, i - 1) \o delimiter
  <2>1. /\ pos \in 1..Len(text) + 1 /\ i - 1 \in pos - 1..Len(text)
        /\ i + Len(delimiter) - 1 \in i - 1..Len(text)
    BY <1>3, <1>5
  <2>2. SubSeq(text, pos, i - 1) \o SubSeq(text, i - 1 + 1, i + Len(delimiter) - 1)
          = SubSeq(text, pos, i + Len(delimiter) - 1)
    BY <2>1, <1>5, ConcatAdjacentSubSeq
  <2>3. i - 1 + 1 = i
    BY <1>3
  <2> QED
    BY <2>2, <2>3, <1>3
<1>7. i + Len(delimiter) \in pos..Len(text) + 1
  BY <1>3
<1>8. \E b : Slices(b, text, pieces', pos')
  <2>1. OneMore(text, text, pieces, c, pos, SubSeq(text, pos, i - 1), i + Len(delimiter))
    BY <1>3, <1>4, <1>5, <1>6, <1>7 DEF OneMore
  <2> QED
    BY <2>1, <1>1, OneMoreSlice
<1> QED
  BY <1>2, <1>8 DEF SplitSoFar, Slices

\* What follows the last occurrence is the last slice of the text with its end.
LEMMA RestSliced ==
  ASSUME TypeOK, SplitSoFar, call = "split"
  PROVE  Agree(text, Append(pieces, Rest))
<1>1. text \in Seq(Chars) /\ pieces \in Seq(Seq(Chars)) /\ pos \in 1..Len(text) + 1
  BY DEF TypeOK
<1>2. PICK c : Slices(c, text, pieces, pos)
  BY DEF SplitSoFar
<1>3. /\ Ended(text) \in Seq(Chars) /\ Len(Ended(text)) = Len(text) + Len(delimiter)
      /\ Len(text) \in Nat /\ Len(delimiter) \in Nat
      /\ \A x \in 1..Len(text) : text[x] = Ended(text)[x]
      /\ SubSeq(Ended(text), Len(text) + 1, Len(text) + Len(delimiter)) = delimiter
  BY <1>1, EndedType
<1>4. Rest \in Seq(Chars)
  BY RestType
<1>5. SubSeq(Ended(text), pos, (Len(Ended(text)) + 1) - 1) = Rest \o delimiter
  <2>1. /\ pos \in 1..Len(Ended(text)) + 1 /\ Len(text) \in pos - 1..Len(Ended(text))
        /\ Len(Ended(text)) \in Len(text)..Len(Ended(text))
    BY <1>1, <1>3
  <2>2. SubSeq(Ended(text), pos, Len(text)) \o SubSeq(Ended(text), Len(text) + 1, Len(Ended(text)))
          = SubSeq(Ended(text), pos, Len(Ended(text)))
    BY <2>1, <1>3, ConcatAdjacentSubSeq
  <2>3. pos \in Int /\ Len(text) \in Int /\ 1 <= pos /\ Len(text) <= Len(text)
        /\ Len(text) <= Len(Ended(text))
    BY <1>1, <1>3
  <2>4. SubSeq(text, pos, Len(text)) = SubSeq(Ended(text), pos, Len(text))
    BY <2>3, <1>1, <1>3, SamePart
  <2>5. (Len(Ended(text)) + 1) - 1 = Len(Ended(text))
    BY <1>3
  <2> QED
    BY <2>2, <2>4, <2>5, <1>3 DEF Rest
<1>6. Len(Ended(text)) + 1 \in pos..Len(Ended(text)) + 1 /\ Len(text) <= Len(Ended(text))
  BY <1>1, <1>3
<1>7. \E b : Slices(b, Ended(text), Append(pieces, Rest), Len(Ended(text)) + 1)
  <2>1. OneMore(text, Ended(text), pieces, c, pos, Rest, Len(Ended(text)) + 1)
    BY <1>1, <1>2, <1>3, <1>4, <1>5, <1>6 DEF OneMore
  <2> QED
    BY <2>1, OneMoreSlice
<1>8. Append(pieces, Rest) # << >>
  BY <1>1, <1>4, AppendProperties
<1> QED
  BY <1>7, <1>8 DEF Agree

\* A text that nothing is cut from is one slice.
LEMMA WholeSliced ==
  ASSUME TypeOK, delimiter = << >>
  PROVE  Agree(text, <<text>>)
<1>1. text \in Seq(Chars) /\ << >> \in Seq(Seq(Chars)) /\ Append(<< >>, text) = <<text>>
  BY EmptySeq DEF TypeOK
<1>2. PICK c : Slices(c, text, << >>, 1)
  BY <1>1, NoSlice
<1>3. Ended(text) = text /\ Len(text) \in Nat /\ text \o delimiter = text
  BY <1>1, ConcatEmptySeq, LenProperties DEF Ended
<1>4. SubSeq(text, 1, (Len(text) + 1) - 1) = text \o delimiter
  <2>1. (Len(text) + 1) - 1 = Len(text)
    BY <1>3
  <2> QED
    BY <2>1, <1>1, <1>3, SubSeqFull
<1>5. 1 \in 1..Len(text) + 1 /\ Len(text) + 1 \in 1..Len(text) + 1 /\ Len(text) <= Len(text)
  BY <1>3
<1>6. \E b : Slices(b, text, Append(<< >>, text), Len(text) + 1)
  <2>1. OneMore(text, text, << >>, c, 1, text, Len(text) + 1)
    BY <1>1, <1>2, <1>4, <1>5 DEF OneMore
  <2> QED
    BY <2>1, OneMoreSlice
<1> QED
  BY <1>1, <1>3, <1>6 DEF Agree

\* join goes on by one slice.
LEMMA PieceJoined ==
  ASSUME TypeOK, JoinSoFar, JoinPiece
  PROVE  JoinSoFar'
<1>1. /\ call = "join" /\ pos \in 1..Len(list) /\ Len(list) \in Nat
      /\ s' = s \o list[pos] \o delimiter /\ pos' = pos + 1
      /\ UNCHANGED <<text, list, agree, delimiter, call>>
  BY LenProperties DEF JoinPiece, TypeOK, program
<1>2. /\ text \in Seq(Chars) /\ list \in Seq(Seq(Chars)) /\ s \in Seq(Chars) /\ Len(s) \in Nat
      /\ list[pos] \in Seq(Chars) /\ delimiter \in Seq(Chars)
  BY <1>1, ElementOfSeq, LenProperties, DelimiterType DEF TypeOK
<1> DEFINE w == list[pos] \o delimiter
<1>3. w \in Seq(Chars) /\ s' = s \o w /\ s \o list[pos] \in Seq(Chars)
  <2>1. w \in Seq(Chars) /\ s \o list[pos] \in Seq(Chars)
    BY <1>2, ConcatProperties
  <2>2. (s \o list[pos]) \o delimiter = s \o (list[pos] \o delimiter)
    <3>1. \A x, y, z \in Seq(Chars) : (x \o y) \o z = x \o (y \o z)
      BY ConcatAssociative
    <3> QED
      BY <3>1, <1>2, Zenon
  <2> QED
    BY <2>1, <2>2, <1>1
<1>4. /\ s' \in Seq(Chars) /\ Len(s') = Len(s) + Len(w) /\ Len(w) \in Nat
      /\ \A x \in 1..Len(s) : s[x] = s'[x]
      /\ SubSeq(s', Len(s) + 1, Len(s) + Len(w)) = w
  <2> HIDE DEF w
  <2> QED
    BY <1>2, <1>3, Continued
<1>5. /\ SubSeq(list, 1, pos - 1) \in Seq(Seq(Chars))
      /\ SubSeq(list, 1, pos' - 1) = Append(SubSeq(list, 1, pos - 1), list[pos])
  <2>1. pos - 1 \in Int /\ pos - 1 <= Len(list) /\ pos \in 1..Len(list) /\ 1 \in 1..Len(list)
    BY <1>1
  <2>2. SubSeq(list, 1, pos - 1) \in Seq(Seq(Chars))
    BY <2>1, <1>2, PartType
  <2>3. SubSeq(list, 1, pos) = SubSeq(list, 1, pos - 1) \o <<list[pos]>>
    BY <2>1, <1>2, SubSeqRecursiveSecond
  <2>4. Append(SubSeq(list, 1, pos - 1), list[pos]) = SubSeq(list, 1, pos - 1) \o <<list[pos]>>
    BY <2>2, <1>2, AppendIsConcat
  <2>5. pos' - 1 = pos
    BY <1>1
  <2> QED
    BY <2>2, <2>3, <2>4, <2>5
<1>6. \E b : Slices(b, s', SubSeq(list, 1, pos' - 1), Len(s') + 1)
  <2>1. PICK c : Slices(c, s, SubSeq(list, 1, pos - 1), Len(s) + 1)
    BY <1>1 DEF JoinSoFar
  <2>2. /\ Len(s) + 1 \in 1..Len(s) + 1 /\ Len(s') + 1 \in Len(s) + 1..Len(s') + 1
        /\ Len(s) <= Len(s') /\ (Len(s') + 1) - 1 = Len(s) + Len(w)
    BY <1>2, <1>4
  <2>3. SubSeq(s', Len(s) + 1, (Len(s') + 1) - 1) = list[pos] \o delimiter
    BY <2>2, <1>4
  <2> HIDE DEF w
  <2>4. OneMore(s, s', SubSeq(list, 1, pos - 1), c, Len(s) + 1, list[pos], Len(s') + 1)
    BY <2>1, <2>2, <2>3, <1>2, <1>4, <1>5 DEF OneMore
  <2> QED
    BY <2>4, <1>5, OneMoreSlice
<1>7. \E t \in Seq(Chars) : s' = Ended(t)
  BY <1>1, <1>3 DEF Ended
<1>8. ASSUME agree # "no", NEW c, Slices(c, Ended(text), list, Len(Ended(text)) + 1)
      PROVE  s' = SubSeq(Ended(text), 1, c[pos'] - 1)
  <2>1. s = SubSeq(Ended(text), 1, c[pos] - 1)
    BY <1>1, <1>8 DEF JoinSoFar
  <2>2. SubSeq(Ended(text), c[pos], c[pos + 1] - 1) = w /\ c[pos] <= c[pos + 1]
    BY <1>1, <1>8 DEF Slices
  <2>3. pos \in 1..Len(list) + 1 /\ pos + 1 \in 1..Len(list) + 1
    BY <1>1
  <2>4. /\ c[pos] \in 1..Len(Ended(text)) + 1 /\ c[pos + 1] \in 1..Len(Ended(text)) + 1
        /\ Ended(text) \in Seq(Chars) /\ Len(Ended(text)) \in Nat
    BY <2>3, <1>2, <1>8, EndedType, LenProperties DEF Slices
  <2>5. /\ 1 \in 1..Len(Ended(text)) + 1 /\ c[pos] - 1 \in 1 - 1..Len(Ended(text))
        /\ c[pos + 1] - 1 \in c[pos] - 1..Len(Ended(text)) /\ c[pos] - 1 + 1 = c[pos]
    BY <2>2, <2>4
  <2>6. SubSeq(Ended(text), 1, c[pos] - 1) \o SubSeq(Ended(text), c[pos] - 1 + 1, c[pos + 1] - 1)
          = SubSeq(Ended(text), 1, c[pos + 1] - 1)
    BY <2>4, <2>5, ConcatAdjacentSubSeq
  <2> QED
    BY <2>1, <2>2, <2>5, <2>6, <1>1, <1>3
<1> QED
  BY <1>1, <1>6, <1>7, <1>8 DEF JoinSoFar, Slices, Ended

\* What join returns agrees with the list; it is the text that agreed before.
LEMMA JoinReturns ==
  ASSUME TypeOK, JoinSoFar, AgreeOK, JoinEnds
  PROVE  /\ Agree(text', list)
         /\ agree # "no" => text' = text
<1>1. /\ call = "join" /\ pos = Len(list) + 1 /\ Len(list) \in Nat
      /\ text' = IF list # << >> /\ s # << >> THEN SubSeq(s, 1, Len(s) - Len(delimiter)) ELSE s
  BY LenProperties DEF JoinEnds, Return, TypeOK
<1>2. /\ text \in Seq(Chars) /\ list \in Seq(Seq(Chars)) /\ s \in Seq(Chars) /\ Len(s) \in Nat
      /\ delimiter \in Seq(Chars)
  BY LenProperties, DelimiterType DEF TypeOK
<1>3. pos - 1 = Len(list) /\ SubSeq(list, 1, pos - 1) = list
  <2>1. pos - 1 = Len(list)
    BY <1>1
  <2> QED
    BY <2>1, <1>2, SubSeqFull
<1>4. PICK c : Slices(c, s, list, Len(s) + 1)
  BY <1>1, <1>3 DEF JoinSoFar
<1>5. CASE list = << >>
  <2>1. Len(list) = 0
    BY <1>5, EmptySeq
  <2>2. s = << >>
    <3>1. c[1] = 1 /\ c[Len(list) + 1] = Len(s) + 1
      BY <1>4 DEF Slices
    <3>2. Len(s) = 0
      BY <3>1, <2>1, <1>2
    <3> QED
      BY <3>2, <1>2, EmptySeq
  <2> QED
    BY <2>2, <1>1, <1>5 DEF Agree, AgreeOK
<1>6. CASE list # << >>
  <2>1. Len(list) \in Nat \ {0} /\ pos > 1
    BY <1>6, <1>1, <1>2, EmptySeq
  <2>2. PICK t \in Seq(Chars) : s = Ended(t)
    BY <2>1, <1>1 DEF JoinSoFar
  <2>3. Ended(text') = s
    <3>1. CASE s = << >>
      <4>1. delimiter = << >>
        <5>1. t \o delimiter = << >>
          BY <3>1, <2>2 DEF Ended
        <5> QED
          BY <5>1, <1>2, ConcatEqualIffEmpty
      <4>2. text' = << >> /\ << >> \o << >> = << >>
        BY <3>1, <1>1
      <4> QED
        BY <3>1, <4>1, <4>2 DEF Ended
    <3>2. CASE s # << >>
      <4>1. text' = SubSeq(Ended(t), 1, Len(t))
        BY <3>2, <2>2, <1>1, <1>6, EndedType
      <4> QED
        BY <4>1, <2>2, EndedType
    <3> QED
      BY <3>1, <3>2
  <2>4. Agree(text', list)
    BY <2>3, <1>4, <1>6 DEF Agree
  <2>5. ASSUME agree # "no" PROVE text' = text
    <3>1. PICK b : Slices(b, Ended(text), list, Len(Ended(text)) + 1)
      BY <2>5, <1>6 DEF AgreeOK, Agree
    <3>2. s = SubSeq(Ended(text), 1, b[pos] - 1) /\ b[pos] = Len(Ended(text)) + 1
      BY <3>1, <2>5, <1>1 DEF JoinSoFar, Slices
    <3>3. Ended(text) \in Seq(Chars) /\ Len(Ended(text)) \in Nat
      BY <1>2, EndedType, LenProperties
    <3>4. s = Ended(text)
      <4>1. b[pos] - 1 = Len(Ended(text))
        BY <3>2, <3>3
      <4> QED
        BY <4>1, <3>2, <3>3, SubSeqFull
    <3>5. CASE s = << >>
      <4>1. text \o delimiter = << >>
        BY <3>4, <3>5 DEF Ended
      <4>2. text = << >>
        BY <4>1, <1>2, ConcatEqualIffEmpty
      <4> QED
        BY <3>5, <4>2, <1>1
    <3>6. CASE s # << >>
      <4>1. text' = SubSeq(Ended(text), 1, Len(Ended(text)) - Len(delimiter))
        BY <3>6, <3>4, <1>1, <1>6
      <4>2. Len(Ended(text)) - Len(delimiter) = Len(text)
        BY <1>2, EndedType
      <4> QED
        BY <4>1, <4>2, <1>2, EndedType
    <3> QED
      BY <3>5, <3>6
  <2> QED
    BY <2>4, <2>5
<1> QED
  BY <1>5, <1>6

-----------------------------------------------------------------------------
(* Splitting a text that was joined. *)

\* An occurrence, character by character.
LEMMA OccursAt ==
  ASSUME NEW t \in Seq(Chars), NEW d \in Seq(Chars), NEW i \in Nat \ {0},
         i + Len(d) - 1 <= Len(t)
  PROVE  OccursIn(t, d, i) <=> \A x \in 1..Len(d) : t[i + x - 1] = d[x]
<1> DEFINE z == SubSeq(t, i, i + Len(d) - 1)
<1>1. Len(t) \in Nat /\ Len(d) \in Nat
  BY LenProperties
<1>2. z \in Seq(Chars) /\ Len(z) = Len(d)
  BY <1>1, PartType
<1>3. \A k \in i..i + Len(d) - 1 : t[k] \in Chars
  BY <1>1, ElementOfSeq
<1>4. \A x \in 1..Len(d) : z[x] = t[i + x - 1]
  <2>1. \A x \in 1..(i + Len(d) - 1) - i + 1 : z[x] = t[i + x - 1]
    BY <1>1, <1>3, SubSeqProperties
  <2>2. (i + Len(d) - 1) - i + 1 = Len(d)
    BY <1>1
  <2> QED
    BY <2>1, <2>2
<1> HIDE DEF z
<1>5. z = d <=> \A x \in 1..Len(d) : t[i + x - 1] = d[x]
  <2>1. ASSUME z = d PROVE \A x \in 1..Len(d) : t[i + x - 1] = d[x]
    BY <2>1, <1>4
  <2>2. ASSUME \A x \in 1..Len(d) : t[i + x - 1] = d[x] PROVE z = d
    <3>1. \A x \in 1..Len(z) : z[x] = d[x]
      BY <2>2, <1>2, <1>4
    <3> QED
      BY <3>1, <1>2, SeqEqual
  <2> QED
    BY <2>1, <2>2
<1> QED
  BY <1>5 DEF z, OccursIn

\* Where a member and the delimiter behind it are in the text with its end.
Sliced(c, k, q) ==
  /\ list[k] \in Seq(Chars) /\ Len(list[k]) \in Nat /\ Len(list) \in Nat
  /\ Len(delimiter) \in Nat /\ Len(text) \in Nat
  /\ c[k] \in Nat \ {0} /\ q \in Nat \ {0} /\ c[k + 1] = q + Len(delimiter)
  /\ k < Len(list) => q + Len(delimiter) <= Len(text) + 1
  /\ k = Len(list) => q = Len(text) + 1
  /\ SubSeq(text, c[k], q - 1) = list[k]
  /\ \A x \in 1..Len(list[k]) : text[c[k] + x - 1] = list[k][x]
  /\ \A x \in 1..Len(delimiter) : Ended(text)[q + x - 1] = delimiter[x]
  /\ \A x \in 1..Len(text) : text[x] = Ended(text)[x]

\* Two facts of arithmetic, in variables for the provers' sake.
LEMMA Difference ==
  ASSUME NEW a \in Int, NEW b \in Int, NEW m \in Nat, NEW n \in Nat, b - a = m + n
  PROVE  b = a + m + n
OBVIOUS

LEMMA Inside ==
  ASSUME NEW a \in Nat \ {0}, NEW m \in Nat, NEW n \in Nat, NEW x \in 1..m,
         (a + m) - 1 <= n
  PROVE  a + x - 1 \in 1..n
OBVIOUS

LEMMA SliceParts ==
  ASSUME TypeOK, NEW c, Slices(c, Ended(text), list, Len(Ended(text)) + 1),
         NEW k \in 1..Len(list), NEW q, q = c[k] + Len(list[k])
  PROVE  Sliced(c, k, q)
<1> DEFINE E == Ended(text)
<1>1. /\ E \in Seq(Chars) /\ Len(E) = Len(text) + Len(delimiter)
      /\ Len(text) \in Nat /\ Len(delimiter) \in Nat /\ delimiter \in Seq(Chars)
      /\ \A x \in 1..Len(text) : text[x] = E[x]
      /\ Slices(c, E, list, Len(E) + 1)
  BY EndedType, DelimiterType DEF TypeOK
<1>a. /\ Len(text) \in Nat /\ Len(delimiter) \in Nat /\ Len(E) \in Nat
      /\ Len(E) = Len(text) + Len(delimiter)
  BY <1>1
<1>d. Len(delimiter) \in Nat
  BY <1>a
<1>e. Len(E) \in Nat
  BY <1>a
<1>t. Len(text) \in Nat
  BY <1>a
<1> HIDE DEF E
<1>2. list[k] \in Seq(Chars) /\ Len(list[k]) \in Nat /\ Len(list) \in Nat
  BY ElementOfSeq, LenProperties DEF TypeOK
<1>3. ASSUME NEW i \in 1..Len(list)
      PROVE  /\ c[i] \in 1..Len(E) + 1 /\ c[i + 1] \in 1..Len(E) + 1
             /\ list[i] \in Seq(Chars) /\ Len(list[i]) \in Nat
             /\ SubSeq(E, c[i], c[i + 1] - 1) = list[i] \o delimiter
             /\ c[i + 1] = c[i] + Len(list[i]) + Len(delimiter)
  <2>1. i \in 1..Len(list) + 1 /\ i + 1 \in 1..Len(list) + 1
    BY <1>2
  <2>2. c[i] \in 1..Len(E) + 1 /\ c[i + 1] \in 1..Len(E) + 1 /\ c[i] <= c[i + 1]
    BY <1>1, <2>1 DEF Slices
  <2>3. SubSeq(E, c[i], c[i + 1] - 1) = list[i] \o delimiter
    BY <1>1 DEF Slices
  <2>4. list[i] \in Seq(Chars) /\ Len(list[i]) \in Nat
    BY ElementOfSeq, LenProperties DEF TypeOK
  <2>5. Len(list[i] \o delimiter) = Len(list[i]) + Len(delimiter)
    BY <2>4, <1>1, Continued
  <2>6. Len(SubSeq(E, c[i], c[i + 1] - 1)) = c[i + 1] - c[i]
    <3>1. c[i] \in Int /\ c[i + 1] - 1 \in Int /\ 1 <= c[i] /\ c[i + 1] - 1 <= Len(E)
      BY <2>2, <1>1
    <3>2. Len(SubSeq(E, c[i], c[i + 1] - 1))
            = IF c[i] <= c[i + 1] - 1 THEN (c[i + 1] - 1) - c[i] + 1 ELSE 0
      BY <3>1, <1>1, PartType
    <3>3. c[i] \in Int /\ c[i + 1] \in Int /\ c[i] <= c[i + 1]
      BY <2>2, <1>1
    <3>4. CASE c[i] <= c[i + 1] - 1
      <4>1. Len(SubSeq(E, c[i], c[i + 1] - 1)) = (c[i + 1] - 1) - c[i] + 1
        BY <3>2, <3>4, Zenon
      <4>2. (c[i + 1] - 1) - c[i] + 1 = c[i + 1] - c[i]
        BY <3>3
      <4> QED
        BY <4>1, <4>2, Zenon
    <3>5. CASE ~(c[i] <= c[i + 1] - 1)
      <4>1. Len(SubSeq(E, c[i], c[i + 1] - 1)) = 0
        BY <3>2, <3>5, Zenon
      <4>2. 0 = c[i + 1] - c[i]
        BY <3>3, <3>5
      <4> QED
        BY <4>1, <4>2, Zenon
    <3> QED
      BY <3>4, <3>5, Zenon
  <2>7. c[i + 1] - c[i] = Len(list[i]) + Len(delimiter)
    BY <2>3, <2>5, <2>6
  <2>8. c[i] \in Int /\ c[i + 1] \in Int
    BY <2>2, <1>1
  <2>9. c[i + 1] = c[i] + Len(list[i]) + Len(delimiter)
    BY <2>4, <2>7, <2>8, <1>d, Difference
  <2> QED
    BY <2>2, <2>3, <2>4, <2>9
<1>4. /\ c[k] \in Nat \ {0} /\ q \in Nat \ {0} /\ c[k + 1] = q + Len(delimiter)
      /\ c[k + 1] <= Len(E) + 1
  <2>1. /\ c[k] \in 1..Len(E) + 1 /\ c[k + 1] \in 1..Len(E) + 1
        /\ c[k + 1] = c[k] + Len(list[k]) + Len(delimiter)
    BY <1>3
  <2>2. c[k] \in Nat \ {0} 
    BY <2>1, <1>1
  <2>3. q \in Nat \ {0} 
    BY <2>2, <1>2
  <2>4. c[k + 1] = q + Len(delimiter)
    BY <2>1, <2>2, <1>1, <1>2
  <2>5. c[k + 1] <= Len(E) + 1
    BY <2>1, <1>1
  <2> QED
    BY <2>2, <2>3, <2>4, <2>5
<1>5. k < Len(list) => q + Len(delimiter) <= Len(text) + 1
  <2> SUFFICES ASSUME k < Len(list) PROVE q + Len(delimiter) <= Len(text) + 1
    OBVIOUS
  <2>1. k + 1 \in 1..Len(list)
    BY <1>2
  <2>2. /\ c[k + 1] \in 1..Len(E) + 1 /\ c[(k + 1) + 1] \in 1..Len(E) + 1
        /\ Len(list[k + 1]) \in Nat
        /\ c[(k + 1) + 1] = c[k + 1] + Len(list[k + 1]) + Len(delimiter)
    BY <2>1, <1>3
  <2>3. c[k + 1] \in Int /\ c[(k + 1) + 1] \in Int /\ c[(k + 1) + 1] <= Len(E) + 1
    BY <2>2, <1>1
  <2>4. c[k + 1] + Len(delimiter) <= Len(text) + Len(delimiter) + 1
    <3>1. /\ c[k + 1] \in Int /\ Len(list[k + 1]) \in Nat /\ Len(delimiter) \in Nat
          /\ c[k + 1] + Len(list[k + 1]) + Len(delimiter) <= Len(E) + 1
      BY <2>2, <2>3, <1>1
    <3>2. Len(E) = Len(text) + Len(delimiter) /\ Len(text) \in Nat
      BY <1>1
    <3> QED
      BY <3>1, <3>2
  <2>5. c[k + 1] <= Len(text) + 1
    BY <2>3, <2>4, <1>1
  <2> QED
    BY <2>5, <1>4
<1>6. k = Len(list) => q = Len(text) + 1
  <2>1. c[Len(list) + 1] = Len(E) + 1
    BY <1>1 DEF Slices
  <2> QED
    BY <2>1, <1>1, <1>4
<1>7. \A x \in 1..Len(list[k]) + Len(delimiter) : E[c[k] + x - 1] = (list[k] \o delimiter)[x]
  <2>1. c[k] \in Nat \ {0} /\ c[k + 1] \in Int /\ c[k + 1] <= Len(E) + 1
    <3>1. c[k] \in Nat \ {0} /\ q \in Nat \ {0} /\ c[k + 1] = q + Len(delimiter)
          /\ c[k + 1] <= Len(E) + 1
      BY <1>4
    <3> QED
      BY <3>1, <1>d
  <2>a. /\ c[k] \in Int /\ c[k + 1] - 1 \in Int
        /\ 1 <= c[k] /\ c[k + 1] - 1 <= Len(E)
    BY <2>1, <1>e
  <2>2. \A x \in 1..(c[k + 1] - 1) - c[k] + 1 : SubSeq(E, c[k], c[k + 1] - 1)[x] = E[c[k] + x - 1]
    BY <2>a, <1>1, PartElements
  <2>b. c[k + 1] = c[k] + Len(list[k]) + Len(delimiter)
    BY <1>3
  <2>3. (c[k + 1] - 1) - c[k] + 1 = Len(list[k]) + Len(delimiter)
    <3>1. c[k] \in Int /\ Len(list[k]) \in Nat
      BY <1>2, <2>a
    <3> QED
      BY <2>b, <3>1, <1>d
  <2> QED
    BY <2>2, <2>3, <1>3
<1>8. \A x \in 1..Len(list[k]) + Len(delimiter) :
        (list[k] \o delimiter)[x] = IF x <= Len(list[k]) THEN list[k][x] ELSE delimiter[x - Len(list[k])]
  BY <1>1, <1>2, ConcatProperties
<1>9. q - 1 <= Len(text)
  BY <1>1, <1>2, <1>4, <1>5, <1>6
<1>10. \A x \in 1..Len(list[k]) : text[c[k] + x - 1] = list[k][x]
  <2> TAKE x \in 1..Len(list[k])
  <2>a. x \in 1..Len(list[k]) + Len(delimiter) /\ x <= Len(list[k])
    BY <1>1, <1>2
  <2>b. c[k] \in Nat \ {0} /\ Len(list[k]) \in Nat
    BY <1>2, <1>4
  <2>c. (c[k] + Len(list[k])) - 1 <= Len(text)
    <3>1. c[k] + Len(list[k]) = q
      OBVIOUS
    <3> HIDE DEF E
    <3> QED
      BY <3>1, <1>9
  <2>d. c[k] + x - 1 \in 1..Len(text)
    BY <2>b, <2>c, <1>t, Inside
  <2>1. x \in 1..Len(list[k]) + Len(delimiter) /\ c[k] + x - 1 \in 1..Len(text) /\ x <= Len(list[k])
    BY <2>a, <2>d
  <2>2. text[c[k] + x - 1] = E[c[k] + x - 1]
    BY <2>1, <1>1
  <2> QED
    BY <2>1, <2>2, <1>7, <1>8
<1>11. \A x \in 1..Len(delimiter) : E[q + x - 1] = delimiter[x]
  <2> TAKE x \in 1..Len(delimiter)
  <2>1. /\ Len(list[k]) + x \in 1..Len(list[k]) + Len(delimiter) /\ ~(Len(list[k]) + x <= Len(list[k]))
        /\ (Len(list[k]) + x) - Len(list[k]) = x
    BY <1>1, <1>2
  <2>2. c[k] + (Len(list[k]) + x) - 1 = q + x - 1
    <3> DEFINE p == c[k]
               m == Len(list[k])
    <3>1. p \in Int /\ m \in Int /\ q = p + m /\ x \in Int
      BY <1>2, <1>4
    <3> HIDE DEF p, m
    <3>2. p + (m + x) - 1 = q + x - 1
      BY <3>1
    <3> QED
      BY <3>2 DEF p, m
  <2>3. E[c[k] + (Len(list[k]) + x) - 1] = delimiter[x]
    BY <2>1, <1>7, <1>8
  <2> QED
    BY <2>2, <2>3
<1>12. SubSeq(text, c[k], q - 1) = list[k]
  <2> DEFINE z == SubSeq(text, c[k], q - 1)
  <2>1. z \in Seq(Chars) /\ Len(z) = Len(list[k])
    <3>1. text \in Seq(Chars) /\ c[k] \in Int /\ q - 1 \in Int /\ 1 <= c[k] /\ q - 1 <= Len(text)
      <4>1. text \in Seq(Chars)
        BY DEF TypeOK
      <4>2. c[k] \in Int /\ 1 <= c[k]
        BY <1>4
      <4>3. q - 1 \in Int
        BY <1>4
      <4> QED
        BY <4>1, <4>2, <4>3, <1>9
    <3>2. z \in Seq(Chars) /\ Len(z) = IF c[k] <= q - 1 THEN (q - 1) - c[k] + 1 ELSE 0
      BY <3>1, PartType
    <3> QED
      BY <3>2, <1>2, <1>4
  <2>2. \A y \in c[k]..q - 1 : text[y] \in Chars
    <3> TAKE y \in c[k]..q - 1
    <3>1. c[k] \in Nat \ {0} /\ q \in Nat
      BY <1>4
    <3>2. y \in 1..Len(text)
      BY <3>1, <1>1, <1>9
    <3> QED
      BY <3>2, ElementOfSeq DEF TypeOK
  <2>a. c[k] \in Int /\ q - 1 \in Int
    BY <1>4
  <2>3. \A x \in 1..(q - 1) - c[k] + 1 : z[x] = text[c[k] + x - 1]
    BY <2>2, <2>a, SubSeqProperties
  <2>4. (q - 1) - c[k] + 1 = Len(list[k])
    <3> DEFINE p == c[k]
               m == Len(list[k])
    <3>1. p \in Int /\ m \in Int /\ q = p + m
      BY <1>2, <1>4
    <3> HIDE DEF p, m
    <3>2. (q - 1) - p + 1 = m
      BY <3>1
    <3> QED
      BY <3>2 DEF p, m
  <2>5. \A x \in 1..Len(z) : z[x] = list[k][x]
    BY <2>1, <2>3, <2>4, <1>10
  <2> HIDE DEF z
  <2>6. z = list[k]
    BY <2>1, <2>5, <1>2, SeqEqual
  <2> QED
    BY <2>6 DEF z
<1> QED
  BY <1>1, <1>2, <1>4, <1>5, <1>6, <1>10, <1>11, <1>12 DEF E, Sliced

\* No occurrence begins within a member: it would be one of the member's own, or
\* it would overlap the delimiter that follows.
LEMMA NoEarly ==
  ASSUME TypeOK, Reversible, NEW c, Slices(c, Ended(text), list, Len(Ended(text)) + 1),
         NEW k \in 1..Len(list), NEW q, q = c[k] + Len(list[k]),
         NEW j \in Nat, c[k] <= j, j < q, OccursIn(text, delimiter, j)
  PROVE  FALSE
<1> DEFINE w == list[k]
           p == c[k]
           d == delimiter
<1>1. /\ w \in Seq(Chars) /\ Len(w) \in Nat /\ Len(d) \in Nat /\ Len(text) \in Nat
      /\ p \in Nat \ {0} /\ q \in Nat \ {0}
      /\ \A x \in 1..Len(w) : text[p + x - 1] = w[x]
      /\ \A x \in 1..Len(d) : Ended(text)[q + x - 1] = d[x]
      /\ \A x \in 1..Len(text) : text[x] = Ended(text)[x]
  <2>1. Sliced(c, k, q)
    BY SliceParts
  <2> QED
    BY <2>1 DEF Sliced
<1>2. d \in Seq(Chars) /\ text \in Seq(Chars) /\ d # << >>
  BY DelimiterType DEF TypeOK, Reversible
<1>3. p <= j /\ j < q /\ q = p + Len(w) /\ j \in Nat \ {0}
  BY <1>1
<1>4. j + Len(d) - 1 <= Len(text) /\ \A x \in 1..Len(d) : text[j + x - 1] = d[x]
  <2>1. j + Len(d) - 1 <= Len(text)
    BY DEF OccursIn
  <2> QED
    BY <2>1, <1>2, <1>3, OccursAt
<1>5. Clean(w) /\ Borderless
  <2>1. k \in DOMAIN list
    BY LenProperties DEF TypeOK
  <2> QED
    BY <2>1 DEF Reversible
<1>a. Len(d) \in Nat /\ q \in Nat /\ j \in Nat /\ j < q
  BY <1>1, <1>3
<1>b. d \in Seq(Chars) /\ Len(d) \in Nat
  BY <1>1, <1>2
<1> HIDE DEF w, p, d
<1>6. CASE j + Len(d) <= q
  <2> DEFINE i == j - p + 1
  <2>1. i \in Nat \ {0} /\ i + Len(d) - 1 <= Len(w)
    BY <1>1, <1>3, <1>6
  <2>2. \A x \in 1..Len(d) : w[i + x - 1] = d[x]
    <3> TAKE x \in 1..Len(d)
    <3>1. i + x - 1 \in 1..Len(w)
      BY <1>1, <1>3, <1>6
    <3>2. p + (i + x - 1) - 1 = j + x - 1
      BY <1>1, <1>3
    <3>3. text[p + (i + x - 1) - 1] = w[i + x - 1]
      BY <3>1, <1>1
    <3> QED
      BY <3>2, <3>3, <1>4
  <2>3. i \in 1..Len(w)
    <3>1. Len(d) # 0
      BY <1>1, <1>2, EmptySeq
    <3>2. Len(d) \in Nat \ {0} /\ Len(w) \in Nat
      BY <3>1, <1>1
    <3> HIDE DEF i
    <3>3. i <= Len(w)
      BY <3>2, <2>1
    <3> QED
      BY <3>2, <3>3, <2>1
  <2> HIDE DEF i
  <2>4. OccursIn(w, d, i)
    BY <2>1, <2>2, <1>1, <1>2, OccursAt
  <2> QED
    BY <2>3, <2>4, <1>5 DEF Clean, d
<1>7. CASE q < j + Len(d)
  <2> DEFINE n == j + Len(d) - q
  <2>1. n \in 1..Len(d) - 1 /\ Len(d) - n + 1 \in Nat \ {0} /\ Len(d) - n = q - j
    <3> DEFINE D == Len(d)
    <3>1. D \in Nat /\ q < j + D
      BY <1>a, <1>7
    <3> HIDE DEF D
    <3>2. /\ j + D - q \in 1..D - 1 /\ D - (j + D - q) + 1 \in Nat \ {0}
          /\ D - (j + D - q) = q - j
      BY <3>1, <1>a
    <3> QED
      BY <3>2 DEF D
  <2>a. n = j + Len(d) - q
    OBVIOUS
  <2> HIDE DEF n
  <2>2. \A x \in 1..n : d[x] = d[(Len(d) - n) + x]
    <3> TAKE x \in 1..n
    <3>0. n \in Nat \ {0} /\ Len(d) \in Nat /\ n < Len(d)
      BY <2>1, <1>1
    <3>1. x \in 1..Len(d) /\ (Len(d) - n) + x \in 1..Len(d)
      BY <3>0
    <3>2. j + ((Len(d) - n) + x) - 1 = q + x - 1 /\ q + x - 1 \in 1..Len(text)
      <4>1. x <= n /\ x \in Nat \ {0}
        BY <2>1
      <4>2. q + x - 1 <= j + Len(d) - 1
        <5>1. x <= j + Len(d) - q /\ x \in Nat
          BY <4>1, <2>a
        <5> QED
          BY <5>1, <1>a
      <4>3. q \in Nat \ {0} /\ j \in Nat /\ j + Len(d) - 1 <= Len(text) /\ Len(text) \in Nat
        BY <1>1, <1>3, <1>4
      <4>4. q + x - 1 \in Nat \ {0} /\ q + x - 1 <= Len(text)
        BY <4>1, <4>2, <4>3, <3>0
      <4>5. q + x - 1 \in 1..Len(text)
        BY <4>3, <4>4
      <4>6. j + ((Len(d) - n) + x) - 1 = q + x - 1
        <5>1. q \in Int /\ j \in Int /\ x \in Int /\ Len(d) \in Int /\ n \in Int /\ Len(d) - n = q - j
          BY <4>1, <4>3, <3>0, <2>1
        <5> QED
          BY <5>1
      <4> QED
        BY <4>5, <4>6
    <3>3. text[j + ((Len(d) - n) + x) - 1] = d[(Len(d) - n) + x]
      BY <3>1, <1>4
    <3>4. text[q + x - 1] = Ended(text)[q + x - 1] /\ Ended(text)[q + x - 1] = d[x]
      BY <3>1, <3>2, <1>1
    <3> QED
      BY <3>2, <3>3, <3>4
  <2>3. SubSeq(d, 1, n) = SubSeq(d, Len(d) - n + 1, Len(d))
    <3> DEFINE f == SubSeq(d, 1, n)
               l == SubSeq(d, Len(d) - n + 1, Len(d))
               b == Len(d) - n + 1
    <3>1. n \in Nat \ {0} /\ n <= Len(d) /\ b \in Nat \ {0} /\ b <= Len(d) /\ Len(d) - b + 1 = n
      BY <2>1, <1>1
    <3>2. f \in Seq(Chars) /\ Len(f) = n
      BY <3>1, <1>b, PartType
    <3> HIDE DEF b
    <3>3. SubSeq(d, b, Len(d)) \in Seq(Chars) /\ Len(SubSeq(d, b, Len(d))) = n
      BY <3>1, <1>b, PartType
    <3>4. \A x \in 1..Len(d) : d[x] \in Chars
      BY <1>2, ElementOfSeq
    <3>5. \A x \in 1..n : f[x] = d[x]
      <4>1. \A x \in 1..n : d[x] \in Chars
        BY <3>1, <3>4, <1>1
      <4>2. \A x \in 1..n - 1 + 1 : SubSeq(d, 1, n)[x] = d[1 + x - 1]
        BY <3>1, <4>1, SubSeqProperties
      <4> QED
        BY <4>2, <3>1
    <3>6. \A x \in 1..n : SubSeq(d, b, Len(d))[x] = d[b + x - 1]
      <4>1. \A x \in b..Len(d) : d[x] \in Chars
        BY <3>1, <3>4, <1>1
      <4>2. \A x \in 1..Len(d) - b + 1 : SubSeq(d, b, Len(d))[x] = d[b + x - 1]
        BY <3>1, <4>1, <1>1, SubSeqProperties
      <4> QED
        BY <4>2, <3>1
    <3>7. \A x \in 1..n : d[b + x - 1] = d[(Len(d) - n) + x]
      <4> TAKE x \in 1..n
      <4>1. b + x - 1 = (Len(d) - n) + x
        BY <3>1, <1>1 DEF b
      <4> QED
        BY <4>1
    <3>8. \A x \in 1..Len(f) : f[x] = l[x]
      BY <3>2, <3>5, <3>6, <3>7, <2>2 DEF b
    <3>9. l \in Seq(Chars) /\ Len(l) = Len(f)
      BY <3>2, <3>3 DEF b
    <3> QED
      BY <3>2, <3>8, <3>9, SeqEqual
  <2> QED
    BY <2>1, <2>3, <1>5 DEF Borderless, d
<1> QED
  BY <1>1, <1>3, <1>6, <1>7

\* A member that is not the last is followed by an occurrence.
LEMMA OccursBehind ==
  ASSUME TypeOK, Reversible, NEW c, NEW k \in 1..Len(list), k < Len(list),
         NEW q, q = c[k] + Len(list[k]), Sliced(c, k, q)
  PROVE  q \in c[k]..Len(text) /\ OccursIn(text, delimiter, q)
<1>1. /\ Len(list[k]) \in Nat /\ Len(delimiter) \in Nat /\ Len(text) \in Nat
      /\ c[k] \in Nat \ {0} /\ q \in Nat \ {0}
      /\ q + Len(delimiter) <= Len(text) + 1
  BY DEF Sliced
<1>2. text \in Seq(Chars) /\ delimiter \in Seq(Chars) /\ delimiter # << >>
  BY DelimiterType DEF TypeOK, Reversible
<1>3. Len(delimiter) \in Nat \ {0}
  BY <1>1, <1>2, EmptySeq
<1>4. q \in c[k]..Len(text)
  BY <1>1, <1>3
<1>5. \A x \in 1..Len(delimiter) : text[q + x - 1] = delimiter[x]
  <2> TAKE x \in 1..Len(delimiter)
  <2>1. q + x - 1 \in 1..Len(text)
    BY <1>1
  <2> QED
    BY <2>1 DEF Sliced
<1>6. q + Len(delimiter) - 1 <= Len(text)
  BY <1>1
<1> QED
  BY <1>1, <1>2, <1>4, <1>5, <1>6, OccursAt

\* Each turn of split's loop brings back one member.
LEMMA PieceBack ==
  ASSUME TypeOK, BackSoFar, SplitPiece
  PROVE  BackSoFar'
<1>1. PICK i \in pos..Len(text) :
        Found(i) /\ pieces' = Append(pieces, SubSeq(text, pos, i - 1)) /\ pos' = i + Len(delimiter)
  BY DEF SplitPiece
<1>2. call = "split" /\ UNCHANGED <<text, list, delimiter>>
  BY DEF SplitPiece, program
<1>3. ASSUME Reversible, NEW c, Slices(c, Ended(text), list, Len(Ended(text)) + 1)
      PROVE  \E k \in 1..Len(list) : pos' = c[k] /\ pieces' = SubSeq(list, 1, k - 1)
  <2>1. PICK k \in 1..Len(list) : pos = c[k] /\ pieces = SubSeq(list, 1, k - 1)
    BY <1>2, <1>3 DEF BackSoFar
  <2> DEFINE q == c[k] + Len(list[k])
  <2>2. Sliced(c, k, q)
    BY <1>3, SliceParts
  <2> HIDE DEF q
  <2>3. /\ Len(list) \in Nat /\ Len(delimiter) \in Nat /\ Len(text) \in Nat
        /\ q \in Nat \ {0} /\ c[k] \in Nat \ {0} /\ c[k + 1] = q + Len(delimiter)
        /\ k = Len(list) => q = Len(text) + 1
        /\ SubSeq(text, c[k], q - 1) = list[k] /\ list[k] \in Seq(Chars)
    BY <2>2 DEF Sliced
  <2>4. i \in Nat /\ c[k] <= i /\ i <= Len(text) /\ OccursIn(text, delimiter, i)
    BY <1>1, <2>1, <2>3 DEF Found
  <2>5. ~(i < q)
    BY <1>3, <2>4, NoEarly DEF q
  <2>6. k < Len(list)
    BY <2>3, <2>4, <2>5
  <2>7. q \in c[k]..Len(text) /\ OccursIn(text, delimiter, q)
    BY <1>3, <2>2, <2>6, OccursBehind DEF q
  <2>8. i = q
    <3>1. ~(q < i)
      <4>1. q < i => q \in pos..i - 1
        BY <2>1, <2>3, <2>4, <2>7
      <4> QED
        BY <4>1, <1>1, <2>7 DEF Found
    <3> QED
      BY <3>1, <2>3, <2>4, <2>5
  <2>9. pos' = c[k + 1] /\ pieces' = Append(SubSeq(list, 1, k - 1), list[k])
    BY <1>1, <2>1, <2>3, <2>8
  <2>10. Append(SubSeq(list, 1, k - 1), list[k]) = SubSeq(list, 1, (k + 1) - 1)
    <3>1. list \in Seq(Seq(Chars)) /\ 1 \in 1..Len(list) /\ k \in 1..Len(list)
      BY <2>3 DEF TypeOK
    <3>2. SubSeq(list, 1, k - 1) \in Seq(Seq(Chars))
      BY <3>1, <2>3, PartType
    <3>3. SubSeq(list, 1, k) = SubSeq(list, 1, k - 1) \o <<list[k]>>
      BY <3>1, SubSeqRecursiveSecond
    <3>4. Append(SubSeq(list, 1, k - 1), list[k]) = SubSeq(list, 1, k - 1) \o <<list[k]>>
      BY <3>2, <2>3, AppendIsConcat
    <3>5. (k + 1) - 1 = k
      OBVIOUS
    <3> QED
      BY <3>3, <3>4, <3>5
  <2>11. k + 1 \in 1..Len(list)
    BY <2>3, <2>6
  <2> QED
    BY <2>9, <2>10, <2>11
<1> QED
  BY <1>2, <1>3 DEF BackSoFar, Reversible, Slices, Ended, Clean, Borderless, OccursIn

\* The rest is the last member.
LEMMA RestBack ==
  ASSUME TypeOK, BackSoFar, call = "split", NotFound, Reversible,
         NEW c, Slices(c, Ended(text), list, Len(Ended(text)) + 1)
  PROVE  Append(pieces, Rest) = list
<1>1. PICK k \in 1..Len(list) : pos = c[k] /\ pieces = SubSeq(list, 1, k - 1)
  BY DEF BackSoFar
<1> DEFINE q == c[k] + Len(list[k])
<1>2. Sliced(c, k, q)
  BY SliceParts
<1> HIDE DEF q
<1>3. /\ Len(list) \in Nat /\ Len(text) \in Nat /\ q \in Nat
      /\ k = Len(list) => q = Len(text) + 1
      /\ SubSeq(text, c[k], q - 1) = list[k] /\ list[k] \in Seq(Chars)
  BY <1>2 DEF Sliced
<1>4. ~(k < Len(list))
  <2>1. k < Len(list) => q \in pos..Len(text) /\ OccursIn(text, delimiter, q)
    BY <1>1, <1>2, OccursBehind DEF q
  <2> QED
    BY <2>1 DEF NotFound
<1>5. k = Len(list) /\ q - 1 = Len(text)
  BY <1>3, <1>4
<1>6. Rest = list[k]
  BY <1>1, <1>3, <1>5 DEF Rest
<1>7. list \in Seq(Seq(Chars)) /\ 1 \in 1..Len(list)
  BY <1>3 DEF TypeOK
<1>8. SubSeq(list, 1, k - 1) \in Seq(Seq(Chars))
  BY <1>3, <1>7, PartType
<1>9. SubSeq(list, 1, k) = SubSeq(list, 1, k - 1) \o <<list[k]>>
  BY <1>7, SubSeqRecursiveSecond
<1>10. Append(SubSeq(list, 1, k - 1), list[k]) = SubSeq(list, 1, k - 1) \o <<list[k]>>
  BY <1>3, <1>8, AppendIsConcat
<1> QED
  BY <1>1, <1>5, <1>6, <1>7, <1>9, <1>10, SubSeqFull

\* An empty text is no members, or one that is empty.
LEMMA NothingBack ==
  ASSUME TypeOK, Reversible, text = << >>,
         NEW c, Slices(c, Ended(text), list, Len(Ended(text)) + 1)
  PROVE  list = << << >> >>
<1>1. list \in Seq(Seq(Chars)) /\ Len(list) \in Nat \ {0} /\ 1 \in 1..Len(list)
  BY LenProperties, EmptySeq DEF TypeOK, Reversible
<1> DEFINE q == c[1] + Len(list[1])
<1>2. Sliced(c, 1, q) /\ c[1] = 1
  BY <1>1, SliceParts DEF Slices
<1>3. /\ list[1] \in Seq(Chars) /\ Len(list[1]) \in Nat
      /\ 1 = Len(list) => q = Len(text) + 1
  BY <1>2 DEF Sliced
<1>4. Len(text) = 0
  BY EmptySeq
<1>5. ~(1 < Len(list))
  BY <1>1, <1>2, <1>3, <1>4, OccursBehind
<1>6. Len(list) = 1 /\ Len(list[1]) = 0
  <2>1. Len(list) = 1
    <3> DEFINE n == Len(list)
    <3>1. n \in Nat \ {0} /\ ~(1 < n)
      BY <1>1, <1>5
    <3> HIDE DEF n
    <3>2. n = 1
      BY <3>1
    <3> QED
      BY <3>2 DEF n
  <2>2. 1 + Len(list[1]) = 0 + 1
    BY <2>1, <1>2, <1>3, <1>4
  <2> QED
    BY <2>1, <2>2, <1>3
<1>7. list[1] = << >>
  BY <1>3, <1>6, EmptySeq
<1> QED
  BY <1>1, <1>6, <1>7

-----------------------------------------------------------------------------
(* The theorems. *)

LEMMA InitInvariant == Init => IInv
<1> SUFFICES ASSUME Init PROVE IInv
  OBVIOUS
<1>1. TypeOK
  BY InitType
<1> QED
  BY <1>1 DEF Init, IInv, IdleOK, SplitSoFar, JoinSoFar, BackSoFar, AgreeOK

\* After a function has returned no loop has anything to show.
LEMMA Returned ==
  ASSUME NEW t, NEW l, NEW a, Return(t, l, a)
  PROVE  SplitSoFar' /\ JoinSoFar' /\ BackSoFar'
BY DEF Return, SplitSoFar, JoinSoFar, BackSoFar

LEMMA SplitBegins ==
  ASSUME IInv, NEW p, Split(p)
  PROVE  SplitSoFar' /\ BackSoFar'
<1>1. /\ call = "none" /\ call' = "split"
      /\ UNCHANGED <<text, list, delimiter, pos, pieces>> /\ pos = 1 /\ pieces = << >>
  BY DEF Split, Call, program, loop, IInv, IdleOK
<1>2. text \in Seq(Chars) /\ list \in Seq(Seq(Chars))
  BY DEF IInv, TypeOK
<1>3. \E c : Slices(c, text, << >>, 1)
  BY <1>2, NoSlice
<1>4. SplitSoFar'
  BY <1>1, <1>3 DEF SplitSoFar, Slices
<1>5. ASSUME Reversible, NEW c, Slices(c, Ended(text), list, Len(Ended(text)) + 1)
      PROVE  \E k \in 1..Len(list) : pos' = c[k] /\ pieces' = SubSeq(list, 1, k - 1)
  <2>1. 1 \in 1..Len(list)
    BY <1>2, <1>5, EmptySeq DEF Reversible
  <2>2. pos' = c[1] /\ SubSeq(list, 1, 1 - 1) = << >>
    BY <1>1, <1>5, SubSeqEmpty DEF Slices
  <2> QED
    BY <1>1, <2>1, <2>2
<1>6. BackSoFar'
  BY <1>1, <1>5 DEF BackSoFar, Reversible, Slices, Ended, Clean, Borderless, OccursIn
<1> QED
  BY <1>4, <1>6

LEMMA JoinBegins ==
  ASSUME IInv, Join
  PROVE  JoinSoFar'
<1>1. /\ call' = "join" /\ UNCHANGED <<text, list, agree, delimiter, pos, s>>
      /\ pos = 1 /\ s = << >>
  BY DEF Join, Call, program, loop, IInv, IdleOK
<1>2. s \in Seq(Chars) /\ Len(s) = 0 /\ SubSeq(list, 1, pos - 1) = << >>
  BY <1>1, EmptySeq, SubSeqEmpty DEF IInv, TypeOK
<1>3. \E c : Slices(c, s, SubSeq(list, 1, pos - 1), Len(s) + 1)
  <2>1. Len(s) + 1 = 1
    BY <1>2
  <2>2. \E c : Slices(c, s, << >>, 1)
    BY <1>2, NoSlice
  <2> QED
    BY <2>1, <2>2, <1>2, Zenon
<1>4. ASSUME NEW c, Slices(c, Ended(text), list, Len(Ended(text)) + 1)
      PROVE  s = SubSeq(Ended(text), 1, c[pos] - 1)
  BY <1>1, <1>4, SubSeqEmpty DEF Slices
<1> QED
  BY <1>1, <1>3, <1>4 DEF JoinSoFar, Slices, Ended

LEMMA NextInvariant == IInv /\ [Next]_vars => IInv'
<1> SUFFICES ASSUME IInv, [Next]_vars PROVE IInv'
  OBVIOUS
<1>a. TypeOK /\ IdleOK /\ SplitSoFar /\ JoinSoFar /\ BackSoFar /\ AgreeOK
  BY DEF IInv
<1>b. TypeOK' /\ IdleOK'
  BY <1>a, NextType
<1>1. CASE \E p \in {"all", "nonempty"} : Split(p)
  <2>1. call' = "split" /\ UNCHANGED <<text, list, agree, delimiter>>
    BY <1>1 DEF Split, Call, program
  <2>2. JoinSoFar' /\ AgreeOK'
    BY <2>1, <1>a DEF JoinSoFar, AgreeOK, Agree, Slices, Ended
  <2> QED
    BY <1>1, <1>b, <2>2, SplitBegins DEF IInv
<1>2. CASE SplitNothing
  <2> DEFINE l == IF text = << >> THEN << >> ELSE <<text>>
  <2>1. Return(text, l, "split") /\ text' = text /\ list' = l /\ delimiter' = delimiter
    BY <1>2 DEF SplitNothing, Return
  <2>2. Agree(text, l)
    BY <1>2, <1>a, WholeSliced DEF SplitNothing, Agree
  <2>3. AgreeOK'
    BY <2>1, <2>2 DEF AgreeOK, Agree, Slices, Ended
  <2> QED
    BY <1>b, <2>1, <2>3, Returned DEF IInv
<1>3. CASE SplitPiece
  <2>1. call = "split" /\ UNCHANGED <<text, list, agree, delimiter, call>>
    BY <1>3 DEF SplitPiece, program
  <2>2. JoinSoFar' /\ AgreeOK'
    BY <2>1, <1>a DEF JoinSoFar, AgreeOK, Agree, Slices, Ended
  <2> QED
    BY <1>3, <1>a, <1>b, <2>2, PieceSliced, PieceBack DEF IInv
<1>4. CASE SplitRest
  <2>1. /\ call = "split" /\ UNCHANGED <<text, delimiter>>
        /\ agree' # "no" => list' = Append(pieces, Rest)
        /\ \E l, a : Return(text, l, a)
    BY <1>4 DEF SplitRest, Return
  <2>2. AgreeOK'
    BY <2>1, <1>a, RestSliced DEF AgreeOK, Agree, Slices, Ended
  <2> QED
    BY <1>b, <2>1, <2>2, Returned DEF IInv
<1>5. CASE Join
  <2>1. call' = "join" /\ UNCHANGED <<text, list, agree, delimiter>>
    BY <1>5 DEF Join, Call, program
  <2>2. SplitSoFar' /\ BackSoFar' /\ AgreeOK'
    BY <2>1, <1>a DEF SplitSoFar, BackSoFar, AgreeOK, Agree, Slices, Ended
  <2> QED
    BY <1>5, <1>b, <2>2, JoinBegins DEF IInv
<1>6. CASE JoinPiece
  <2>1. call = "join" /\ UNCHANGED <<text, list, agree, delimiter, call>>
    BY <1>6 DEF JoinPiece, program
  <2>2. SplitSoFar' /\ BackSoFar' /\ AgreeOK'
    BY <2>1, <1>a DEF SplitSoFar, BackSoFar, AgreeOK, Agree, Slices, Ended
  <2> QED
    BY <1>6, <1>a, <1>b, <2>2, PieceJoined DEF IInv
<1>7. CASE JoinEnds
  <2>1. list' = list /\ delimiter' = delimiter /\ \E t, a : Return(t, list, a)
    BY <1>7 DEF JoinEnds, Return
  <2>2. Agree(text', list)
    BY <1>7, <1>a, JoinReturns
  <2>3. AgreeOK'
    BY <2>1, <2>2 DEF AgreeOK, Agree, Slices, Ended
  <2> QED
    BY <1>b, <2>1, <2>3, Returned DEF IInv
<1>8. CASE \E n \in News : Replace(n)
  <2>1. call' = "replace" /\ UNCHANGED <<text, list, agree, delimiter>>
    BY <1>8 DEF Replace, Call, program
  <2>2. SplitSoFar' /\ JoinSoFar' /\ BackSoFar' /\ AgreeOK'
    BY <2>1, <1>a DEF SplitSoFar, JoinSoFar, BackSoFar, AgreeOK, Agree, Slices, Ended
  <2> QED
    BY <1>b, <2>2 DEF IInv
<1>9. CASE ReplaceNothing \/ ReplaceRest
  <2>1. agree' = "no" /\ \E t, l, a : Return(t, l, a)
    BY <1>9 DEF ReplaceNothing, ReplaceRest, Return
  <2>2. AgreeOK'
    BY <2>1 DEF AgreeOK
  <2> QED
    BY <1>b, <2>1, <2>2, Returned DEF IInv
<1>10. CASE ReplaceFound
  <2>1. call' = "replace" /\ UNCHANGED <<text, list, agree, delimiter>>
    BY <1>10 DEF ReplaceFound, program
  <2>2. SplitSoFar' /\ JoinSoFar' /\ BackSoFar' /\ AgreeOK'
    BY <2>1, <1>a DEF SplitSoFar, JoinSoFar, BackSoFar, AgreeOK, Agree, Slices, Ended
  <2> QED
    BY <1>b, <2>2 DEF IInv
<1>11. CASE Trim
  <2>1. /\ UNCHANGED <<list, delimiter>>
        /\ agree' # "no" => agree' = agree /\ text' = text
        /\ \E t, l, a : Return(t, l, a)
    BY <1>11 DEF Trim, Return
  <2>2. AgreeOK'
    BY <2>1, <1>a DEF AgreeOK, Agree, Slices, Ended
  <2> QED
    BY <1>b, <2>1, <2>2, Returned DEF IInv
<1>12. CASE UNCHANGED vars
  <2>1. UNCHANGED <<text, list, agree, delimiter, call, pos, pieces, s>>
    BY <1>12 DEF vars, program, loop
  <2>2. SplitSoFar' /\ JoinSoFar'
    BY <2>1, <1>a DEF SplitSoFar, JoinSoFar, Slices, Ended
  <2>3. BackSoFar' /\ AgreeOK'
    BY <2>1, <1>a DEF BackSoFar, Reversible, AgreeOK, Agree, Slices, Ended, Clean, Borderless, OccursIn
  <2> QED
    BY <1>b, <2>2, <2>3 DEF IInv
<1> QED
  BY <1>1, <1>2, <1>3, <1>4, <1>5, <1>6, <1>7, <1>8, <1>9, <1>10, <1>11, <1>12 DEF Next

\* What the loops have done so far is always a cut of the text or the list.
THEOREM Invariance == Spec => []IInv
BY InitInvariant, NextInvariant, PTL DEF Spec

\* Every variable has its type: no position leaves what it goes over, so that
\* substr and the iterator of join stay inside.
THEOREM TypeCorrect == Spec => []TypeOK
<1>1. IInv => TypeOK
  BY DEF IInv
<1> QED
  BY <1>1, Invariance, PTL

\* Joining gives back the text that was split, whatever text and delimiter.
THEOREM SplitLosesNothing == Spec => JoinUndoesSplit
<1>1. IInv /\ [Next]_vars => [Returns("join") /\ agree # "no" => text' = text]_vars
  <2> SUFFICES ASSUME IInv, [Next]_vars, Returns("join"), agree # "no" PROVE text' = text
    OBVIOUS
  <2>1. TypeOK /\ JoinSoFar /\ AgreeOK
    BY DEF IInv
  <2>2. JoinEnds \/ UNCHANGED vars
    BY DEF Returns, Next, Split, SplitNothing, SplitPiece, SplitRest, Join, JoinPiece, Replace,
           ReplaceNothing, ReplaceFound, ReplaceRest, Trim, Call, vars
  <2>3. CASE JoinEnds
    BY <2>1, <2>3, JoinReturns
  <2>4. CASE UNCHANGED vars
    BY <2>4 DEF vars, program
  <2> QED
    BY <2>2, <2>3, <2>4
<1> QED
  BY <1>1, Invariance, PTL DEF Spec, JoinUndoesSplit

\* Splitting gives back the list that was joined, if its members do not contain
\* the delimiter and the delimiter does not overlap itself.
THEOREM JoinLosesNothing == Spec => SplitUndoesJoin
<1> DEFINE Back == Returns("split") /\ agree = "joined" /\ pred = "all"
                     /\ delimiter # << >> /\ Borderless /\ list # << << >> >>
                     /\ (\A i \in DOMAIN list : Clean(list[i]))
                   => list' = list
<1>1. IInv /\ [Next]_vars => [Back]_vars
  <2> SUFFICES ASSUME IInv, [Next]_vars, Returns("split"), agree = "joined", pred = "all",
                      delimiter # << >>, Borderless, list # << << >> >>,
                      \A i \in DOMAIN list : Clean(list[i])
               PROVE  list' = list
    OBVIOUS
  <2>1. TypeOK /\ BackSoFar /\ AgreeOK /\ call = "split"
    BY DEF IInv, Returns
  <2>2. Agree(text, list)
    BY <2>1 DEF AgreeOK
  <2>3. SplitNothing \/ SplitRest \/ UNCHANGED vars
    BY DEF Returns, Next, Split, SplitNothing, SplitPiece, SplitRest, Join, JoinPiece, JoinEnds, Replace,
           ReplaceNothing, ReplaceFound, ReplaceRest, Trim, Call, vars
  <2>4. CASE SplitNothing
    <3>1. text = << >> /\ list' = << >>
      BY <2>4 DEF SplitNothing, Return
    <3>2. list = << >>
      <4>1. ASSUME list # << >> PROVE FALSE
        <5>1. Reversible
          BY <4>1 DEF Reversible
        <5>2. PICK c : Slices(c, Ended(text), list, Len(Ended(text)) + 1)
          BY <4>1, <2>2 DEF Agree
        <5> QED
          BY <5>1, <5>2, <2>1, <3>1, NothingBack
      <4> QED
        BY <4>1
    <3> QED
      BY <3>1, <3>2
  <2>5. CASE SplitRest
    <3>1. text # << >> /\ NotFound /\ list' = Append(pieces, Rest)
      BY <2>5 DEF SplitRest, Return, Keeps
    <3>2. list # << >> /\ Reversible
      BY <3>1, <2>2 DEF Agree, Reversible
    <3>3. PICK c : Slices(c, Ended(text), list, Len(Ended(text)) + 1)
      BY <3>2, <2>2 DEF Agree
    <3> QED
      BY <3>1, <3>2, <3>3, <2>1, RestBack
  <2>6. CASE UNCHANGED vars
    BY <2>6 DEF vars, program
  <2> QED
    BY <2>3, <2>4, <2>5, <2>6
<1> QED
  BY <1>1, Invariance, PTL DEF Spec, SplitUndoesJoin

-----------------------------------------------------------------------------
(* A split is the same split every time it is made: the cuts are at the     *)
(* first occurrences, and there is only one first.                          *)

NoneFrom(t, i) == \A j \in i..Len(t) : ~OccursIn(t, delimiter, j)

\* The first occurrence in t from i on is at j.
FirstFrom(t, i, j) ==
  /\ j \in i..Len(t) /\ OccursIn(t, delimiter, j)
  /\ \A k \in i..j - 1 : ~OccursIn(t, delimiter, k)

\* The first n members of l are what is in front of the first occurrences.
CutAtFirst(c, t, l, n) ==
  /\ c[1] = 1
  /\ \A i \in 1..n : \E j \in c[i]..Len(t) :
       FirstFrom(t, c[i], j) /\ l[i] = SubSeq(t, c[i], j - 1) /\ c[i + 1] = j + Len(delimiter)

\* With the cuts c, l is all that a split of t returns.
SplitAt(c, t, l) ==
  /\ l # << >> /\ CutAtFirst(c, t, l, Len(l) - 1)
  /\ NoneFrom(t, c[Len(l)]) /\ l[Len(l)] = SubSeq(t, c[Len(l)], Len(t))

SplitOf(t, l) ==
  IF t = << >> THEN l = << >>
  ELSE IF delimiter = << >> THEN l = <<t>>
  ELSE \E c : SplitAt(c, t, l)

FirstsSoFar ==
  call = "split" => \E c : CutAtFirst(c, text, pieces, Len(pieces)) /\ c[Len(pieces) + 1] = pos

SplitOK == agree = "split" => SplitOf(text, list)

\* The list as Followed has it, each member with n behind it.
FollowedBy(l, n) ==
  CHOOSE f : f = [i \in 0..Len(l) |-> IF i = 0 THEN << >> ELSE f[i - 1] \o l[i] \o n]

\* A split that is made once more, and a replace, are at a cut of the list.
AgainSoFar ==
  call = "split" /\ agree = "split" =>
    \A c : SplitAt(c, text, list)
      => \E k \in 1..Len(list) : pos = c[k] /\ pieces = SubSeq(list, 1, k - 1)

ReplaceSoFar ==
  call = "replace" =>
    /\ text = << >> => s = << >>
    /\ agree = "split" =>
         \A c : SplitAt(c, text, list)
           => \E k \in 1..Len(list) : pos = c[k] /\ s = FollowedBy(list, new)[k - 1]

AgainInv == FirstsSoFar /\ SplitOK /\ AgainSoFar /\ ReplaceSoFar

Less == {ss \in Nat \X Nat : ss[1] < ss[2]}

LEMMA LessWellFounded == IsWellFoundedOn(Less, Nat)
BY NatLessThanWellFounded DEF OpToRel, Less

\* A set of numbers that has 0 and the next of each of its own has them all.
LEMMA Induction ==
  ASSUME NEW S \in SUBSET Nat, 0 \in S, \A k \in S : k + 1 \in S
  PROVE  S = Nat
<1> SUFFICES ASSUME Nat \ S # {} PROVE FALSE
  OBVIOUS
<1>1. PICK n \in Nat \ S : \A k \in Nat \ S : ~ (<<k, n>> \in Less)
  BY LessWellFounded, WFMin, Zenon
<1>2. n # 0 /\ n \in Nat
  OBVIOUS
<1>3. n - 1 \in Nat /\ n - 1 < n /\ (n - 1) + 1 = n
  BY <1>2
<1>4. <<n - 1, n>> \in Less
  BY <1>2, <1>3 DEF Less
<1>5. n - 1 \in S
  BY <1>1, <1>3, <1>4
<1> QED BY <1>3, <1>5

\* Followed is what its equation says.
LEMMA FollowedStep ==
  ASSUME NEW l, NEW n, Len(l) \in Nat
  PROVE  /\ FollowedBy(l, n)[0] = << >>
         /\ \A i \in 1..Len(l) : FollowedBy(l, n)[i] = FollowedBy(l, n)[i - 1] \o l[i] \o n
<1> DEFINE N == Len(l)
           Step(g) == [i \in 0..N |-> IF i = 0 THEN << >> ELSE g[i - 1] \o l[i] \o n]
           Right(g, k) == \A i \in 0..N : i < k => g[i] = Step(g)[i]
           S == {k \in Nat : \E g : Right(g, k)}
<1>0. N \in Nat
  OBVIOUS
<1> HIDE DEF N
<1>1. 0 \in S
  <2>1. Right(<< >>, 0)
    BY <1>0
  <2> QED BY <2>1
<1>2. ASSUME NEW k \in S PROVE k + 1 \in S
  <2>1. PICK g : Right(g, k)
    OBVIOUS
  <2>2. ASSUME NEW i \in 0..N, i < k + 1
        PROVE  Step(g)[i] = Step(Step(g))[i]
    <3>1. CASE i = 0
      BY <3>1
    <3>2. CASE i # 0
      <4>1. i - 1 \in 0..N /\ i - 1 < k
        BY <1>0, <2>2, <3>2
      <4>2. g[i - 1] = Step(g)[i - 1]
        BY <2>1, <4>1
      <4> QED BY <3>2, <4>2
    <3> QED BY <3>1, <3>2
  <2>3. Right(Step(g), k + 1)
    BY <2>2
  <2>4. k + 1 \in Nat
    OBVIOUS
  <2> HIDE DEF Right
  <2> QED BY <2>3, <2>4
<1>3. S = Nat
  <2> HIDE DEF S
  <2>1. S \subseteq Nat
    BY DEF S
  <2> QED BY <1>1, <1>2, <2>1, Induction
<1>4. PICK g : Right(g, N + 1)
  <2>1. N + 1 \in S
    <3> HIDE DEF S
    <3> QED BY <1>0, <1>3
  <2> QED BY <2>1
<1>5. \A i \in 0..N : g[i] = Step(g)[i]
  BY <1>0, <1>4
<1> DEFINE f == Step(g)
<1>6. \A i \in 0..N : f[i] = Step(f)[i]
  <2> TAKE i \in 0..N
  <2>1. CASE i = 0
    BY <2>1
  <2>2. CASE i # 0
    <3>1. i - 1 \in 0..N
      BY <1>0, <2>2
    <3>2. g[i - 1] = f[i - 1]
      BY <1>5, <3>1
    <3> QED BY <2>2, <3>2
  <2> QED BY <2>1, <2>2
<1>7. f = Step(f)
  BY <1>6
<1> HIDE DEF f
<1>8. FollowedBy(l, n) = Step(FollowedBy(l, n))
  BY <1>7 DEF FollowedBy, N
<1> DEFINE h == FollowedBy(l, n)
<1>9. h = Step(h)
  BY <1>8
<1> HIDE DEF h
<1>10. h[0] = << >>
  BY <1>0, <1>9
<1>11. \A i \in 1..N : h[i] = h[i - 1] \o l[i] \o n
  BY <1>0, <1>9
<1> QED
  BY <1>10, <1>11 DEF h, N

\* Where the text is cut, a member of the list is next.
LEMMA NextMember ==
  ASSUME TypeOK, call # "join", NEW c, SplitAt(c, text, list), NEW k \in 1..Len(list), pos = c[k]
  PROVE  /\ \A i \in pos..Len(text) : Found(i) =>
              /\ k + 1 \in 1..Len(list)
              /\ SubSeq(text, pos, i - 1) = list[k] /\ i + Len(delimiter) = c[k + 1]
         /\ NotFound => k = Len(list) /\ Rest = list[k]
<1>1. /\ pos \in Nat \ {0} /\ Len(text) \in Nat /\ Len(list) \in Nat
      /\ list \in Seq(Seq(Chars))
  BY LenProperties DEF TypeOK
<1>2. /\ CutAtFirst(c, text, list, Len(list) - 1)
      /\ NoneFrom(text, c[Len(list)]) /\ list[Len(list)] = SubSeq(text, c[Len(list)], Len(text))
  BY DEF SplitAt
<1>3. k = Len(list) \/ (k \in 1..Len(list) - 1 /\ k + 1 \in 1..Len(list) /\ k # Len(list))
  BY <1>1
<1>4. ASSUME k \in 1..Len(list) - 1
      PROVE  \E j \in pos..Len(text) :
               /\ FirstFrom(text, pos, j) /\ list[k] = SubSeq(text, pos, j - 1)
               /\ c[k + 1] = j + Len(delimiter)
  BY <1>2, <1>4 DEF CutAtFirst
<1>5. ASSUME NEW i \in pos..Len(text), Found(i)
      PROVE  /\ k + 1 \in 1..Len(list)
             /\ SubSeq(text, pos, i - 1) = list[k] /\ i + Len(delimiter) = c[k + 1]
  <2>1. k # Len(list)
    BY <1>2, <1>5 DEF NoneFrom, Found
  <2>2. PICK j \in pos..Len(text) :
          /\ FirstFrom(text, pos, j) /\ list[k] = SubSeq(text, pos, j - 1)
          /\ c[k + 1] = j + Len(delimiter)
    BY <1>3, <1>4, <2>1
  <2>3. i = j
    <3>1. i < j => i \in pos..j - 1
      BY <1>1
    <3>2. j < i => j \in pos..i - 1
      BY <1>1
    <3>3. ~(i < j) /\ ~(j < i)
      BY <3>1, <3>2, <1>5, <2>2 DEF FirstFrom, Found
    <3> QED
      BY <3>3, <1>1
  <2> QED
    BY <1>3, <2>1, <2>2, <2>3
<1>6. ASSUME NotFound
      PROVE  k = Len(list) /\ Rest = list[k]
  <2>1. k = Len(list)
    BY <1>3, <1>4, <1>6 DEF FirstFrom, NotFound
  <2> QED
    BY <1>2, <2>1 DEF Rest
<1> QED
  BY <1>5, <1>6

\* One more member of the list.
LEMMA UpTo ==
  ASSUME TypeOK, NEW k \in 1..Len(list)
  PROVE  Append(SubSeq(list, 1, k - 1), list[k]) = SubSeq(list, 1, k)
<1>1. list \in Seq(Seq(Chars)) /\ Len(list) \in Nat /\ 1 \in 1..Len(list) /\ list[k] \in Seq(Chars)
  BY LenProperties, ElementOfSeq DEF TypeOK
<1>2. SubSeq(list, 1, k - 1) \in Seq(Seq(Chars))
  BY <1>1, PartType
<1>3. SubSeq(list, 1, k) = SubSeq(list, 1, k - 1) \o <<list[k]>>
  BY <1>1, SubSeqRecursiveSecond
<1>4. Append(SubSeq(list, 1, k - 1), list[k]) = SubSeq(list, 1, k - 1) \o <<list[k]>>
  BY <1>1, <1>2, AppendIsConcat
<1> QED
  BY <1>3, <1>4

\* The rest ends a list that is the text, split.
LEMMA SplitMade ==
  ASSUME TypeOK, FirstsSoFar, call = "split", NotFound, text # << >>, delimiter # << >>
  PROVE  SplitOf(text, Append(pieces, Rest))
<1>1. PICK c : CutAtFirst(c, text, pieces, Len(pieces)) /\ c[Len(pieces) + 1] = pos
  BY DEF FirstsSoFar
<1> DEFINE l == Append(pieces, Rest)
<1>2. pieces \in Seq(Seq(Chars)) /\ Rest \in Seq(Chars) /\ Len(pieces) \in Nat
  BY RestType, LenProperties DEF TypeOK
<1>3. /\ Len(l) = Len(pieces) + 1 /\ l # << >> /\ l[Len(l)] = Rest
      /\ \A i \in 1..Len(pieces) : l[i] = pieces[i]
  BY <1>2, AppendProperties
<1> HIDE DEF l
<1>4. Len(l) - 1 = Len(pieces)
  BY <1>2, <1>3
<1>5. CutAtFirst(c, text, l, Len(l) - 1)
  BY <1>1, <1>3, <1>4 DEF CutAtFirst
<1>6. NoneFrom(text, c[Len(l)]) /\ l[Len(l)] = SubSeq(text, c[Len(l)], Len(text))
  BY <1>1, <1>3 DEF NotFound, NoneFrom, Rest
<1>7. SplitAt(c, text, l)
  BY <1>3, <1>5, <1>6 DEF SplitAt
<1> QED
  BY <1>7 DEF l, SplitOf

LEMMA SameSplit ==
  ASSUME UNCHANGED <<text, list, delimiter>>
  PROVE  \A c : SplitAt(c, text, list)' <=> SplitAt(c, text, list)
<1> TAKE c
<1>1. ASSUME NEW n PROVE CutAtFirst(c, text, list, n)' <=> CutAtFirst(c, text, list, n)
  BY Zenon DEF CutAtFirst, FirstFrom, OccursIn
<1>2. NoneFrom(text, c[Len(list)])' <=> NoneFrom(text, c[Len(list)])
  BY Zenon DEF NoneFrom, OccursIn
<1> QED
  BY <1>1, <1>2, Zenon DEF SplitAt

\* The loop of split cuts at the first occurrences, the same again if it has
\* cut the text before.
LEMMA PieceAgain ==
  ASSUME TypeOK, FirstsSoFar, AgainSoFar, SplitPiece
  PROVE  FirstsSoFar' /\ AgainSoFar'
<1>1. PICK i \in pos..Len(text) :
        Found(i) /\ pieces' = Append(pieces, SubSeq(text, pos, i - 1)) /\ pos' = i + Len(delimiter)
  BY DEF SplitPiece
<1>2. call = "split" /\ UNCHANGED <<text, list, agree, delimiter>>
  BY DEF SplitPiece, program
<1>3. pieces \in Seq(Seq(Chars)) /\ Len(pieces) \in Nat /\ SubSeq(text, pos, i - 1) \in Seq(Chars)
  BY <1>1, <1>2, OccursType, LenProperties DEF TypeOK
<1>4. /\ Len(pieces') = Len(pieces) + 1 /\ pieces'[Len(pieces) + 1] = SubSeq(text, pos, i - 1)
      /\ \A m \in 1..Len(pieces) : pieces'[m] = pieces[m]
  <2>1. \A l \in Seq(Seq(Chars)), w \in Seq(Chars) :
          /\ Len(Append(l, w)) = Len(l) + 1 /\ Append(l, w)[Len(l) + 1] = w
          /\ \A m \in 1..Len(l) : Append(l, w)[m] = l[m]
    BY AppendProperties
  <2> QED
    BY <2>1, <1>1, <1>3
<1>5. \E b : CutAtFirst(b, text, pieces', Len(pieces')) /\ b[Len(pieces') + 1] = pos'
  <2>1. PICK c : CutAtFirst(c, text, pieces, Len(pieces)) /\ c[Len(pieces) + 1] = pos
    BY <1>2 DEF FirstsSoFar
  <2> DEFINE b == [m \in 1..Len(pieces) + 2 |-> IF m = Len(pieces) + 2 THEN pos' ELSE c[m]]
  <2>2. b[Len(pieces) + 2] = pos' /\ \A m \in 1..Len(pieces) + 1 : b[m] = c[m]
    BY <1>3
  <2> HIDE DEF b
  <2>3. ASSUME NEW m \in 1..Len(pieces) + 1
        PROVE  \E j \in b[m]..Len(text) :
                 /\ FirstFrom(text, b[m], j) /\ pieces'[m] = SubSeq(text, b[m], j - 1)
                 /\ b[m + 1] = j + Len(delimiter)
    <3>1. CASE m = Len(pieces) + 1
      <4>1. b[m] = pos /\ b[m + 1] = pos'
        BY <1>3, <2>1, <2>2, <3>1
      <4>2. FirstFrom(text, pos, i)
        BY <1>1 DEF Found, FirstFrom
      <4> QED
        BY <4>1, <4>2, <1>1, <1>4, <3>1
    <3>2. CASE m \in 1..Len(pieces)
      <4>1. b[m] = c[m] /\ b[m + 1] = c[m + 1]
        <5>1. m \in 1..Len(pieces) + 1 /\ m + 1 \in 1..Len(pieces) + 1
          BY <1>3, <3>2
        <5> QED
          BY <5>1, <2>2
      <4>2. pieces'[m] = pieces[m]
        BY <1>4, <3>2
      <4> QED
        BY <4>1, <4>2, <2>1, <3>2 DEF CutAtFirst
    <3> QED
      BY <3>1, <3>2, <1>3
  <2>4. b[1] = 1
    BY <1>3, <2>1, <2>2 DEF CutAtFirst
  <2>5. b[Len(pieces') + 1] = pos'
    BY <1>3, <1>4, <2>2
  <2>6. CutAtFirst(b, text, pieces', Len(pieces'))
    BY <1>4, <2>3, <2>4 DEF CutAtFirst
  <2> QED
    BY <2>5, <2>6
<1>6. ASSUME agree = "split", NEW c, SplitAt(c, text, list)
      PROVE  \E k \in 1..Len(list) : pos' = c[k] /\ pieces' = SubSeq(list, 1, k - 1)
  <2>1. PICK k \in 1..Len(list) : pos = c[k] /\ pieces = SubSeq(list, 1, k - 1)
    BY <1>2, <1>6 DEF AgainSoFar
  <2>2. /\ k + 1 \in 1..Len(list)
        /\ SubSeq(text, pos, i - 1) = list[k] /\ i + Len(delimiter) = c[k + 1]
    BY <1>1, <1>2, <1>6, <2>1, NextMember
  <2>3. pieces' = SubSeq(list, 1, (k + 1) - 1)
    <3>1. (k + 1) - 1 = k
      OBVIOUS
    <3> QED
      BY <3>1, <1>1, <2>1, <2>2, UpTo
  <2> QED
    BY <1>1, <2>2, <2>3
<1>7. FirstsSoFar'
  BY <1>2, <1>5 DEF FirstsSoFar, CutAtFirst, FirstFrom, OccursIn
<1>8. AgainSoFar'
  BY <1>2, <1>6, SameSplit DEF AgainSoFar
<1> QED
  BY <1>7, <1>8

\* The loop of replace goes from member to member.
LEMMA FoundReplaced ==
  ASSUME TypeOK, ReplaceSoFar, ReplaceFound
  PROVE  ReplaceSoFar'
<1>1. PICK i \in pos..Len(text) :
        Found(i) /\ s' = s \o SubSeq(text, pos, i - 1) \o new /\ pos' = i + Len(delimiter)
  BY DEF ReplaceFound
<1>2. call = "replace" /\ UNCHANGED <<text, list, agree, delimiter, new>>
  BY DEF ReplaceFound, program
<1>3. text # << >>
  <2>1. pos \in Nat \ {0} /\ i \in pos..Len(text)
    BY DEF TypeOK
  <2>2. Len(text) # 0
    BY <2>1
  <2> QED
    BY <2>2, EmptySeq
<1>4. ASSUME agree = "split", NEW c, SplitAt(c, text, list)
      PROVE  \E k \in 1..Len(list) : pos' = c[k] /\ s' = FollowedBy(list, new)[k - 1]
  <2>1. PICK k \in 1..Len(list) : pos = c[k] /\ s = FollowedBy(list, new)[k - 1]
    BY <1>2, <1>4 DEF ReplaceSoFar
  <2>2. /\ k + 1 \in 1..Len(list)
        /\ SubSeq(text, pos, i - 1) = list[k] /\ i + Len(delimiter) = c[k + 1]
    BY <1>1, <1>2, <1>4, <2>1, NextMember
  <2>3. FollowedBy(list, new)[k] = FollowedBy(list, new)[k - 1] \o list[k] \o new
    <3>1. Len(list) \in Nat
      BY LenProperties DEF TypeOK
    <3> QED
      BY <3>1, FollowedStep
  <2>4. (k + 1) - 1 = k
    OBVIOUS
  <2> QED
    BY <1>1, <2>1, <2>2, <2>3, <2>4
<1> QED
  BY <1>2, <1>3, <1>4, SameSplit DEF ReplaceSoFar

\* Where the loops begin.
LEMMA AgainBegins ==
  ASSUME TypeOK, IdleOK, SplitOK, call = "none",
         UNCHANGED <<text, list, agree, delimiter, pos, pieces, s>>
  PROVE  FirstsSoFar' /\ AgainSoFar' /\ ReplaceSoFar'
<1>1. pos = 1 /\ pieces = << >> /\ s = << >> /\ Len(pieces) = 0
  BY EmptySeq DEF IdleOK
<1>2. \E c : CutAtFirst(c, text, pieces, Len(pieces)) /\ c[Len(pieces) + 1] = pos
  <2> DEFINE c == [m \in 1..1 |-> 1]
  <2>1. c[1] = 1
    OBVIOUS
  <2> HIDE DEF c
  <2>2. CutAtFirst(c, text, pieces, Len(pieces)) /\ c[Len(pieces) + 1] = pos
    BY <1>1, <2>1 DEF CutAtFirst
  <2> QED
    BY <2>2
<1>3. list \in Seq(Seq(Chars)) /\ Len(list) \in Nat
  BY LenProperties DEF TypeOK
<1>4. ASSUME NEW c, SplitAt(c, text, list)
      PROVE  /\ 1 \in 1..Len(list) /\ pos = c[1]
             /\ pieces = SubSeq(list, 1, 1 - 1) /\ \A n : s = FollowedBy(list, n)[1 - 1]
  <2>1. list # << >> /\ c[1] = 1
    BY <1>4 DEF SplitAt, CutAtFirst
  <2>2. 1 \in 1..Len(list)
    BY <1>3, <2>1, EmptySeq
  <2>3. SubSeq(list, 1, 1 - 1) = << >>
    BY <1>3, SubSeqEmpty
  <2>4. \A n : FollowedBy(list, n)[0] = << >>
    BY <1>3, FollowedStep
  <2> QED
    BY <1>1, <2>1, <2>2, <2>3, <2>4
<1>5. FirstsSoFar'
  BY <1>2 DEF FirstsSoFar, CutAtFirst, FirstFrom, OccursIn
<1>6. AgainSoFar'
  BY <1>4, SameSplit DEF AgainSoFar
<1>7. ReplaceSoFar'
  BY <1>1, <1>4, SameSplit DEF ReplaceSoFar
<1> QED
  BY <1>5, <1>6, <1>7

LEMMA SameSplitOf ==
  ASSUME SplitOK, agree' = "split" => agree = "split" /\ UNCHANGED <<text, list, delimiter>>
  PROVE  SplitOK'
<1> SUFFICES ASSUME agree' = "split" PROVE SplitOf(text, list)'
  BY DEF SplitOK
<1>1. agree = "split" /\ UNCHANGED <<text, list, delimiter>> /\ SplitOf(text, list)
  BY DEF SplitOK
<1> QED
  BY <1>1, SameSplit, Zenon DEF SplitOf

LEMMA InitAgain == Init => AgainInv
BY DEF Init, AgainInv, FirstsSoFar, SplitOK, AgainSoFar, ReplaceSoFar

LEMMA NextAgain == IInv /\ AgainInv /\ [Next]_vars => AgainInv'
<1> SUFFICES ASSUME IInv, AgainInv, [Next]_vars PROVE AgainInv'
  OBVIOUS
<1>a. TypeOK /\ IdleOK /\ JoinSoFar /\ AgreeOK
  BY DEF IInv
<1>b. FirstsSoFar /\ SplitOK /\ AgainSoFar /\ ReplaceSoFar
  BY DEF AgainInv
<1>1. ASSUME call' \notin {"split", "replace"} PROVE FirstsSoFar' /\ AgainSoFar' /\ ReplaceSoFar'
  BY <1>1 DEF FirstsSoFar, AgainSoFar, ReplaceSoFar
<1>2. CASE (\E p \in {"all", "nonempty"} : Split(p)) \/ Join \/ (\E n \in News : Replace(n))
  <2>1. call = "none" /\ UNCHANGED <<text, list, agree, delimiter, pos, pieces, s>>
    BY <1>2 DEF Split, Join, Replace, Call, program, loop
  <2> QED
    BY <2>1, <1>a, <1>b, AgainBegins, SameSplitOf DEF AgainInv
<1>3. CASE SplitNothing
  <2>1. /\ call' = "none" /\ delimiter' = delimiter /\ text' = text
        /\ list' = (IF text = << >> THEN << >> ELSE <<text>>)
        /\ text = << >> \/ delimiter = << >>
    BY <1>3 DEF SplitNothing, Return
  <2>2. SplitOK'
    BY <2>1 DEF SplitOK, SplitOf
  <2> QED
    BY <2>1, <2>2, <1>1 DEF AgainInv
<1>4. CASE SplitPiece
  <2>1. call' = "split" /\ UNCHANGED <<text, list, agree, delimiter>>
    BY <1>4 DEF SplitPiece, program
  <2>2. ReplaceSoFar'
    BY <2>1 DEF ReplaceSoFar
  <2> QED
    BY <2>1, <2>2, <1>4, <1>a, <1>b, PieceAgain, SameSplitOf DEF AgainInv
<1>5. CASE SplitRest
  <2>1. /\ call = "split" /\ text # << >> /\ delimiter # << >> /\ NotFound
        /\ call' = "none" /\ UNCHANGED <<text, delimiter>>
        /\ agree' = "split" => list' = Append(pieces, Rest)
    BY <1>5 DEF SplitRest, Return
  <2>2. SplitOf(text, Append(pieces, Rest))
    BY <2>1, <1>a, <1>b, SplitMade
  <2>3. SplitOK'
    <3> DEFINE l == Append(pieces, Rest)
    <3>1. SplitOf(text, l) /\ (agree' = "split" => list' = l)
      BY <2>1, <2>2
    <3> HIDE DEF l
    <3>2. ASSUME agree' = "split" PROVE SplitOf(text, list)'
      <4>1. PICK c : SplitAt(c, text, l)
        BY <2>1, <3>1, <3>2 DEF SplitOf
      <4>2. SplitAt(c, text, list)'
        <5>1. list' = l
          BY <3>1, <3>2
        <5>2. CutAtFirst(c, text, list, Len(list) - 1)'
          BY <2>1, <4>1, <5>1, Zenon DEF SplitAt, CutAtFirst, FirstFrom, OccursIn
        <5>3. NoneFrom(text, c[Len(list)])'
          BY <2>1, <4>1, <5>1, Zenon DEF SplitAt, NoneFrom, OccursIn
        <5> QED
          BY <2>1, <4>1, <5>1, <5>2, <5>3, Zenon DEF SplitAt
      <4> QED
        BY <2>1, <4>2, Zenon DEF SplitOf
    <3> QED
      BY <3>2 DEF SplitOK
  <2> QED
    BY <2>1, <2>3, <1>1 DEF AgainInv
<1>6. CASE JoinPiece
  <2>1. call' = "join" /\ UNCHANGED <<text, list, agree, delimiter>>
    BY <1>6 DEF JoinPiece, program
  <2> QED
    BY <2>1, <1>1, <1>b, SameSplitOf DEF AgainInv
<1>7. CASE JoinEnds
  <2>1. /\ call' = "none" /\ UNCHANGED <<list, delimiter>>
        /\ agree' = "split" => agree = "split"
    BY <1>7 DEF JoinEnds, Return
  <2>2. agree = "split" => text' = text
    BY <1>7, <1>a, JoinReturns
  <2> QED
    BY <2>1, <2>2, <1>1, <1>b, SameSplitOf DEF AgainInv
<1>8. CASE ReplaceNothing \/ ReplaceRest
  <2>1. call' = "none" /\ agree' = "no"
    BY <1>8 DEF ReplaceNothing, ReplaceRest, Return
  <2> QED
    BY <2>1, <1>1 DEF AgainInv, SplitOK
<1>9. CASE ReplaceFound
  <2>1. call' = "replace" /\ UNCHANGED <<text, list, agree, delimiter>>
    BY <1>9 DEF ReplaceFound, program
  <2>2. FirstsSoFar' /\ AgainSoFar'
    BY <2>1 DEF FirstsSoFar, AgainSoFar
  <2> QED
    BY <2>1, <2>2, <1>9, <1>a, <1>b, FoundReplaced, SameSplitOf DEF AgainInv
<1>10. CASE Trim
  <2>1. /\ call' = "none" /\ UNCHANGED <<list, delimiter>>
        /\ agree' = "split" => agree = "split" /\ text' = text
    BY <1>10 DEF Trim, Return
  <2> QED
    BY <2>1, <1>1, <1>b, SameSplitOf DEF AgainInv
<1>11. CASE UNCHANGED vars
  <2>1. UNCHANGED <<text, list, agree, delimiter, call, new, pos, pieces, s>>
    BY <1>11 DEF vars, program, loop
  <2>2. FirstsSoFar'
    BY <2>1, <1>b, Zenon DEF FirstsSoFar, CutAtFirst, FirstFrom, OccursIn
  <2>3. AgainSoFar'
    BY <2>1, <1>b, SameSplit DEF AgainSoFar
  <2>4. ReplaceSoFar'
    BY <2>1, <1>b, SameSplit DEF ReplaceSoFar
  <2> QED
    BY <2>1, <2>2, <2>3, <2>4, <1>b, SameSplitOf DEF AgainInv
<1> QED
  BY <1>2, <1>3, <1>4, <1>5, <1>6, <1>7, <1>8, <1>9, <1>10, <1>11 DEF Next

\* A text that was split is split the same again, whatever the program has
\* done in between that left both.
THEOREM AgainInvariance == Spec => []AgainInv
BY InitAgain, NextAgain, Invariance, PTL DEF Spec

\* Any list that a split has made is made again by the next one, but for an
\* empty piece at its end, which split_if may leave out.
THEOREM SplitAgain == Spec => SameSteps
<1> DEFINE Same == Returns("split") /\ agree = "split" =>
                     \/ list' = list
                     \/ pred = "nonempty" /\ list = Append(list', << >>)
<1>1. IInv /\ AgainInv /\ [Next]_vars => [Same]_vars
  <2> SUFFICES ASSUME IInv, AgainInv, [Next]_vars, Returns("split"), agree = "split",
                      ~(UNCHANGED vars)
               PROVE  \/ list' = list
                      \/ pred = "nonempty" /\ list = Append(list', << >>)
    OBVIOUS
  <2>1. TypeOK /\ AgainSoFar /\ call = "split" /\ SplitOf(text, list)
    BY DEF IInv, AgainInv, SplitOK, Returns
  <2>2. SplitNothing \/ SplitRest
    BY DEF Returns, Next, Split, SplitNothing, SplitPiece, SplitRest, Join, JoinPiece, JoinEnds, Replace,
           ReplaceNothing, ReplaceFound, ReplaceRest, Trim, Call, vars
  <2>3. CASE SplitNothing
    BY <2>1, <2>3 DEF SplitNothing, Return, SplitOf
  <2>4. CASE SplitRest
    <3>1. /\ text # << >> /\ delimiter # << >> /\ NotFound
          /\ list' = (IF Keeps(Rest) THEN Append(pieces, Rest) ELSE pieces)
      BY <2>4 DEF SplitRest, Return
    <3>2. PICK c : SplitAt(c, text, list)
      BY <2>1, <3>1 DEF SplitOf
    <3>3. PICK k \in 1..Len(list) : pos = c[k] /\ pieces = SubSeq(list, 1, k - 1)
      BY <2>1, <3>2 DEF AgainSoFar
    <3>4. k = Len(list) /\ Rest = list[k]
      BY <2>1, <3>1, <3>2, <3>3, NextMember
    <3>5. Append(pieces, Rest) = list
      <4>1. list \in Seq(Seq(Chars))
        BY <2>1 DEF TypeOK
      <4> QED
        BY <4>1, <2>1, <3>3, <3>4, UpTo, SubSeqFull
    <3>6. ~Keeps(Rest) => pred = "nonempty" /\ Rest = << >>
      BY <2>1 DEF Keeps, TypeOK
    <3> QED
      BY <3>1, <3>5, <3>6
  <2> QED
    BY <2>2, <2>3, <2>4
<1> QED
  BY <1>1, Invariance, AgainInvariance, PTL DEF Spec, SameSteps

\* Any text, its delimiters replaced, is the pieces of its split with the new
\* ones in between.
THEOREM ReplaceJoinsPieces == Spec => ReplaceIsSplitAndJoin
<1> DEFINE Joins == Returns("replace") /\ agree = "split" /\ delimiter # << >> =>
                      text' = IF list = << >> THEN << >> ELSE Followed[Len(list) - 1] \o Last(list)
<1>0. Followed = FollowedBy(list, new)
  BY DEF Followed, FollowedBy
<1>1. IInv /\ AgainInv /\ [Next]_vars => [Joins]_vars
  <2> SUFFICES ASSUME IInv, AgainInv, [Next]_vars, Returns("replace"), agree = "split",
                      delimiter # << >>, ~(UNCHANGED vars)
               PROVE  text' = IF list = << >> THEN << >>
                              ELSE Followed[Len(list) - 1] \o Last(list)
    OBVIOUS
  <2>1. TypeOK /\ ReplaceSoFar /\ call = "replace" /\ SplitOf(text, list)
    BY DEF IInv, AgainInv, SplitOK, Returns
  <2>2. ReplaceRest
    BY DEF Returns, Next, Split, SplitNothing, SplitPiece, SplitRest, Join, JoinPiece, JoinEnds, Replace,
           ReplaceNothing, ReplaceFound, ReplaceRest, Trim, Call, vars
  <2>3. NotFound /\ text' = s \o Rest
    BY <2>2 DEF ReplaceRest, Return
  <2>4. CASE text = << >>
    <3>1. list = << >> /\ s = << >>
      BY <2>1, <2>4 DEF SplitOf, ReplaceSoFar
    <3>2. Len(text) = 0 /\ pos \in Nat \ {0} /\ text \in Seq(Chars)
      BY <2>1, <2>4, EmptySeq DEF TypeOK
    <3>3. Rest = << >>
      BY <3>2, SubSeqEmpty DEF Rest
    <3>4. << >> \o << >> = << >>
      BY EmptySeq, ConcatEmptySeq
    <3> QED
      BY <2>3, <3>1, <3>3, <3>4
  <2>5. CASE text # << >>
    <3>1. PICK c : SplitAt(c, text, list)
      BY <2>1, <2>5 DEF SplitOf
    <3>2. PICK k \in 1..Len(list) : pos = c[k] /\ s = FollowedBy(list, new)[k - 1]
      BY <2>1, <3>1 DEF ReplaceSoFar
    <3>3. k = Len(list) /\ Rest = list[k] /\ list # << >>
      BY <2>1, <2>3, <3>1, <3>2, NextMember DEF SplitAt
    <3> QED
      BY <1>0, <2>3, <3>2, <3>3 DEF Last
  <2> QED
    BY <2>4, <2>5
<1> QED
  BY <1>1, Invariance, AgainInvariance, PTL DEF Spec, ReplaceIsSplitAndJoin

-----------------------------------------------------------------------------
(* What a split returns: the one list that is the text, cut at the first    *)
(* occurrences, and none of its members contains the delimiter.             *)

\* Whatever has been done to text and list, a list that a split has made of
\* the text is the text, cut at the first occurrence of the delimiter, again
\* at the first behind that, and so on to the end.
THEOREM SplitCutsAtFirst == Spec => []SplitOK
<1>1. AgainInv => SplitOK
  BY DEF AgainInv
<1> QED
  BY <1>1, AgainInvariance, PTL

\* There is one first occurrence.
LEMMA OneFirst ==
  ASSUME NEW t, Len(t) \in Nat, NEW a \in Nat, NEW j \in a..Len(t), NEW h \in a..Len(t),
         FirstFrom(t, a, j), FirstFrom(t, a, h)
  PROVE  j = h
<1>1. j \in Nat /\ h \in Nat
  OBVIOUS
<1>2. OccursIn(t, delimiter, j) /\ OccursIn(t, delimiter, h)
  BY DEF FirstFrom
<1>3. j \notin a..h - 1 /\ h \notin a..j - 1
  BY <1>2 DEF FirstFrom
<1> QED BY <1>1, <1>3

\* There is no more than one such list: SplitOf says all of what split returns.
THEOREM SplitIsUnique ==
  ASSUME delimiter \in Seq(Chars), NEW t \in Seq(Chars),
         NEW l \in Seq(Seq(Chars)), NEW m \in Seq(Seq(Chars)), SplitOf(t, l), SplitOf(t, m)
  PROVE  l = m
<1>1. CASE t = << >> \/ delimiter = << >>
  BY <1>1 DEF SplitOf
<1>2. CASE t # << >> /\ delimiter # << >>
  <2>1. PICK c : SplitAt(c, t, l)
    BY <1>2 DEF SplitOf
  <2>2. PICK d : SplitAt(d, t, m)
    BY <1>2 DEF SplitOf
  <2>3. Len(l) \in Nat \ {0} /\ Len(m) \in Nat \ {0} /\ Len(t) \in Nat /\ Len(delimiter) \in Nat
    BY <2>1, <2>2, LenProperties, EmptySeq DEF SplitAt
  <2> DEFINE L == Len(l)
             M == Len(m)
  <2>4. L \in Nat \ {0} /\ M \in Nat \ {0}
    BY <2>3
  <2>5. /\ c[1] = 1 /\ NoneFrom(t, c[L]) /\ l[L] = SubSeq(t, c[L], Len(t))
        /\ d[1] = 1 /\ NoneFrom(t, d[M]) /\ m[M] = SubSeq(t, d[M], Len(t))
    BY <2>1, <2>2 DEF SplitAt, CutAtFirst
  <2>6. ASSUME NEW n \in 1..L - 1
        PROVE  \E j \in c[n]..Len(t) :
                 FirstFrom(t, c[n], j) /\ l[n] = SubSeq(t, c[n], j - 1) /\ c[n + 1] = j + Len(delimiter)
    BY <2>1 DEF SplitAt, CutAtFirst
  <2>7. ASSUME NEW n \in 1..M - 1
        PROVE  \E h \in d[n]..Len(t) :
                 FirstFrom(t, d[n], h) /\ m[n] = SubSeq(t, d[n], h - 1) /\ d[n + 1] = h + Len(delimiter)
    BY <2>2 DEF SplitAt, CutAtFirst
  <2> HIDE DEF L, M
  \* From the same place on both have the same piece and the same next place.
  <2>8. ASSUME NEW n \in 1..L - 1, n \in 1..M - 1, c[n] \in Nat, c[n] = d[n]
        PROVE  l[n] = m[n] /\ c[n + 1] = d[n + 1] /\ c[n + 1] \in Nat
    <3>1. PICK j \in c[n]..Len(t) :
            FirstFrom(t, c[n], j) /\ l[n] = SubSeq(t, c[n], j - 1) /\ c[n + 1] = j + Len(delimiter)
      BY <2>6
    <3>2. PICK h \in c[n]..Len(t) :
            FirstFrom(t, c[n], h) /\ m[n] = SubSeq(t, c[n], h - 1) /\ d[n + 1] = h + Len(delimiter)
      BY <2>7, <2>8
    <3>3. j = h
      BY <2>3, <2>8, <3>1, <3>2, OneFirst
    <3>4. j \in Nat
      BY <2>3, <2>8
    <3>5. j + Len(delimiter) \in Nat
      BY <2>3, <3>4
    <3> QED BY <3>1, <3>2, <3>3, <3>5
  <2> DEFINE Same(n) == c[n] = d[n] /\ c[n] \in Nat /\ \A i \in 1..n - 1 : l[i] = m[i]
             S == {k \in Nat : k + 1 \in 1..L /\ k + 1 \in 1..M => Same(k + 1)}
  <2>9. 0 \in S
    BY <2>5
  <2>10. ASSUME NEW k \in Nat, k + 1 \in 1..L /\ k + 1 \in 1..M => Same(k + 1),
                (k + 1) + 1 \in 1..L, (k + 1) + 1 \in 1..M
         PROVE  Same((k + 1) + 1)
    <3> HIDE DEF Same
    <3>1. k + 1 \in 1..L - 1 /\ k + 1 \in 1..M - 1 /\ k + 1 \in 1..L /\ k + 1 \in 1..M
      BY <2>4, <2>10
    <3>2. Same(k + 1)
      BY <2>10, <3>1
    <3> DEFINE n == k + 1
    <3>3. n \in Nat /\ n \in 1..L - 1 /\ n \in 1..M - 1
      BY <3>1
    <3>4. Same(n)
      BY <3>2
    <3> HIDE DEF n
    <3>5. c[n] = d[n] /\ c[n] \in Nat /\ \A i \in 1..n - 1 : l[i] = m[i]
      BY <3>4 DEF Same
    <3>6. l[n] = m[n] /\ c[n + 1] = d[n + 1] /\ c[n + 1] \in Nat
      BY <2>8, <3>3, <3>5
    <3>7. ASSUME NEW i \in 1..(n + 1) - 1 PROVE l[i] = m[i]
      <4>1. i \in 1..n - 1 \/ i = n
        BY <3>3
      <4> QED BY <4>1, <3>5, <3>6
    <3>8. Same(n + 1)
      BY <3>6, <3>7 DEF Same
    <3> QED BY <3>8 DEF n
  <2> HIDE DEF Same
  <2>11. ASSUME NEW k \in S PROVE k + 1 \in S
    <3>1. k \in Nat /\ (k + 1 \in 1..L /\ k + 1 \in 1..M => Same(k + 1)) /\ k + 1 \in Nat
      OBVIOUS
    <3>2. (k + 1) + 1 \in 1..L /\ (k + 1) + 1 \in 1..M => Same((k + 1) + 1)
      BY <2>10, <3>1
    <3> QED BY <3>1, <3>2
  <2>12. S = Nat
    <3>1. S \subseteq Nat
      OBVIOUS
    <3> HIDE DEF S
    <3> QED BY <2>9, <2>11, <3>1, Induction
  <2>13. ASSUME NEW n \in 1..L, n \in 1..M PROVE Same(n)
    <3>1. n - 1 \in Nat /\ (n - 1) + 1 = n
      OBVIOUS
    <3>2. n - 1 \in S
      BY <2>12, <3>1
    <3>3. (n - 1) + 1 \in 1..L /\ (n - 1) + 1 \in 1..M => Same((n - 1) + 1)
      BY <3>2
    <3> QED BY <2>13, <3>1, <3>3
  <2> HIDE DEF S
  <2>14. ~(L < M)
    <3> SUFFICES ASSUME L < M PROVE FALSE
      OBVIOUS
    <3>1. L \in 1..L /\ L \in 1..M - 1 /\ L \in 1..M
      BY <2>4
    <3>2. PICK h \in d[L]..Len(t) : FirstFrom(t, d[L], h)
      BY <2>7, <3>1
    <3>3. c[L] = d[L]
      BY <2>13, <3>1 DEF Same
    <3> QED BY <2>5, <3>2, <3>3 DEF NoneFrom, FirstFrom
  <2>15. ~(M < L)
    <3> SUFFICES ASSUME M < L PROVE FALSE
      OBVIOUS
    <3>1. M \in 1..L /\ M \in 1..L - 1 /\ M \in 1..M
      BY <2>4
    <3>2. PICK j \in c[M]..Len(t) : FirstFrom(t, c[M], j)
      BY <2>6, <3>1
    <3>3. c[M] = d[M]
      BY <2>13, <3>1 DEF Same
    <3> QED BY <2>5, <3>2, <3>3 DEF NoneFrom, FirstFrom
  <2>16. L = M /\ L \in 1..L
    BY <2>4, <2>14, <2>15
  <2>17. c[L] = d[L] /\ \A i \in 1..L - 1 : l[i] = m[i]
    BY <2>13, <2>16 DEF Same
  <2>18. l[L] = m[L]
    BY <2>5, <2>16, <2>17
  <2>19. ASSUME NEW i \in 1..L PROVE l[i] = m[i]
    <3>1. i \in 1..L - 1 \/ i = L
      BY <2>4
    <3> QED BY <3>1, <2>17, <2>18
  <2> QED BY <2>16, <2>19, SeqEqual DEF L, M
<1> QED BY <1>1, <1>2

\* A part of a text in which no occurrence begins does not contain one.
LEMMA PartClean ==
  ASSUME NEW t \in Seq(Chars), delimiter \in Seq(Chars),
         NEW a \in Nat \ {0}, NEW b \in Nat, b <= Len(t),
         \A k \in a..b : ~OccursIn(t, delimiter, k)
  PROVE  Clean(SubSeq(t, a, b))
<1> DEFINE z == SubSeq(t, a, b)
<1>1. Len(t) \in Nat /\ Len(delimiter) \in Nat
  BY LenProperties
<1>2. CASE b < a
  <2>1. Len(z) = 0
    BY <1>2, <1>1, SubSeqEmpty, EmptySeq
  <2> QED BY <2>1 DEF Clean
<1>3. CASE a <= b
  <2>1. \A k \in a..b : t[k] \in Chars
    BY <1>1, ElementOfSeq
  <2>2. /\ z \in Seq(Chars) /\ Len(z) = b - a + 1
        /\ \A x \in 1..b - a + 1 : z[x] = t[a + x - 1]
    BY <1>1, <1>3, <2>1, SubSeqProperties
  <2> HIDE DEF z
  <2>3. ASSUME NEW i \in 1..Len(z), OccursIn(z, delimiter, i) PROVE FALSE
    <3>1. i \in Nat \ {0} /\ i + Len(delimiter) - 1 <= Len(z)
      BY <1>1, <2>2, <2>3 DEF OccursIn
    <3>2. \A x \in 1..Len(delimiter) : z[i + x - 1] = delimiter[x]
      <4>1. OccursIn(z, delimiter, i) <=> \A x \in 1..Len(delimiter) : z[i + x - 1] = delimiter[x]
        <5>1. z \in Seq(Chars)
          BY <2>2
        <5> QED BY <5>1, <3>1, OccursAt
      <4> QED BY <2>3, <4>1
    <3>3. /\ a + i - 1 \in a..b /\ a + i - 1 \in Nat \ {0}
          /\ (a + i - 1) + Len(delimiter) - 1 <= Len(t)
      BY <1>1, <1>3, <2>2, <3>1
    <3>4. ASSUME NEW x \in 1..Len(delimiter)
          PROVE  t[(a + i - 1) + x - 1] = delimiter[x]
      <4>1. i + x - 1 \in 1..b - a + 1 /\ a + (i + x - 1) - 1 = (a + i - 1) + x - 1
        BY <1>1, <1>3, <2>2, <3>1
      <4>2. z[i + x - 1] = t[a + (i + x - 1) - 1]
        BY <2>2, <4>1
      <4> QED BY <3>2, <4>1, <4>2
    <3>5. OccursIn(t, delimiter, a + i - 1)
      BY <3>3, <3>4, OccursAt
    <3> QED BY <3>3, <3>5
  <2> QED BY <2>3 DEF Clean, z
<1> QED BY <1>1, <1>2, <1>3

\* No piece that split returns contains the delimiter, not even one that begins
\* in it and overlaps itself.
PiecesClean ==
  agree = "split" /\ text # << >> /\ delimiter # << >> =>
    \A i \in 1..Len(list) : Clean(list[i])

\* It holds in every state in which text and list have come from a split, also
\* when that was joined again or trimmed without a change.
THEOREM PiecesAreClean == Spec => []PiecesClean
<1>1. TypeOK /\ SplitOK => PiecesClean
  <2> SUFFICES ASSUME TypeOK, SplitOK, agree = "split", text # << >>, delimiter # << >>,
                      NEW i \in 1..Len(list)
               PROVE  Clean(list[i])
    BY DEF PiecesClean
  <2>1. PICK c : SplitAt(c, text, list)
    BY DEF SplitOK, SplitOf
  <2>2. /\ text \in Seq(Chars) /\ delimiter \in Seq(Chars)
        /\ Len(text) \in Nat /\ Len(delimiter) \in Nat /\ Len(list) \in Nat
    BY DelimiterType, LenProperties DEF TypeOK
  <2>3. /\ c[1] = 1
        /\ \A n \in 1..Len(list) - 1 : \E j \in c[n]..Len(text) :
             FirstFrom(text, c[n], j) /\ list[n] = SubSeq(text, c[n], j - 1)
             /\ c[n + 1] = j + Len(delimiter)
        /\ NoneFrom(text, c[Len(list)]) /\ list[Len(list)] = SubSeq(text, c[Len(list)], Len(text))
    BY <2>1 DEF SplitAt, CutAtFirst
  <2>4. \A k \in Nat : k + 1 <= Len(list) => c[k + 1] \in Nat \ {0}
    <3> DEFINE S == {k \in Nat : k + 1 <= Len(list) => c[k + 1] \in Nat \ {0}}
    <3>1. 0 \in S
      BY <2>3
    <3>2. ASSUME NEW k \in S PROVE k + 1 \in S
      <4>0. k \in Nat
        OBVIOUS
      <4>1. k + 1 <= Len(list) => c[k + 1] \in Nat \ {0}
        OBVIOUS
      <4>2. ASSUME (k + 1) + 1 <= Len(list) PROVE c[(k + 1) + 1] \in Nat \ {0}
        <5> HIDE DEF S
        <5>0. Len(list) \in Nat /\ k \in Nat
          BY <2>2, <4>0
        <5>1. k + 1 \in 1..Len(list) - 1 /\ k + 1 <= Len(list)
          BY <5>0, <4>2
        <5>2. c[k + 1] \in Nat \ {0}
          BY <4>1, <5>1
        <5>3. PICK j \in c[k + 1]..Len(text) : c[(k + 1) + 1] = j + Len(delimiter)
          BY <2>3, <5>1
        <5> QED BY <2>2, <5>2, <5>3
      <4> QED BY <4>0, <4>2
    <3>3. S = Nat
      <4>1. S \subseteq Nat
        OBVIOUS
      <4> HIDE DEF S
      <4> QED BY <3>1, <3>2, <4>1, Induction
    <3> QED BY <3>3
  <2>5. i - 1 \in Nat /\ (i - 1) + 1 = i /\ i <= Len(list)
    BY <2>2
  <2>6. c[i] \in Nat \ {0}
    BY <2>4, <2>5
  <2>7. CASE i = Len(list)
    <3>1. \A k \in c[i]..Len(text) : ~OccursIn(text, delimiter, k)
      BY <2>3, <2>7 DEF NoneFrom
    <3>2. list[i] = SubSeq(text, c[i], Len(text)) /\ Len(text) <= Len(text)
      BY <2>2, <2>3, <2>7
    <3> QED BY <2>2, <2>6, <3>1, <3>2, PartClean
  <2>8. CASE i # Len(list)
    <3>1. i \in 1..Len(list) - 1
      BY <2>2, <2>8
    <3>2. PICK j \in c[i]..Len(text) :
            FirstFrom(text, c[i], j) /\ list[i] = SubSeq(text, c[i], j - 1)
      BY <2>3, <3>1
    <3>3. j - 1 \in Nat /\ j - 1 <= Len(text)
      BY <2>2, <2>6
    <3>4. \A k \in c[i]..j - 1 : ~OccursIn(text, delimiter, k)
      BY <3>2 DEF FirstFrom
    <3> QED BY <2>2, <2>6, <3>2, <3>3, <3>4, PartClean
  <2> QED BY <2>7, <2>8
<1> QED
  BY <1>1, TypeCorrect, SplitCutsAtFirst, PTL
=============================================================================
