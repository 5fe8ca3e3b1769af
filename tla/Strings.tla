------------------------------ MODULE Strings ------------------------------
(***************************************************************************)
(* string/string.hpp: split_if (split), join, replace and trim, applied by *)
(* a program to a string and a list of strings, in any order, with one     *)
(* delimiter.  Each turn of a loop is a step.  Positions begin at 1.       *)
(***************************************************************************)
EXTENDS Integers, SequencesExt

CONSTANTS
  Chars,
  Space,       \* those of which isspace is true
  Texts,       \* the strings a program may begin with
  Lists,       \* the lists it may begin with
  Delimiters,  \* also the strings that replace looks for
  News         \* the strings that replace puts in their place

ASSUME CharsAssumption ==
  /\ Space \subseteq Chars
  /\ Texts \cup Delimiters \cup News \subseteq Seq(Chars)
  /\ Lists \subseteq Seq(Seq(Chars))

VARIABLES
  text, list,  \* the program's string and list
  delimiter,
  call,        \* the function that runs, or "none"
  pred,        \* which last piece split_if keeps: "all" or "nonempty"
  new,         \* newSubstr
  pos,         \* last in split_if, the iterator in join, start in replace
  pieces,      \* vRet
  s,           \* the string that join and replace build
  agree        \* history: "split", the list is the text, split; "joined", the
               \* text is the list, joined; or "no"

program == <<text, list, agree>>
loop == <<pos, pieces, s>>
vars == <<program, delimiter, call, pred, new, loop>>

OccursIn(t, d, i) == i + Len(d) - 1 <= Len(t) /\ SubSeq(t, i, i + Len(d) - 1) = d

\* What find(delimiter, pos) returns, and when it finds nothing.
Found(i) == /\ i \in pos..Len(text) /\ OccursIn(text, delimiter, i)
            /\ \A j \in pos..i - 1 : ~OccursIn(text, delimiter, j)
NotFound == \A i \in pos..Len(text) : ~OccursIn(text, delimiter, i)

Rest == SubSeq(text, pos, Len(text))

-----------------------------------------------------------------------------
Init ==
  /\ \/ text \in Texts /\ list = << >>
     \/ text = << >> /\ list \in Lists
  /\ delimiter \in Delimiters
  /\ call = "none" /\ pred = "all" /\ new = << >>
  /\ pos = 1 /\ pieces = << >> /\ s = << >>
  /\ agree = "no"

Return(t, l, a) ==
  /\ text' = t /\ list' = l /\ agree' = a
  /\ call' = "none" /\ pred' = "all" /\ new' = << >>
  /\ pos' = 1 /\ pieces' = << >> /\ s' = << >>
  /\ UNCHANGED delimiter

Call(function) ==
  /\ call = "none" /\ call' = function
  /\ UNCHANGED <<program, delimiter, loop>>

-----------------------------------------------------------------------------
(* split_if, and split, whose predicate is always true. *)

Split(p) == Call("split") /\ pred' = p /\ UNCHANGED new

SplitNothing ==
  /\ call = "split" /\ (text = << >> \/ delimiter = << >>)
  /\ Return(text, IF text = << >> THEN << >> ELSE <<text>>, "split")

\* Mutant: empty pieces are left out.
SplitPiece_NonEmpty ==
  /\ call = "split" /\ text # << >> /\ delimiter # << >>
  /\ \E i \in pos..Len(text) :
       /\ Found(i)
       /\ pieces' = IF i = pos THEN pieces ELSE Append(pieces, SubSeq(text, pos, i - 1))
       /\ pos' = i + Len(delimiter)
  /\ UNCHANGED <<program, delimiter, call, pred, new, s>>

SplitPiece ==
  /\ call = "split" /\ text # << >> /\ delimiter # << >>
  /\ \E i \in pos..Len(text) :
       /\ Found(i)
       /\ pieces' = Append(pieces, SubSeq(text, pos, i - 1))
       /\ pos' = i + Len(delimiter)
  /\ UNCHANGED <<program, delimiter, call, pred, new, s>>

Keeps(piece) == pred = "all" \/ piece # << >>

\* Mutant: what follows the last delimiter is kept only if there is something.
SplitRest_Short ==
  /\ call = "split" /\ text # << >> /\ delimiter # << >> /\ NotFound
  /\ Return(text, IF Rest # << >> THEN Append(pieces, Rest) ELSE pieces, "split")

\* Mutant: an empty predicate drops the rest altogether.
SplitRest_Drops ==
  /\ call = "split" /\ text # << >> /\ delimiter # << >> /\ NotFound
  /\ Return(text, IF pred = "all" THEN Append(pieces, Rest) ELSE pieces,
            IF Keeps(Rest) THEN "split" ELSE "no")

\* The rest, which may be empty; only here the predicate is asked.
SplitRest ==
  /\ call = "split" /\ text # << >> /\ delimiter # << >> /\ NotFound
  /\ Return(text, IF Keeps(Rest) THEN Append(pieces, Rest) ELSE pieces,
            IF Keeps(Rest) THEN "split" ELSE "no")

-----------------------------------------------------------------------------
(* join *)

Join == Call("join") /\ UNCHANGED <<pred, new>>

JoinPiece ==
  /\ call = "join" /\ pos <= Len(list)
  /\ s' = s \o list[pos] \o delimiter
  /\ pos' = pos + 1
  /\ UNCHANGED <<program, delimiter, call, pred, new, pieces>>

JoinEnds ==
  /\ call = "join" /\ pos > Len(list)
  /\ Return(IF list # << >> /\ s # << >> THEN SubSeq(s, 1, Len(s) - Len(delimiter)) ELSE s,
            list, IF agree = "split" THEN "split" ELSE "joined")

-----------------------------------------------------------------------------
(* replace *)

\* (Texts bounds what can grow with each call.)
Replace(n) == text \in Texts /\ Call("replace") /\ new' = n /\ UNCHANGED pred

ReplaceNothing ==
  /\ call = "replace" /\ delimiter = << >>
  /\ Return(text, list, "no")

ReplaceFound ==
  /\ call = "replace" /\ delimiter # << >>
  /\ \E i \in pos..Len(text) :
       /\ Found(i)
       /\ s' = s \o SubSeq(text, pos, i - 1) \o new
       /\ pos' = i + Len(delimiter)
  /\ UNCHANGED <<program, delimiter, call, pred, new, pieces>>

\* Mutant: what follows the last occurrence is lost.
ReplaceRest_Lost ==
  /\ call = "replace" /\ delimiter # << >> /\ NotFound
  /\ Return(s, list, "no")

ReplaceRest ==
  /\ call = "replace" /\ delimiter # << >> /\ NotFound
  /\ Return(s \o Rest, list, "no")

-----------------------------------------------------------------------------
(* trim, one step: nothing in between can be noticed. *)

ltrim(t) == SubSeq(t, 1 + Cardinality({i \in 1..Len(t) : \A j \in 1..i : t[j] \in Space}), Len(t))
rtrim(t) == SubSeq(t, 1, Len(t) - Cardinality({i \in 1..Len(t) : \A j \in i..Len(t) : t[j] \in Space}))
trim(t) == ltrim(rtrim(t))

Trim ==
  /\ call = "none"
  /\ Return(trim(text), list, IF trim(text) = text THEN agree ELSE "no")

Next ==
  \/ \E p \in {"all", "nonempty"} : Split(p)
  \/ SplitNothing \/ SplitPiece \/ SplitRest
  \/ Join \/ JoinPiece \/ JoinEnds
  \/ \E n \in News : Replace(n)
  \/ ReplaceNothing \/ ReplaceFound \/ ReplaceRest
  \/ Trim

Spec == Init /\ [][Next]_vars

-----------------------------------------------------------------------------
(* Properties. *)

\* Every variable has its type; the loops stay inside what they go over.
TypeOK ==
  /\ text \in Seq(Chars) /\ list \in Seq(Seq(Chars))
  /\ delimiter \in Delimiters
  /\ call \in {"none", "split", "join", "replace"}
  /\ pred \in {"all", "nonempty"} /\ new \in Seq(Chars)
  /\ pieces \in Seq(Seq(Chars)) /\ s \in Seq(Chars)
  /\ pos \in 1..(IF call = "join" THEN Len(list) ELSE Len(text)) + 1
  /\ agree \in {"no", "split", "joined"}

Returns(function) == call = function /\ call' = "none"

\* Splitting loses nothing: what was split, with all pieces kept, is the same
\* text again when it is joined, for every text and every delimiter, also an
\* empty one and one that overlaps itself.
JoinUndoesSplit == [][Returns("join") /\ agree # "no" => text' = text]_vars

Clean(piece) == \A i \in 1..Len(piece) : ~OccursIn(piece, delimiter, i)

\* No end of the delimiter is its beginning.
Borderless == \A n \in 1..Len(delimiter) - 1 :
  SubSeq(delimiter, 1, n) # SubSeq(delimiter, Len(delimiter) - n + 1, Len(delimiter))

\* A list whose members do not contain the delimiter is the same list again
\* when it was joined and is split, if the delimiter does not overlap itself:
\* this is how the macros of proc_init/functions.hpp hand on a path (their
\* separator is LPIFN).  A list of one empty string comes back empty.
SplitUndoesJoin ==
  [][Returns("split") /\ agree = "joined" /\ pred = "all"
       /\ delimiter # << >> /\ Borderless /\ list # << << >> >>
       /\ (\A i \in DOMAIN list : Clean(list[i]))
     => list' = list]_vars

\* The steps of a path are the same whether split or, as for path_type, split_if
\* that is to keep what is not empty takes it to pieces: all that can go is an
\* empty piece at the end, and reg passes over the empty ones that are left.
SameSteps ==
  [][Returns("split") /\ agree = "split" =>
       \/ list' = list
       \/ pred = "nonempty" /\ list = Append(list', << >>)]_vars

\* The first i members of the list, each followed by newSubstr.
Followed[i \in 0..Len(list)] ==
  IF i = 0 THEN << >> ELSE Followed[i - 1] \o list[i] \o new

\* A text whose delimiters are replaced is its pieces, joined by the new ones.
ReplaceIsSplitAndJoin ==
  [][Returns("replace") /\ agree = "split" /\ delimiter # << >> =>
       text' = IF list = << >> THEN << >> ELSE Followed[Len(list) - 1] \o Last(list)]_vars
=============================================================================
