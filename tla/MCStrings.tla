----------------------------- MODULE MCStrings -----------------------------
EXTENDS Strings

CONSTANTS a, b, blank

CharSet == {a, b, blank}
SpaceSet == {blank}

TextSet == SeqOf(CharSet, 4)
ListSet == SeqOf(SeqOf(CharSet, 1) \cup {<<a, b>>}, 3)

\* None, one, two characters; two that overlap themselves.
DelimiterSet == {<< >>, <<a>>, <<a, b>>, <<a, a>>, <<a, b, a>>}
NewSet == {<< >>, <<a, b>>}
=============================================================================
