--------------------------- MODULE MCSingleChain ---------------------------
EXTENDS SingleChain

AddressSet == 1..7

\* Two nodes of each class, one of the last.
Classes == <<1, 1, 2, 2, 3, 3, 4>>
=============================================================================
