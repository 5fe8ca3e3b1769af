------------------------------ MODULE MCDlMgr ------------------------------
EXTENDS DlMgr, TLC

CONSTANTS m1, m2, m3, whole, other, partial, h1, h2, add, print, none

ManagerSet == {m1, m2, m3}
LibrarySet == {whole, other, partial}
HandleSet == {h1, h2}
FunctionSeq == <<add, print>>

\* Two libraries with both functions, and one without the last.
ExportSets ==
  [l \in LibrarySet |-> IF l = partial THEN {add} ELSE {add, print}]

Symmetry == Permutations(ManagerSet) \cup Permutations(HandleSet)
=============================================================================
