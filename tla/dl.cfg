SPECIFICATION Spec
CONSTANTS
  m1 = m1
  m2 = m2
  m3 = m3
  whole = whole
  other = other
  partial = partial
  h1 = h1
  h2 = h2
  add = add
  print = print
  none = none
  Managers <- ManagerSet
  Libraries <- LibrarySet
  Handles <- HandleSet
  None = none
  Functions <- FunctionSeq
  Exports <- ExportSets
  MaxCount = 3
SYMMETRY Symmetry
INVARIANTS
  NothingStaysOpen
  FunctionsAreLoaded
