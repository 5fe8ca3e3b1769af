SPECIFICATION Spec
CONSTANTS
  Depth = 4
  Addresses <- AddressSet
  class <- Classes
  Null = 0
INVARIANTS
  ThereAndBack
  NoLeak
