SPECIFICATION Spec
CONSTANTS
  A = A
  B = B
  C = C
  Addresses <- AddressSet
  Types <- TypeSet
  type <- Classes
  Uppers <- UpperSets
  Lowers <- LowerSets
  Rank <- Layer
  End = 0
  MaxWalks = 2
INVARIANTS
  LowersLive
  NoLeak
  WalkIsSafe
  WalkMeetsAll
  MakerIsKnown
PROPERTIES
  UppersKept
