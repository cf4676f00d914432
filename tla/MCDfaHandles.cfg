SPECIFICATION Spec
CONSTANTS
  Handles = {1, 2, 3, 4, 5, 6, 7, 8, 9, 10, 11, 12, 13, 14}
  Null = Null
  Unused <- LowestUnused
  MaxDepth = 5
  MaxMembers <- FewerBelow
INVARIANTS
  TypeOK
  UsesAreAllocated
  NothingLeaks
PROPERTIES
  BodyStays
