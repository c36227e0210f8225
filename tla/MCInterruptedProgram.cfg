CONSTANTS
  Background <- MCBackground
  MaxRaises <- MCMaxRaises
SPECIFICATION Spec
INVARIANTS
  EDescribesFrame
  NestedByPriority
  NmiTakenOnce
PROPERTY
  Transparent
  FollowsListing
