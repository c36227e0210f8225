SPECIFICATION Spec
CONSTANTS
  Started <- MCStarted
  Indexes <- MCIndexes
  Recorded <- MCRecorded
INVARIANTS
  SeedsDistinct
  StreamsApart
  ReproducesVectors
\* A test ends with its last draw.
CHECK_DEADLOCK FALSE
