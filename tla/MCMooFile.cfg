SPECIFICATION Spec
CONSTANTS
  Tests <- MCTests
  MaxTests = 2
INVARIANTS
  RoundTrip
  CutIsNoticed
\* A file is written once, and cut at most once.
CHECK_DEADLOCK FALSE
