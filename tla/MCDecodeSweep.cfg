CONSTANT
  Background <- MCBackground
SPECIFICATION Spec
INVARIANTS
  TableIsComplete
  SkippedForTheirReasons
  SanityCasesPass
CHECK_DEADLOCK FALSE
