CONSTANTS
  Background <- MCBackground
  Tests <- MCTests
SPECIFICATION Spec
INVARIANTS
  TypeOK
  TestsPass
  AtMostTwoCalls
  StackDiscipline
  OperandsLatched
  InstructionBytes
  ReturnAddress
  VectorReplays
  IdleCycles
CHECK_DEADLOCK FALSE
