CONSTANTS
  Background <- MCBackground
  Tests <- MCTests
SPECIFICATION Spec
INVARIANT
  DeadCyclesStayAtPC
CHECK_DEADLOCK FALSE
