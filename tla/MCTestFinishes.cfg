CONSTANTS
  Background <- MCBackground
  Tests <- SampleTests
SPECIFICATION FairSpec
PROPERTY
  EveryTestFinishes
CHECK_DEADLOCK FALSE
