CONSTANTS
  Background <- MCBackground
  MaxRaises <- MCFewRaises
SPECIFICATION FairSpec
PROPERTIES
  NmiIsTaken
  WaitsEnd
