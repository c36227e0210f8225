CONSTANTS
  First = "MAIN"
  Jumps <- JumpsOf
  Callees <- CalleesOf
  Ends <- EndLabels
  Waits <- WaitLabels
  OwnerOf <- StateOwner
  Interior <- InteriorStates
  Conditional <- ConditionalLabels
  MaxBudget = 2
SPECIFICATION FairSpec
INVARIANTS
  TwoFrames
  ResumesInPlace
PROPERTIES
  ImplementsNotation
  CallerIsServed
  InstructionsEnd
