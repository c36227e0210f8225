SPECIFICATION Spec
CONSTANTS
  Names <- MCNames
  Table <- MCTable
  Invocations <- MCInvocations
  Builds = {1, 2}
  Failing <- MCFailing
  MaxRuns = 2
INVARIANT
  OneLinePerFile
