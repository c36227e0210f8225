SPECIFICATION Spec
CONSTANTS
  Names <- MCNames
  Table <- MCTable
  Invocations <- MCInvocations
  Builds = {1, 2}
  Failing <- MCFailing
  MaxRuns = 3
INVARIANTS
  SuccessIsComplete
  ManifestIsTrue
  MetadataIsLast
  VectorsPassed
  ReplacedInOrder
PROPERTY
  FilteredRunIsLocal
