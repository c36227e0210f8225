CONSTANT
  Programs <- MCPrograms
SPECIFICATION Spec
INVARIANTS
  WideArithmetic
  WideShifts
  DecimalAddition
  ComparisonsDecide
CHECK_DEADLOCK FALSE
