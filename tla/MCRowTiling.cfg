SPECIFICATION Spec
CONSTANTS
  Rows <- MCRows
INVARIANTS
  SoftmaxIsNumber
