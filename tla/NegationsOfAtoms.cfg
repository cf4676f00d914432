CONSTANTS
  Inputs <- MCConnectives
  MaxLength = 1
SPECIFICATION Spec
INVARIANT NegationsAreOfAtoms
CHECK_DEADLOCK FALSE
